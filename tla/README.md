# QinDB: a TLA+ verification project

QinDB is a relational database in C++/Qt: a paged storage engine with a buffer
pool, page locks, MVCC headers and a write-ahead log, an SQL front end, indexes,
caches, users and permissions, and a TCP server. This project models its parts
in TLA+, checks them with TLC on small instances, and proves the central
invariants with TLAPS for every instance. `PROJECT.json` lists the runs, the
theorems, the source lines behind every definition, and the hazards.

## 1. Inventory

### Parts, their state and their operations

| Part (under `src/src/`) | State | Operations |
|---|---|---|
| `storage/transaction.cpp` | transaction table, page lock table | begin, commit, abort, lockPage (timeout, upgrade), unlockPage |
| `storage/buffer_pool_manager.cpp` | frames, page table, free list, clock hand | fetchPage, newPage, unpinPage, flushPage, flushAllPages, deletePage |
| `storage/disk_manager.cpp` | page file, next page id | readPage, writePage, allocatePage |
| `storage/wal.cpp` | log file and its write buffer, current LSN | write a record, flush, recover, begin/commit/abort records |
| `storage/wal_db_backend.cpp` | the log in table pages | the same, in database mode |
| `storage/table_page.cpp` | slot directory, records with xmin/xmax | insert, update, delete, list records |
| `storage/{visibility_checker,undo_log,vacuum,row_id_index}.cpp` | undo records, row index | isVisible, undo, cleanupTable |
| `executor/executor.cpp` | current transaction, caches | the SQL statements |
| `catalog/*.cpp` | tables, indexes, databases | create, drop, save, load |
| `cache/*.cpp` | query and table caches | get, put, invalidate, evict |
| `index/*.cpp` | B+ trees, hash, inverted and composite indexes | insert, search, remove, split |
| `auth/*.cpp` | users, grants | create, drop, authenticate, grant, revoke |
| `network/*.cpp` | connections, sessions | accept, authenticate, query, disconnect, TLS |
| `parser/`, `optimizer/`, `core/`, `utils/` | none shared | text to tree, cost estimates, configuration, export |

### Who runs when

`main.cpp` runs one Qt event loop: the statements of all clients are executed
one after the other in one thread, and so are the handlers of the server's
connections. The client program has a loop of its own, in which it waits for an
answer. The storage classes nevertheless promise to be thread-safe (each has a
mutex) and are modelled with concurrent callers. A mutex is held for a whole
method, so that a method is one action, except where it releases the mutex:
`lockPage` between two attempts, `commitTransaction` and `abortTransaction`
before they write to the log, and `update` of the inverted index between the
removal and the insertion of a document.

### What is hard here

Waiting and timeouts in `lockPage`; a commit whose log record fails; a pool full
of pinned pages or whose writes fail; a crash that loses the write buffer of the
log or tears its last record; ids that start again after a restart; statements
that fail half-way; caches and lists of rows that are stale when they are used;
trees that split, borrow and merge at the limits of a page; a catalog that is
kept twice in memory and stored once; a process that dies while it saves;
connections that share one transaction, and answers that come after the client
has stopped waiting. The hazards of `PROJECT.json` give the lines.

## 2. Modules

### TransactionManager

State: `transactions` (state and `lockedPages` of each), `pageLocks`,
`nextTxnId`, the log as the sequence of accepted records, and for every thread
the call it is in (`waiting` for a lock, or between the unlock and the log
record). Actions: one per method, and several for `lockPage`, which loops:
`LockGranted`, `LockRefused`, `LockBlocked`, `LockTimeout`, `LockRetry`. A log
write may fail. `Destroy` and `AbortOnShutdown` model the destructor.

The clock of `lockPage` is abstracted to ticks per call; `Timeouts` holds 0 (wait
for ever) and 1.

### BufferPool and PageStore

`BufferPool` has the frames, the page table, the free list, the clock hand, the
file with the stored checksum of each page, and what every client has pinned.
Clients write to a page through its pointer, outside the mutex, in an action of
their own. Reads and writes of the file may fail and may leave a torn page.
Contents are abstract values.

`PageStore` is what the pool promises: pages with contents, opened and closed by
clients, as if there were no pool. The refinement mapping shows a page's contents
as the frame's if the page is resident, else as the file's.

The constant `Probing` allows a client to fetch a page id that is not allocated
yet, which `CatalogDbBackend::systemTablesExist` does on a new file. The
theorems assume `~Probing`; section 3 says what happens otherwise.

### WriteAheadLog

The log in file mode across sessions. `log` is the file followed by the write
buffer; `flushed` says how much is in the file; a `Crash` keeps a prefix of the
log and may leave a fragment of the next record; `Restart` and `Recover` model
`DatabaseManager::loadDatabase` and `recoverFromFile`, which reads up to the
first fragment. A commit takes three steps: its record, the flush, the return.
Names are those of the log where the transaction manager has the same
(`WriteBegin`, `WriteAbort`, `LogNext`). `acked` remembers what was reported to
a client. The operations of a transaction write records as the executor makes
them: auto-commit UPDATE and DELETE write none. Power failures are not modelled:
what the operating system has accepted is in the file.

### TablePage and PageLife

`TablePage` defines what the functions of `table_page.cpp` do to one slotted
page: its slots with offset, length and record, `freeSpaceOffset` and
`freeSpaceSize` in 16 bits. A row is a value with a size, so that what fits is
decided by the code's own arithmetic. `PageLife` lets one page live through any
sequence of insert, update, delete, undelete and vacuum steps.

### Visibility and Statements

`Visibility` has the rules of `visibility_checker.cpp` and `canDelete` of the
vacuum. `Statements` has INSERT (with its three ends: all rows stored, a row that
cannot be stored, a row that is refused), UPDATE, DELETE, VACUUM, BEGIN, COMMIT
and ROLLBACK on the chain of pages of one table, the undo log of the current
transaction, and crashes. A statement is one action, since one thread runs them
all; its rows are folded over the pages in the code's order, so that a statement
that fails half-way leaves what the code leaves. All connections share
`currentTxn`.

The history variable `expected` is the table as a bag of values that the
statements so far promise by their SQL meaning; `atBegin` is that of BEGIN. In
a session's transaction a refused INSERT is taken to keep the rows before the
refused one, as the code does. After an I/O error nothing is promised, and
`expected` is set to what is there.

Simplified: a page that cannot be read stays so for the whole statement; a
statement meets at most one kind of fault; writes of a flush do not fail; a
page on disk after a crash is the flushed one or the newest one, not one in
between. Left out: indexes, caches and log records of the statements.

### KeyTypes, GenericBPlusTree, HashIndex, InvertedIndex, IndexCalls and Indexes

`KeyTypes` says what a key of each type is read back as once it was written and
how two keys compare, which is not the same for every type. `GenericBPlusTree`
has insert with its splits up to a new root, remove with borrowing and merging,
search and range search, as operators on a tree of pages with links between
leaves. Pages overflow by count and by size. `HashIndex` has the bucket
directory with its chains of overflow pages, `InvertedIndex` the postings of
tokenised texts. `IndexCalls` calls one of them in any order: a call is one
action, except the update of a text, in which another thread may run; a search of
the hash index is one too, since it creates the bucket it looks for. There the
operations of a tree are parameters, so that what is proved of the other two
indexes rests on no RECURSIVE operator; `Indexes` adds the properties of a tree,
and the run gives the parameters their meaning from `GenericBPlusTree`.

What goes wrong inside a tree sets `fault`: a separator that is not found when
leaves are merged, a parent without room, an entry lost in borrowing, an empty
leaf, a key longer than a leaf can be read with. A tree is not followed beyond
its first fault, and the properties say which faults they allow.

In the hash index, `Flush` writes the directory page, whose checksum is stored
over the number of bucket 7: it is the sum of the page's other bytes, hence the
mark of an absent bucket if no other bucket exists and otherwise no page of this
bucket (`Lost`). A call that comes to that bucket then works on whatever page the
number names. It has strayed, and the index is not followed further. The
histories: `expected` counts what was inserted and not removed, where a removal
without row id removes all entries of its key, as `hash_index.h` says; `leftover`
holds the keys of which the code then left some; `flushed` says that the
directory page was written.

### ExpressionEvaluator, QueryRewriter, QueryExecution, QueryCache, TableCache and Select

`ExpressionEvaluator` evaluates expressions over integers, NULL and errors;
`QueryRewriter` clones a statement, folds constants and pushes predicates down;
`QueryExecution` has the loops of `executeSelect` over the records: filter,
project, join, group, order and limit. Both caches are values with operators for
every method that has a caller; a series of evictions is the set of entries that
leave, none of them more recent than one that stays. `Select` composes them as
`executeSelect` does, with INSERT, UPDATE, DELETE, CREATE and DROP TABLE,
transactions and USE, each with the invalidation that the code does and no
other. What the rewriter makes of a statement, the text of an expression and the
rows that a scan and a join compute are parameters of `Select` (`Rewrite`,
`Text`, `Scan`, `Join`); `MCSelect` gives them the operators of `QueryRewriter`
and `QueryExecution`. Time is a counter, for the expiry of entries. The key of a
query keeps of its text what the code keeps. The history variable `doubtful`
holds the entries that were changed behind the caches' back, in one of the ways
section 3 lists.

### Catalog, Accounts and DatabaseManager

`Catalog` has the maps of a catalog, `catalog.json` and the three system pages.
`saveCatalog` writes tables, columns and indexes in the order of a hash table and
stops at the first tuple that does not fit: the model has every set of tables and
indexes that may have been written by then (`WrittenPartly`).
`Accounts` users and permissions as records on table pages, found by their
position in the list of live records, as the code does. `DatabaseManager` has
the directories, the loaded databases, `databases.json`, the start of the
process with its system database, its ends (exit, signal, crash, crash while
saving), and every statement that changes a catalog, a user or a permission.

The histories `wanted` and `durable` say what the statements so far have made of
each database and what of that a crash must leave. Three steps other than a
statement for it take something from a database and set `wanted` anew: a start
that makes `qindb` although it is there, CREATE DATABASE over a database that is
not loaded, and SIGINT, which flushes nothing when catalogs are in system pages.
`lost` records which of them took tables, grants or users, and the properties
say which ones may: with catalogs in files only CREATE DATABASE, and never a
user. A database in `doubtful` had a save that was cut off or did not fit, or a
DROP that failed; nothing is promised of it. `shifted` says that a user was
changed by a position that is not its slot. Simplified: pages reach the disk by
a flush only, an exit is interrupted at `databases.json` only, names are
lower-case, ids are left out, statements name other tables than the two with the
users and the permissions (`DatabasesAssumption`), and after DROP DATABASE of
the system database only the process ends.

### Conversation and Sessions

`Conversation` has what both ends of a connection know, as values, and what the
client makes of each message (`Received`, `Handled`). `Sessions` has clients
with their program's phases (authenticating, at the prompt, waiting for an
answer, ended), connections that deliver whole messages in order until they
break, the server's connections and sessions, and the databases with the one
current database and transaction that all connections share. A client reads only
while it waits; it handles one or several messages at once; after five seconds
it stops waiting, and the answer may still come. `late`, `mixed`, `owner` and
`promised` are histories. What a row is seen by is `Visibility`.

## 3. Runs

| Run | Result | What it shows |
|---|---|---|
| `locks` | holds | exclusive locks exclude, both lock tables agree, one outcome per transaction in the log, no lock is taken away, a `lockPage` call with a timeout returns |
| `pool_frames` | holds | frames are partitioned, pins protect, clean pages are saved |
| `pool_refinement` | holds | BufferPool implements PageStore |
| `wal_crash` | holds | LSN order, complete commits, flushed readable commits stay and are replayed |
| `page_layout` | holds | records lie inside the page and never overlap, a slot keeps its row |
| `sql_session` | holds | statements see what SQL promises: rows of one size, no VACUUM, crash or I/O error |
| `sql_vacuum` | holds | VACUUM takes no visible row; a committed deletion stays one until a crash |
| `sql_undo` | violated | ROLLBACK does not restore a row that was made shorter |
| `indexes` | holds | a tree without fault finds the last insert of every key and exact ranges, and splits, borrows and merges lose no entry; the hash index finds exactly the rows of a key, up to the bucket under the checksum and what a removal of all entries leaves; postings match the texts between updates, and both searches agree with them |
| `select` | holds | cached results and cached tables are current wherever the executor invalidates them, the query cache keeps to its limits, rewriting does not change answers |
| `databases` | holds | tables, indexes, grants and users are what the statements made of them across exits, signals and crashes, and are lost with a whole database in the named cases only; an administrator is left; the process starts again unless a fault cut off its system database |
| `sessions` | holds | answers, rows, transactions and sessions belong to the client they should, and the place of a lost connection becomes free |

`sql_session` is the part of the statements that works. `sql_undo` adds rows of
two sizes to it; its property states what a comment of the code says, and the
finding of `PROJECT.json` quotes it.

### Other disagreements

Met while modelling and not kept as runs; the actions that cause them are in the
models, except where a line says that the code is not modelled.

Storage and log:

- A transaction whose COMMIT record cannot be written is COMMITTED all the same
  (`transaction.cpp:85`), and a commit whose flush failed is reported
  (`wal.cpp:611`). Locks are released before the record is written
  (`transaction.cpp:79`).
- Commits behind a torn record are lost: a new session appends behind it, and
  recovery stops at it (`wal.cpp:314`).
- Transaction ids start at 1 after a restart (`transaction.cpp:10`): recovery
  takes records of an unfinished transaction for those of a committed one, and a
  BEGIN hides committed rows that carry its id. Rows of transactions that were
  unfinished at a crash are visible after it (`visibility_checker.cpp:59`; with
  `Allowed = {"crash"}` and `MaxCrashes = 1`, TLC finds `SeesWhatIsPromised`
  violated).
- Auto-commit UPDATE and DELETE write no log record (`executor.cpp:1567`).
- A dirty page that is evicted is written with its old checksum
  (`buffer_pool_manager.cpp:89`).
- A page that is fetched before it is allocated ends up in two frames
  (`disk_manager.cpp:260`): with `Probing = TRUE`, TLC finds `FramesPartition`
  violated.
- `hasEnoughSpace` accepts records that `insertRecord` refuses when fewer than 4
  bytes would be left, and a record of 64 KB or more is cut to 16 bits of length
  and can not be read (`table_page.cpp:347` and `:34`).
- `checkpoint` locks a mutex it holds (`wal.cpp:247`); it has no caller and is
  not modelled. The database mode of the log never accepts a record under the
  DatabaseManager (`wal_db_backend.cpp:38`).

Statements:

- An UPDATE that needs room and finds none deletes the row (`executor.cpp:1634`;
  with `TwoSizes`, TLC finds `SeesWhatIsPromised` violated).
- After VACUUM, UPDATE and DELETE take positions in the list of records for slots
  and hit other rows (`executor.cpp:1532`; likewise with `Allowed = {"vacuum"}`).
- An INSERT that cannot store a row aborts the session's transaction without
  undoing it (`executor.cpp:425`); one that is refused uses row ids that are
  given out again (`executor.cpp:379`).
- VACUUM never removes rows deleted before the last restart (`vacuum.cpp:32`).

Indexes:

- Merging leaves may not find their separator in the parent
  (`generic_bplustree.cpp:1580`, `:1652`); borrowing loses an entry when the
  separator cannot be replaced (`:1404`, `:1489`), or does not write the new one
  (`:1428`, `:1513`); a leaf without entries cannot be merged (`:1580`).
- A key of 4097 to 8132 bytes makes its leaf unreadable (`:898`); after a split
  a full parent refuses the separator, and the new leaf is reached by its links
  only (`:801`, `:813`).
- INSERT, UPDATE and DELETE keep using the root page of before a split
  (`executor.cpp:571`; these calls are not modelled).
- A key that fits on no page makes the hash index append overflow pages for ever
  (`hash_index.cpp:79`). The checksum of the directory page overwrites one bucket
  (`page.cpp:89`), and calls for its keys then read and change other pages
  (`hash_index.cpp:379`); pages are unpinned twice (`hash_index.cpp:168`, `:282`).
- `HashIndex::remove` without a row id removes one entry of the key
  (`hash_index.cpp:265`), where `hash_index.h:71` says that it removes all.
- Long DECIMAL keys compare equal to all others (`key_comparator.cpp:56`), as do
  JSON keys; equality of floating-point keys is not transitive; the hash index
  tells apart CHAR values that are equal for the tree.
- Between the two halves of an update a document is found by no word
  (`inverted_index.cpp:141`). Full-text indexes are not stored
  (`executor.cpp:909`).

SELECT and its caches:

- The key of a cached query has neither select list, joins, GROUP BY, database
  nor quotes (`executor.cpp:673`): two statements share an answer.
- The catalog ignores case and the caches do not (`table_cache.cpp:166`): a
  change under one spelling leaves entries of another, and their memory counts
  twice. ROLLBACK and an INSERT that fails after its first row invalidate nothing
  (`executor.cpp:1334`).
- Pushed predicates are taken out of WHERE and applied nowhere
  (`query_rewriter.cpp:96`). Folding turns an error into the expression again
  (`:319`, against the comment at `:325`). Cloning loses MATCH and INTO OUTFILE.
- ORDER BY compares texts as numbers (`executor.cpp:1299`); DISTINCT, OFFSET and
  HAVING are ignored; JOIN reads uncommitted rows.
- Disabling the table cache locks a mutex twice; nothing does it.

Databases, users and permissions:

- A crash while `catalog.json` of the system database is written makes every
  later start end with an error (`catalog.cpp:242`, `main.cpp:1467`).
- CREATE TABLE succeeds although its catalog could not be saved
  (`executor.cpp:263`); closing a database then flushes half of its system pages
  (`database_manager.cpp:528`). A DROP DATABASE that fails leaves a closed
  database current (`:116`); CREATE DATABASE replaces an existing one that is not
  loaded (`:59`, against the comment at `:58`).
- With catalogs in system pages SHOW DATABASES lists none, as it looks for
  `catalog.json` (`:172`), and a database exists for a start only if it is loaded
  (`:183`): when another one was current at the end, the start makes `qindb` anew,
  and its tables, users and permissions are gone (`main.cpp:1440`). SIGINT then
  saves no pages, and users and permissions since the last flush are lost, where
  `main.cpp:44` says that all data are saved.
- A user is dropped or altered by its position among the live records
  (`auth_manager.cpp:525`, `:629`): after an earlier drop, that is another's.
- GRANT writes to the permissions of the database that was used last, looks the
  table up in the current one, and may leave the target current
  (`executor.cpp:3192`, `:3202`). Users and permissions are not logged.

Server and clients:

- All connections share the current database and the transaction
  (`database_manager.cpp:594`): BEGIN in another database overwrites the id, and
  a client that disconnects leaves its transaction to the others
  (`client_connection.cpp:91`).
- An answer that comes late is shown for the next statement (`main.cpp:711`,
  `:1022`); errors do not end the wait, so that failed statements take five
  seconds. A retry of the connection is scheduled and never runs
  (`client_manager.cpp:94`, `main.cpp:667`).
- A USE in a script is answered with success and does nothing (`main.cpp:822`,
  `client_connection.cpp:226`). The server declares all columns VARCHAR
  (`client_connection.cpp:276`), so that a client misreads typed values.

### Bounds

- Two threads, two pages and two transactions suffice for a circular wait, a
  shared lock with two holders, an upgrade that must wait, and a transaction
  that another thread ends while its lock call waits.
- Two frames and three pages make the pool evict; two clients can pin it full.
  One frame in the refinement run makes every load an eviction.
- Four log entries and two sessions suffice for two interleaved transactions
  with their commits, a torn record and records behind it.
- Rows of 4000 bytes fill a page with two, so that two pages make statements
  search, fill and chain pages; 2600 and 4000 bytes make an update shrink or
  grow a row. Three transactions allow one before, in
  and after a session; two undo records a row that is changed twice.
- `indexes`: pages of 8144 bytes for the entries of a tree, three keys per page,
  and trees of up to three levels to start from, one call away from a split or a
  merge at each level; three calls on a tree, four on the others, so that every
  operation follows every other.
- `select`: two spellings of one table, a second table to join and a second
  database; three entries make the query cache evict by count and six units of
  memory by size; four statements allow a query, two changes and the query
  again.
- `databases`: two databases, two tables, room for five columns in the system
  pages, which a second table in the system database exceeds, and three records
  on a page of users or permissions, which creating and dropping one user fills;
  seven statements and starts with one fault reach a second start after any end
  of the process.
- `sessions`: two clients, two databases, room for one connection or for both,
  three requests (BEGIN, INSERT and one of another client) and one fault: a
  connection that breaks or an answer not waited for. With two requests for each
  client the invariants hold in 8.2 million states, too many to keep.
- Bounded counters: `MaxTxnId`, `MaxTxns`, `MaxPages`, `MaxLSN`, `MaxSessions`
  of the storage modules; `MaxRows`, `MaxTxns`, `MaxPages`, `MaxUndo`,
  `MaxRowId`, `MaxCrashes` of Statements; `MaxOps` of Indexes, Select and
  DatabaseManager; `MaxRecords`, `MaxTxns`, `MaxTime` of Select; `MaxRequests`
  and `MaxFaults`.

Runs without deadlock check are those in which the program may stop: a
bounded log is full, the bounds of a module are reached, every client has
ended, or every thread waits with timeout 0.

### Fairness

`LockPageReturns` needs weak fairness of every thread inside a call
(`Proceed`). The mutex is never held across a wait, and `msleep` returns, so a
thread inside a call always takes its next step.

`ConnectionsAreGivenBack` needs weak fairness of the server's handlers and of a
client that waits (`ServerStep`, `ClientStep`): the event loops deliver what has
arrived, and the timers of the client run out. Nobody is assumed to type
anything or to leave. The server is assumed to be told of every connection that
breaks: it sets no keep-alive and has no timer of its own for idle connections,
so that a peer that vanishes without closing the connection, which the model does
not have, would keep its place.

## 4. Proofs

`tlapm` proves, for every value of the constants that satisfies the modules'
assumptions:

- `TransactionProofs`, the transaction manager: type correctness,
  `LockExclusion`, `LockTablesAgree`, `WalMatchesOutcome` and the action property
  `NoLockStolen`. The invariants are proved together: exclusion needs the
  agreement of both tables, since `ReleaseAllLocks` visits only `lockedPages`,
  and the log needs to know which threads are about to write an outcome.
- `BufferPoolProofs`: type correctness, `FramesPartition`, `PinsProtect`,
  `CleanMeansSaved`, if no page is fetched before it is allocated. The inductive
  invariant adds that the page table and the frames name each other, that the
  free list has no frame twice, and that a pin count is the number of clients
  that hold the page. From it `PoolImplementsStore`, action by action; eviction
  and flushing are stutters.
- `TransactionProofs`, the log: type correctness, `LSNsIncrease`,
  `CommitCoversRecords`, `SecuredCommitsStay`, `SecuredIsReplayed`. The inductive
  invariant `LogInv` adds that the readable records of the running session belong
  to known transactions, and that a transaction with a COMMIT record takes no
  more operations.
- `TableProofs`, one page: type correctness, `RecordsFit` (records inside the
  page, none overlapping) and `SlotsKeepTheirRow`. The inductive invariant adds
  that the free offset lies below every record and the directory below the free
  offset; without it an insert could write over a record.
- `TableProofs`, the statements on a table: `TypeOK`, the action properties
  `DeletedStaysDeleted` and `VacuumKeepsVisible`, for any number of rows in a
  statement, pages, transactions, undo records, crashes and faults. The inductive
  invariant `TableInv` adds that every used slot has a record, and that each
  deletion in the undo log is of a slot that is marked by the current transaction
  or by none: this is what keeps ROLLBACK, which clears the mark whatever it is,
  from bringing back a row that another transaction has deleted. A statement is a
  loop over rows, and `Sound` is the invariant of that loop: seen from the
  start of the statement, slots stay used or empty, and a mark changes only from
  none to the statement's own (`KeptChain`). `Undone` has the same shape,
  backwards over the undo log. For VACUUM, what `canDelete` accepts is invisible
  to every transaction (`RemovableIsInvisible`), and emptying slots changes no
  other slot.
- `CatalogProofs`, facts about values: creating and dropping tables and indexes
  keeps the map of indexes and the lists of the tables in agreement
  (`OperationsKeepAgreement`); both stored forms give the catalog back:
  `catalog.json`, which has the lists only (`FileKeepsCatalog`), and complete
  system pages, which have the map only (`PagesKeepCatalog`); and what every
  method of the `DatabaseManager` makes of its directories and databases.
- `DatabaseProofs`, from these: `CatalogsAgree`, `TablesSurvive` and
  `RefusedOnlyAfterAFault`, for any databases, tables, indexes, users and page
  sizes, and any number of statements, exits, signals, crashes and crashes while
  saving. The inductive invariant `DbInv` says of every database that is not in
  doubt what its directory and its loaded catalog must be for the tables that
  the statements have made (`Keeps`: `OnDisk` and `InMemory`), that the table of
  the users is there while the process serves, and that the tables a crash must
  leave (`durable`) are those the statements have made. `TablesSurvive` alone is
  not inductive: it says nothing of a database that is not loaded, and the next
  start loads it. Its second half, which steps take tables with a database
  (`TablesTakenBy`), is proved step by step: a start with catalogs in files finds
  the catalog file that `OnDisk` promises for `qindb`, and a signal leaves the
  tables of every database as they are.
- `SelectProofs`: `QueryEntriesAreFresh`, `TableEntriesAreFresh` and
  `QueryMemoryIsBounded`, for any statements, tables, databases, limits and
  sizes, and whatever the rewriter, the scan and the join compute. The inductive
  invariant `SelectInv` says more than the properties: an entry that is not in
  doubt answers its statement in its own database, be it the current one or not,
  and all its tables exist (`Fits`); the map from tables to entries misses no
  entry, which is what makes invalidation complete; the count of the memory is
  the sum of the sizes (`IsQueryCache`). The steps between the statements rest on
  what readers see: BEGIN gives a view that nobody with id 0 can tell from their
  own (`SeenAfterBegin`), COMMIT shows everybody what the session saw
  (`SeenAfterCommit`), an auto-commit transaction changes what is seen of no
  other table (`SeenAfterAutoCommit`). The proof found that USE in a session puts
  the entries of both databases in doubt, not only those of the new one: the
  session's id is read against the transactions of either.
- `ClientsProofs`, the connections: `SessionsAreApart`,
  `AnswersAreForTheRequest` and `RowsAreWhereThePromptSaid`, for any number of
  clients, databases, requests, breaks and timeouts. `Talk` says what one client
  and the server can have to say to each other: a client authenticates once, and
  either its request is on the way, or the answer, or both sides have the session
  (`OneSession`); as long as it has never stopped waiting, at most one request or
  its answer is on the way, and otherwise it knows the database that the
  connection has (`OneRequest`).
  It is first proved kept by each kind of step, as facts about values; then
  every action of `Sessions` is such a step for one client and changes no other
  conversation (`Others`). The inductive invariant `TInv` adds that session
  numbers are given out once and that the server counts its connections.
- `ClientsProofs`, the transactions: `TransactionsAreKept`, for any
  number of clients, databases, requests and faults. The inductive invariant has
  two halves. `QInv`: the requests of a client are on their way in the order they
  were typed, and a row carries a request that is not on its way any more, so
  that no two rows are the same. `KInv`, as long as nobody was `mixed` into the
  transaction of another: the owner's transaction is the only active one, a row
  belongs to a transaction of its database and is marked only if that one was
  rolled back, and the undo log holds exactly the pending rows. Without the
  first half ROLLBACK could mark a row of an earlier transaction.
- `IndexProofs`: `HashFindsAllRows`, `PostingsMatchTexts` and `SearchesAgree`, for
  any keys, row ids, buckets, documents and texts, any hash function into the
  buckets, and calls without a bound. The inductive invariant of the hash index
  (`HashIs`) counts the spots of every entry in the chain of its bucket, a spot
  being a page and a position; no chain but the one under the checksum is lost,
  and that one only once the directory page was written. What is there and what
  was asked for need not be the same: `HashHolds` says that there is a count of
  the entries that the spots have, and that `expected` equals it but for the keys
  in `leftover`, where it is no more (`Follows`).
  An insertion adds one spot wherever a page takes the entry (`Gains`). A removal
  moves the entries behind the removed one up: it maps the other spots to the new
  ones, one to one (`SpotsShrink`), and the spot it takes is the one a search
  would have found first (`GoneIsHit`). That of the full-text index (`TextIs`) is
  that the posting list of a term has each document with the term exactly once:
  `remove` takes the first posting of a document out of each list, which leaves
  none behind only because there is one. An update whose halves another overtakes
  needs no more than that: its second half is refused like an insertion of a
  known document.

Model-checked only:

- liveness: `LockPageReturns`, `ConnectionsAreGivenBack`;
- `SeesWhatIsPromised` of Statements: it holds only where rows have one size and
  nothing fails (section 3), and compares a count of visible rows with a history;
- the properties of trees (Indexes), and `RewriteKeepsAnswers` of Select: trees,
  expressions and their rewriting are RECURSIVE operators, in whose modules
  nothing can be proved;
- `GrantsAreExact`, `UsersAreExact` and `AnAdminIsLeft` of DatabaseManager: they
  count records along chains of pages. `GrantsAreExact` follows the database that
  a GRANT writes to, which need not be the one it names (section 3);
- the violated property.

The library's induction theorems take an operator as a parameter, which the
provers cannot instantiate. Induction over rows, messages and undo records is
done with sets instead: the least element of a set of numbers (`LeastNumber`)
gives induction over a set (`SetInduction`), which gives that steps which stay in
a set can be taken one after the other (`RunExists`) and what such a run keeps
(`RunStays`). A loop of the model is a recursive function, hence a CHOOSE; the
run that exists is the function chosen.

## 5. Not modelled

- **Log in database mode**: under the DatabaseManager it refuses every record, so
  that there is no behaviour to check.
- **Row id index**: INSERT fills it and nothing reads it. **Integer B+ tree** and
  **composite index**: used by tests only.
- **Index maintenance by INSERT, UPDATE and DELETE**: the indexes are modelled by
  themselves and the statements on the heap by themselves. Their product is out
  of TLC's reach with pages of real sizes.
- **Statements together with the log**: recovery counts the records of committed
  transactions and changes no page, so that the composition shows no more than
  both parts.
- **Parser and lexer**: sequential, without shared state. **Cost model and
  statistics**: floating-point estimates no answer depends on.
- **Password hashing, TLS, certificates**: computations and calls into libraries.
  **Message codec**: plain serialisation; Sessions has whole messages.
- **Configuration, logging, export**: input and output. **SHOW, EXPLAIN,
  ANALYZE**: they change nothing but the statistics.
- **Power failures** that lose what the operating system had accepted.
- Methods without a caller: `checkpoint`, `setUserActive`,
  `revokeAllPermissions`, `invalidateDatabase`, the setters of the caches,
  `getStatistics` of the indexes, the serialisation of undo records and of the
  inverted index.
