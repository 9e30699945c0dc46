------------------------------- MODULE Select -------------------------------
(***************************************************************************)
(* SELECT (Executor::executeSelect) with the query rewriter, the query     *)
(* cache and the table cache, in one executor that lives as long as the    *)
(* program (the shell; the server makes an executor for every request),    *)
(* between the statements that change the tables.                          *)
(*                                                                         *)
(* A table has one column and is the sequence of its records, whatever     *)
(* their pages; an UPDATE writes in place.  Statements models pages, moved *)
(* rows and I/O errors.  Transactions belong to a database, the id of the  *)
(* current one to the DatabaseManager.  Column names, messages, and        *)
(* conditions whose clone has a null operand (the key of the query cache   *)
(* cannot be built from them) are left out.                                *)
(*                                                                         *)
(* What the rewriter makes of a statement, the text of an expression and   *)
(* the result of a statement on the records it reads are parameters, which *)
(* MCSelect takes from QueryRewriter and QueryExecution.                   *)
(***************************************************************************)
EXTENDS QueryCache, TableCache

CONSTANTS
  Databases,   \* names of databases
  Selects,     \* the SELECT statements
  RowValues,   \* values of rows
  Lower,       \* the name of a table in lower case, for every spelling
  Writes,      \* bound: the other statements, as <<keyword, table>> and the value
  FirstDatabase, \* the database in use at the start
  Rewrite(_),  \* QueryRewriter::rewrite
  Text(_),     \* Expression::toString
  Scan(_, _, _),  \* the result on one table: statement, records, positions it sees
  Join(_, _, _),  \* the result on two tables: statement, records of both
  MaxRecords,  \* bound: records of a table
  MaxTxns,     \* bound: transactions of a database
  MaxTime,     \* bound: clock
  MaxOps       \* bound: statements

\* Names in lower case are names too, and statements name tables.
ASSUME SelectAssumption ==
  /\ FirstDatabase \in Databases
  /\ RowValues # {}
  /\ Lower \in [TableNames -> TableNames]
  /\ \A name \in TableNames : Lower[Lower[name]] = Lower[name]
  /\ \A stmt \in Selects :
       /\ Rewrite(stmt).from \in TableNames
       /\ Rewrite(stmt).joins \in Seq(Range(Rewrite(stmt).joins))
       /\ \A i \in DOMAIN Rewrite(stmt).joins : Rewrite(stmt).joins[i].right \in TableNames

VARIABLES
  database,    \* DatabaseManager::m_currentDatabase
  currentTxn,  \* DatabaseManager::m_currentTransactionId
  txns,        \* for each database: state and undo log of its transactions
  tables,      \* for each database: its tables, by name in lower case
  queries,     \* queryCache_
  cached,      \* tableCache_
  now,         \* the clock that the caches read
  ops,         \* bound: statements so far
  doubtful     \* history: entries whose tables changed behind the caches' back

vars == <<database, currentTxn, txns, tables, queries, cached, now, ops, doubtful>>

V == INSTANCE Visibility WITH Values <- {}, NoRecord <- 0

StatesOf(log) == [i \in DOMAIN log |-> log[i].state]

States(d) == StatesOf(txns[d])

Exists(content, name) == Lower[name] \in DOMAIN content

TableOf(content, name) == content[Lower[name]]

-----------------------------------------------------------------------------
\* The positions of the records that a reader sees in a database with transactions
\* in these states.
Seen(states, reader, records) ==
  {i \in DOMAIN records : V!isVisible(states, records[i], reader)}

\* A statement on the tables of a database and the records that its first table is
\* read from: a scan of one table, or the join of the first two.
Run(content, states, reader, stmt, records) ==
  IF stmt.joins = << >> THEN Scan(stmt, records, Seen(states, reader, records))
  ELSE Join(stmt, records, TableOf(content, stmt.joins[1].right).records)

\* The names of the tables of a statement, whose change invalidates the result.
affectedTables(stmt) == {stmt.from} \cup {stmt.joins[i].right : i \in DOMAIN stmt.joins}

\* The answer of a statement that uses no cache.
Refused == [ok |-> FALSE, rows |-> << >>]

AnswerIn(content, states, reader, stmt) ==
  IF \E name \in affectedTables(stmt) : ~Exists(content, name) THEN Refused
  ELSE Run(content, states, reader, stmt, TableOf(content, stmt.from).records)

Answer(d, stmt) == AnswerIn(tables[d], States(d), currentTxn, stmt)

-----------------------------------------------------------------------------
\* The key has the name of the table, the WHERE clause, whether there is an ORDER
\* BY, and the limit.
CacheKey(stmt) ==
  [from |-> stmt.from, where |-> Text(stmt.where), ordered |-> stmt.orderBy # << >>,
   limit |-> IF stmt.limit > 0 THEN stmt.limit ELSE 0]

\* estimateMemorySize: a part for the result and one for each value.
ResultSize(result) ==
  1 + SumFunction([i \in DOMAIN result.rows |-> Len(result.rows[i])])

\* The records a statement on one table scans.  A table is looked up in the cache
\* by the name in the statement and loaded under the name it was created with.
ScannedFrom(d, stmt, cache) ==
  IF stmt.joins = << >> /\ isTableCached(cache, <<d, stmt.from>>)
  THEN cache.entries[<<d, stmt.from>>].records ELSE TableOf(tables[d], stmt.from).records

AfterLoad(d, stmt) ==
  LET table == TableOf(tables[d], stmt.from)
  IN  IF stmt.joins # << >> \/ isTableCached(cached, <<d, stmt.from>>) THEN {cached}
      ELSE loadTable(cached, <<d, table.name>>, table.records, now)

-----------------------------------------------------------------------------
\* Histories.  Entries of the query cache carry the statement and the database
\* they answer.  An entry is in doubt once a table it reads has changed in a way
\* that does not invalidate it: under another spelling of its name, or by a
\* statement that leaves the caches alone.
ReadsTable(entry, d, table) ==
  entry.db = d /\ table \in {Lower[name] : name \in entry.tables}

Doubt(newQueries, newTables) ==
  doubtful' = [queries |-> (doubtful.queries \cup newQueries) \cap EntryKeys(queries'),
               tables |-> (doubtful.tables \cup newTables) \cap CachedKeys(cached')]

\* Whole databases are in doubt.
DoubtAll(dbs) ==
  Doubt({k \in EntryKeys(queries) : queries.entries[k].db \in dbs},
        {k \in CachedKeys(cached) : k[1] \in dbs})

Statement == ops < MaxOps /\ ops' = ops + 1

CachesUnchanged == UNCHANGED <<queries, cached>>

-----------------------------------------------------------------------------
Rewritten == [stmt \in Selects |-> Rewrite(stmt)]

\* SELECT, answered from the query cache.
SelectCached(stmt) ==
  LET q == Rewritten[stmt]
      key == CacheKey(q)
  IN  /\ Statement
      /\ Hit(queries, key, now)
      /\ queries' = AfterGet(queries, key, now)
      /\ UNCHANGED <<database, currentTxn, txns, tables, cached, now, doubtful>>

\* SELECT of tables that do not exist.
SelectRefused(stmt) ==
  LET q == Rewritten[stmt]
      key == CacheKey(q)
  IN  /\ Statement
      /\ ~Hit(queries, key, now)
      /\ \E name \in affectedTables(q) : ~Exists(tables[database], name)
      /\ queries' = AfterGet(queries, key, now)
      /\ UNCHANGED <<database, currentTxn, txns, tables, cached, now>>
      /\ Doubt({}, {})

\* SELECT, executed and put into the query cache if it succeeds.
SelectExecuted(stmt) ==
  LET q == Rewritten[stmt]
      key == CacheKey(q)
      d == database
  IN  /\ Statement
      /\ ~Hit(queries, key, now)
      /\ \A name \in affectedTables(q) : Exists(tables[d], name)
      /\ cached' \in AfterLoad(d, q)
      /\ \E result \in {Run(tables[d], States(d), currentTxn, q, ScannedFrom(d, q, cached'))} :
           LET entry == [result |-> result, tables |-> affectedTables(q),
                         size |-> ResultSize(result), created |-> now, accessed |-> now,
                         by |-> stmt, db |-> d]
               missed == AfterGet(queries, key, now)
           IN  queries' \in (IF result.ok THEN AfterPut(missed, key, entry) ELSE {missed})
      /\ doubtful' = [queries |->
                         {k \in EntryKeys(queries') :
                            IF k = key /\ queries.enabled
                            THEN q.joins = << >> /\ <<d, q.from>> \in doubtful.tables
                            ELSE k \in doubtful.queries},
                       tables |->
                         {k \in doubtful.tables \cap CachedKeys(cached') :
                            cached'.entries[k] = cached.entries[k]}]
      /\ UNCHANGED <<database, currentTxn, txns, tables, now>>

-----------------------------------------------------------------------------
\* The transaction of a statement that writes (see Statements).
AutoCommit == currentTxn = V!INVALID_TXN_ID

TxnId == IF AutoCommit THEN Len(txns[database]) + 1 ELSE currentTxn

SessionActive == V!getTransactionState(States(database), currentTxn) = "ACTIVE"

CanBegin == AutoCommit => Len(txns[database]) < MaxTxns

\* A statement that succeeds commits a transaction of its own; in a session it
\* leaves undo records, if the session's transaction is known in this database.
\* The undo records of one statement, which differ in the position, are one here;
\* the value it holds is the old one, which an INSERT does not use.
WithUndo(txn, undo) == [state |-> txn.state, undo |-> Append(txn.undo, undo)]

Logged(log, undo) ==
  CASE AutoCommit -> Append(log, [state |-> "COMMITTED", undo |-> << >>])
    [] ~AutoCommit /\ SessionActive -> [log EXCEPT ![currentTxn] = WithUndo(log[currentTxn], undo)]
    [] ~AutoCommit /\ ~SessionActive -> log

AfterWrite(undo) == txns' = [txns EXCEPT ![database] = Logged(txns[database], undo)]

UndoRecord(op, name, at, old) == [op |-> op, table |-> Lower[name], at |-> at, old |-> old]

\* The caches forget the table under the name the statement has for it.
Invalidate(name) ==
  /\ queries' = WithoutTable(queries, name)
  /\ cached' = Invalidated(cached, <<database, name>>)

\* What else holds rows of the table is in doubt.
DoubtOtherSpellings(name) ==
  Doubt({k \in EntryKeys(queries) :
           /\ ReadsTable(queries.entries[k], database, Lower[name])
           /\ name \notin queries.entries[k].tables},
        {k \in CachedKeys(cached) : k[1] = database /\ k[2] # name /\ Lower[k[2]] = Lower[name]})

Here(name) == Exists(tables[database], name)

RecordsOf(name) == TableOf(tables[database], name).records

WithRecords(content, t, records) ==
  [content EXCEPT ![t] = [name |-> content[t].name, records |-> records]]

ChangeRecords(name, records) ==
  tables' = [tables EXCEPT ![database] = WithRecords(tables[database], Lower[name], records)]

NewRecord(v) == [row |-> <<v>>, createTxnId |-> TxnId, deleteTxnId |-> V!INVALID_TXN_ID]

Insert(name, v) ==
  /\ <<"INSERT", name, v>> \in Writes
  /\ Statement /\ Here(name) /\ CanBegin
  /\ Len(RecordsOf(name)) < MaxRecords
  /\ ChangeRecords(name, Append(RecordsOf(name), NewRecord(v)))
  /\ AfterWrite(UndoRecord("INSERT", name, {Len(RecordsOf(name)) + 1}, v))
  /\ Invalidate(name) /\ DoubtOtherSpellings(name)
  /\ UNCHANGED <<database, currentTxn, now>>

\* INSERT of two rows, of which the second breaks a constraint: the statement
\* returns at once, with its own transaction left active.
InsertRefused(name, v) ==
  /\ <<"INSERT", name, v>> \in Writes
  /\ Statement /\ Here(name) /\ CanBegin
  /\ Len(RecordsOf(name)) < MaxRecords
  /\ ChangeRecords(name, Append(RecordsOf(name), NewRecord(v)))
  /\ IF AutoCommit
     THEN txns' = [txns EXCEPT ![database] = Append(@, [state |-> "ACTIVE", undo |-> << >>])]
     ELSE AfterWrite(UndoRecord("INSERT", name, {Len(RecordsOf(name)) + 1}, v))
  /\ CachesUnchanged /\ DoubtAll({database})
  /\ UNCHANGED <<database, currentTxn, now>>

\* The records that UPDATE and DELETE of the rows with value v change.
Targets(name, v) ==
  {i \in DOMAIN RecordsOf(name) :
     /\ V!isVisible(States(database), RecordsOf(name)[i], currentTxn)
     /\ RecordsOf(name)[i].deleteTxnId = V!INVALID_TXN_ID
     /\ RecordsOf(name)[i].row = <<v>>}

Update(name, v, w) ==
  /\ <<"UPDATE", name, v>> \in Writes
  /\ Statement /\ Here(name) /\ CanBegin
  /\ v # w
  /\ ChangeRecords(name, [i \in DOMAIN RecordsOf(name) |->
       IF i \in Targets(name, v) THEN [RecordsOf(name)[i] EXCEPT !.row = <<w>>]
       ELSE RecordsOf(name)[i]])
  /\ AfterWrite(UndoRecord("UPDATE", name, Targets(name, v), v))
  /\ Invalidate(name) /\ DoubtOtherSpellings(name)
  /\ UNCHANGED <<database, currentTxn, now>>

Delete(name, v) ==
  /\ <<"DELETE", name, v>> \in Writes
  /\ Statement /\ Here(name) /\ CanBegin
  /\ ChangeRecords(name, [i \in DOMAIN RecordsOf(name) |->
       IF i \in Targets(name, v) THEN [RecordsOf(name)[i] EXCEPT !.deleteTxnId = TxnId]
       ELSE RecordsOf(name)[i]])
  /\ AfterWrite(UndoRecord("DELETE", name, Targets(name, v), v))
  /\ Invalidate(name) /\ DoubtOtherSpellings(name)
  /\ UNCHANGED <<database, currentTxn, now>>

-----------------------------------------------------------------------------
Begin ==
  /\ Statement /\ ~SessionActive
  /\ Len(txns[database]) < MaxTxns
  /\ txns' = [txns EXCEPT ![database] = Append(@, [state |-> "ACTIVE", undo |-> << >>])]
  /\ currentTxn' = Len(txns[database]) + 1
  /\ CachesUnchanged
  /\ IF AutoCommit THEN UNCHANGED doubtful ELSE DoubtAll({database})
  /\ UNCHANGED <<database, tables, now>>

Ended(log, state) ==
  [log EXCEPT ![currentTxn] = [state |-> state, undo |-> log[currentTxn].undo]]

Commit ==
  /\ Statement /\ SessionActive
  /\ txns' = [txns EXCEPT ![database] = Ended(txns[database], "COMMITTED")]
  /\ currentTxn' = V!INVALID_TXN_ID
  /\ CachesUnchanged
  /\ UNCHANGED <<database, tables, now, doubtful>>

\* What an undo record does to a record of its statement.
Restored(undo, record) ==
  LET live == record.deleteTxnId = V!INVALID_TXN_ID
  IN  CASE undo.op = "INSERT" /\ live -> [record EXCEPT !.deleteTxnId = currentTxn]
        [] undo.op = "UPDATE" /\ live -> [record EXCEPT !.row = <<undo.old>>]
        [] undo.op = "DELETE" -> [record EXCEPT !.deleteTxnId = V!INVALID_TXN_ID]
        [] OTHER -> record

UndoOne(content, undo) ==
  [t \in DOMAIN content |->
     IF t # undo.table THEN content[t]
     ELSE [name |-> content[t].name,
           records |-> [i \in DOMAIN content[t].records |->
                          IF i \in undo.at THEN Restored(undo, content[t].records[i])
                          ELSE content[t].records[i]]]]

\* Last change first.
Undone(content, undo) ==
  LET after[n \in 0..Len(undo)] ==
        IF n = 0 THEN content ELSE UndoOne(after[n - 1], undo[Len(undo) + 1 - n])
  IN  after[Len(undo)]

\* ROLLBACK takes the changes back and leaves the caches alone.
Rollback ==
  /\ Statement /\ SessionActive
  /\ tables' = [tables EXCEPT ![database] =
       Undone(tables[database], txns[database][currentTxn].undo)]
  /\ txns' = [txns EXCEPT ![database] = Ended(txns[database], "ABORTED")]
  /\ currentTxn' = V!INVALID_TXN_ID
  /\ CachesUnchanged /\ DoubtAll({database})
  /\ UNCHANGED <<database, now>>

\* USE keeps the id of the current transaction, which may mean another one there.
Use(d) ==
  /\ Statement /\ d # database
  /\ database' = d
  /\ CachesUnchanged
  /\ IF AutoCommit THEN UNCHANGED doubtful ELSE DoubtAll({database, d})
  /\ UNCHANGED <<currentTxn, txns, tables, now>>

\* Undo records name the pages of their table: no table that is created later is
\* reached from those of a dropped one.
Detached(txn, table) ==
  [state |-> txn.state,
   undo |-> [i \in DOMAIN txn.undo |->
               IF txn.undo[i].table = table THEN [txn.undo[i] EXCEPT !.at = {}] ELSE txn.undo[i]]]

Without(content, t) == Restrict(content, DOMAIN content \ {t})

DropTable(name) ==
  /\ <<"DROP", name>> \in Writes
  /\ Statement /\ Here(name)
  /\ tables' = [tables EXCEPT ![database] = Without(tables[database], Lower[name])]
  /\ txns' = [txns EXCEPT ![database] = [i \in DOMAIN @ |-> Detached(@[i], Lower[name])]]
  /\ Invalidate(name) /\ DoubtOtherSpellings(name)
  /\ UNCHANGED <<database, currentTxn, now>>

With(content, name) ==
  [t \in DOMAIN content \cup {Lower[name]} |->
     IF t = Lower[name] THEN [name |-> name, records |-> << >>] ELSE content[t]]

\* The caches do not learn of a new table.
CreateTable(name) ==
  /\ <<"CREATE", name>> \in Writes
  /\ Statement /\ ~Here(name)
  /\ tables' = [tables EXCEPT ![database] = With(tables[database], name)]
  /\ CachesUnchanged
  /\ UNCHANGED <<database, currentTxn, txns, now, doubtful>>

ClearCaches ==
  /\ Statement
  /\ queries' = Cleared(queries)
  /\ cached' = NoTables
  /\ Doubt({}, {})
  /\ UNCHANGED <<database, currentTxn, txns, tables, now>>

SetQueryCacheEnabled(enabled) ==
  /\ Statement
  /\ queries' = [queries EXCEPT !.enabled = enabled]
  /\ UNCHANGED <<database, currentTxn, txns, tables, cached, now, doubtful>>

\* Time is not counted while nothing is cached.
Tick ==
  /\ now < MaxTime
  /\ EntryKeys(queries) # {} \/ CachedKeys(cached) # {}
  /\ now' = now + 1
  /\ UNCHANGED <<database, currentTxn, txns, tables, queries, cached, ops, doubtful>>

\* Every database starts with its tables, one committed row in each.
Init ==
  /\ database = FirstDatabase
  /\ currentTxn = V!INVALID_TXN_ID
  /\ txns = [d \in Databases |-> <<[state |-> "COMMITTED", undo |-> << >>]>>]
  /\ tables = [d \in Databases |->
       [t \in {Lower[name] : name \in TableNames} |->
          [name |-> t, records |->
             <<[row |-> <<CHOOSE v \in RowValues : TRUE>>, createTxnId |-> 1,
                deleteTxnId |-> V!INVALID_TXN_ID]>>]]]
  /\ queries = NoQueries
  /\ cached = NoTables
  /\ now = 0
  /\ ops = 0
  /\ doubtful = [queries |-> {}, tables |-> {}]

Next ==
  \/ \E stmt \in Selects : SelectCached(stmt)
  \/ \E stmt \in Selects : SelectRefused(stmt)
  \/ \E stmt \in Selects : SelectExecuted(stmt)
  \/ \E name \in TableNames, v \in RowValues : Insert(name, v)
  \/ \E name \in TableNames, v \in RowValues : InsertRefused(name, v)
  \/ \E name \in TableNames, v, w \in RowValues : Update(name, v, w)
  \/ \E name \in TableNames, v \in RowValues : Delete(name, v)
  \/ \E name \in TableNames : DropTable(name)
  \/ \E name \in TableNames : CreateTable(name)
  \/ \E d \in Databases : Use(d)
  \/ \E enabled \in BOOLEAN : SetQueryCacheEnabled(enabled)
  \/ Begin
  \/ Commit
  \/ Rollback
  \/ ClearCaches
  \/ Tick

Spec == Init /\ [][Next]_vars

-----------------------------------------------------------------------------
\* An entry of the query cache holds what its statement would return now, as long
\* as its tables have only been changed by statements that succeeded and named
\* them as the entry does: INSERT, UPDATE, DELETE and DROP TABLE invalidate what
\* they change (executor.cpp), and rewriting, caching of tables and eviction do
\* not alter an answer.
QueryEntriesAreFresh ==
  \A k \in EntryKeys(queries) \ doubtful.queries :
    LET e == queries.entries[k]
    IN  e.db = database => e.result = Answer(e.db, Rewritten[e.by])

\* An entry of the table cache is the table as it is, under the same conditions.
TableEntriesAreFresh ==
  \A k \in CachedKeys(cached) \ doubtful.tables :
    /\ Exists(tables[k[1]], k[2])
    /\ cached.entries[k].records = TableOf(tables[k[1]], k[2]).records

\* The query cache counts its memory exactly and stays within its limits, however
\* entries are replaced, evicted, invalidated or expire (query_cache.cpp).
QueryMemoryIsBounded ==
  /\ queries.memory = SizeOf(queries, EntryKeys(queries))
  /\ queries.memory <= maxMemory
  /\ Cardinality(EntryKeys(queries)) <= maxEntries

\* Rewriting a statement on one table, without a full-text condition, does not
\* change its answer, unless the statement as written fails.
RewriteKeepsAnswers ==
  \A stmt \in Selects :
    (stmt.joins = << >> /\ stmt.where.kind # "match" /\ Answer(database, stmt).ok)
      => Answer(database, Rewritten[stmt]) = Answer(database, stmt)

=============================================================================
