----------------------------- MODULE Statements -----------------------------
(***************************************************************************)
(* INSERT, UPDATE, DELETE, VACUUM, BEGIN, COMMIT and ROLLBACK on one table *)
(* (executor.cpp), over its pages, the transactions and the undo log, with *)
(* crashes.  A statement runs to its end before the next one starts: the   *)
(* server has one thread, and one current transaction for all connections. *)
(*                                                                         *)
(* The pages form a chain, first to last; page k is pages[k].  A page that *)
(* could not be linked is not in it and can never be reached.  Indexes,    *)
(* caches and the log are left out.                                        *)
(***************************************************************************)
EXTENDS Visibility, FiniteSetsExt

CONSTANTS
  Allowed,    \* which of "vacuum", "crash" and "io" (errors) may happen
  MaxRows,    \* bound: rows of one INSERT
  MaxTxns,    \* bound: transactions in the table
  MaxPages,   \* bound: pages of the table
  MaxUndo,    \* bound: records in an undo log
  MaxRowId,   \* bound: row ids given out by INSERT, and by UPDATE
  MaxCrashes  \* bound: crashes

ASSUME StatementsAssumption ==
  /\ Allowed \subseteq {"vacuum", "crash", "io"}
  /\ {MaxRows, MaxTxns, MaxPages, MaxUndo, MaxRowId, MaxCrashes} \subseteq Nat

VARIABLES
  txns,         \* transactions_ of the transaction manager
  currentTxn,   \* DatabaseManager::m_currentTransactionId
  pages,        \* the pages of the table, as the buffer pool returns them
  disk,         \* the pages and the catalog's nextRowId at their last flush
  undo,         \* undoLog of the current transaction
  nextRowId,    \* TableDef::nextRowId
  updateRowId,  \* the static nextRowId of executeUpdate, counted from 0
  crashes,      \* history: crashes so far
  expected,     \* history: the rows that the next statement should see
  atBegin       \* history: the rows at BEGIN

vars == <<txns, currentTxn, pages, disk, undo, nextRowId, updateRowId, crashes,
          expected, atBegin>>

FirstUpdateRowId == 1000000

\* UPDATE and DELETE log the old values.
UndoRecord ==
  [opType : {"INSERT"}, page : Nat, slot : Nat, old : {NoRecord}]
  \cup [opType : {"UPDATE", "DELETE"}, page : Nat, slot : Nat, old : Values]

NoFault == [unreadable |-> {}, newPage |-> FALSE, link |-> FALSE, commit |-> FALSE]

\* What fails while a statement runs, at most one thing of these: the pages that
\* cannot be read, newPage, the walk to the last page of the chain, the COMMIT
\* record.
Faults ==
  IF "io" \in Allowed
  THEN {[NoFault EXCEPT !.unreadable = P] : P \in SUBSET (1..MaxPages)}
       \cup {[NoFault EXCEPT !.newPage = TRUE], [NoFault EXCEPT !.link = TRUE],
             [NoFault EXCEPT !.commit = TRUE]}
  ELSE {NoFault}

-----------------------------------------------------------------------------
\* The transaction of a statement: the current one, or one of its own
\* (auto-commit).
AutoCommit == currentTxn = INVALID_TXN_ID

TxnId == IF AutoCommit THEN Len(txns) + 1 ELSE currentTxn

Begun == IF AutoCommit THEN Append(txns, "ACTIVE") ELSE txns

CanBegin == AutoCommit => Len(txns) < MaxTxns

\* commitTransaction and abortTransaction refuse a finished transaction.
Finished(table, txnId, state) ==
  IF table[txnId] = "ACTIVE" THEN [table EXCEPT ![txnId] = state] ELSE table

\* The state that addUndoRecord, COMMIT and ROLLBACK require, and BEGIN refuses.
SessionActive == getTransactionState(txns, currentTxn) = "ACTIVE"

\* addUndoRecord, called in a session transaction only.
AddUndo(log, record) ==
  IF SessionActive THEN Append(log, record) ELSE log

\* The rows that a reader with the given current transaction sees.
Places(chain) == UNION {{<<p, i>> : i \in SlotIndexes(chain[p])} : p \in DOMAIN chain}

RecordAt(chain, at) == chain[at[1]].slots[at[2]].record

Rows(table, chain, txnId) ==
  {[at |-> at, value |-> RecordAt(chain, at).value] :
     at \in {at \in Places(chain) : /\ IsListed(chain[at[1]], at[2])
                                   /\ isVisible(table, RecordAt(chain, at), txnId)}}

\* How often such a reader sees each value.
Counts(table, chain, txnId) ==
  [v \in Values |-> Cardinality({r \in Rows(table, chain, txnId) : r.value = v})]

\* The table that SQL promises, as the number of rows of each value.
NoRows == [v \in Values |-> 0]

WithInserted(bag, rows) ==
  [v \in Values |-> bag[v] + Cardinality({k \in DOMAIN rows : rows[k] = v})]

WithDeleted(bag, where) == [v \in Values |-> IF v \in where THEN 0 ELSE bag[v]]

WithUpdated(bag, where, v) ==
  [WithDeleted(bag, where) EXCEPT ![v] = @ + MapThenSumSet(LAMBDA w : bag[w], where)]

\* A statement that meets an error while it reads or writes promises nothing.
Expect(bag, faults) ==
  expected' = IF faults = NoFault THEN bag ELSE Counts(txns', pages', currentTxn')

\* What a statement has done so far.
StartOf == [pages |-> pages, undo |-> undo, rowId |-> nextRowId,
            updateRowId |-> updateRowId, failed |-> FALSE]

-----------------------------------------------------------------------------
Init ==
  /\ txns = << >>
  /\ currentTxn = INVALID_TXN_ID
  /\ pages = <<EmptyPage>>
  /\ disk = [pages |-> <<EmptyPage>>, nextRowId |-> 1]
  /\ undo = << >>
  /\ nextRowId = 1
  /\ updateRowId = 0
  /\ crashes = 0
  /\ expected = NoRows
  /\ atBegin = NoRows

\* The pages that end the search for room: the ones that take the record and
\* the ones that cannot be read.
Takes(page, v) == hasEnoughSpace(page, calculateRecordSize(v)) /\ CanInsert(page, v)

Stops(chain, v, faults) ==
  {p \in DOMAIN chain : p \in faults.unreadable \/ Takes(chain[p], v)}

\* One row of INSERT.  Every page that promises room and then refuses the record
\* costs a row id.  A row that does not fit on a new page leaves the page there.
InsertRow(s, v, faults) ==
  LET stops == Stops(s.pages, v, faults)
      passed == {q \in DOMAIN s.pages : \A p \in stops : q < p}
      rowId == s.rowId + Cardinality({q \in passed :
                           hasEnoughSpace(s.pages[q], calculateRecordSize(v))})
      undone(p, i) == AddUndo(s.undo, [opType |-> "INSERT", page |-> p, slot |-> i,
                                       old |-> NoRecord])
      fits == CanInsert(EmptyPage, v)
      new == IF fits THEN Inserted(EmptyPage, rowId, v, TxnId) ELSE EmptyPage
      newId == IF faults.link THEN INVALID_PAGE_ID ELSE Len(s.pages) + 1
  IN  CASE s.failed -> s
        [] ~s.failed /\ stops # {} ->
             LET p == Min(stops) IN
             IF p \in faults.unreadable THEN [s EXCEPT !.failed = TRUE]
             ELSE [s EXCEPT !.pages[p] = Inserted(s.pages[p], rowId, v, TxnId),
                            !.undo = undone(p, slotCount(s.pages[p]) + 1),
                            !.rowId = rowId + 1]
        [] ~s.failed /\ stops = {} ->
             IF faults.newPage THEN [s EXCEPT !.failed = TRUE]
             ELSE [s EXCEPT !.pages = IF faults.link THEN @ ELSE Append(@, new),
                            !.undo = IF fits THEN undone(newId, 1) ELSE @,
                            !.rowId = rowId + 1,
                            !.failed = ~fits]

InsertRows(rows, faults) ==
  LET after[k \in 0 .. Len(rows)] ==
        IF k = 0 THEN StartOf ELSE InsertRow(after[k - 1], rows[k], faults)
  IN  after[Len(rows)]

\* The bounds on what a statement leaves.
Bounded(s) ==
  /\ Len(s.pages) <= MaxPages /\ Len(s.undo) <= MaxUndo
  /\ s.rowId <= MaxRowId + 1 /\ s.updateRowId <= MaxRowId

\* The end of a statement: auto-commit, save the catalog, flush.  When the COMMIT
\* record fails the transaction is committed all the same (abortTransaction
\* refuses it), and the statement returns an error before it saves and flushes.
EndStatement(s, rowId, bag, faults) ==
  /\ pages' = s.pages
  /\ undo' = s.undo
  /\ nextRowId' = rowId
  /\ updateRowId' = s.updateRowId
  /\ txns' = IF AutoCommit THEN Finished(Begun, TxnId, "COMMITTED") ELSE txns
  /\ disk' = IF AutoCommit /\ faults.commit THEN disk
             ELSE [pages |-> s.pages, nextRowId |-> rowId]
  /\ UNCHANGED <<currentTxn, crashes, atBegin>>
  /\ Expect(bag, faults)

\* INSERT of all rows.
Insert(rows, faults) ==
  LET s == InsertRows(rows, faults) IN
  /\ CanBegin /\ Bounded(s)
  /\ ~s.failed
  /\ EndStatement(s, s.rowId, WithInserted(expected, rows), faults)

\* A row cannot be stored: the transaction is aborted, also that of a session,
\* and nothing is undone.
InsertAborted(rows, faults) ==
  LET s == InsertRows(rows, faults) IN
  /\ CanBegin /\ Bounded(s)
  /\ s.failed
  /\ pages' = s.pages
  /\ undo' = s.undo
  /\ txns' = Finished(Begun, TxnId, "ABORTED")
  /\ UNCHANGED <<currentTxn, disk, nextRowId, updateRowId, crashes, atBegin>>
  /\ Expect(IF AutoCommit THEN expected ELSE atBegin, faults)

\* A later row cannot be evaluated or breaks a constraint: INSERT returns at once
\* and keeps what it did to the pages, but not the row ids it used.
InsertRefused(rows, faults) ==
  LET s == InsertRows(rows, faults) IN
  /\ CanBegin /\ Bounded(s)
  /\ ~s.failed
  /\ pages' = s.pages
  /\ undo' = s.undo
  /\ txns' = Begun
  /\ UNCHANGED <<currentTxn, disk, nextRowId, updateRowId, crashes, atBegin>>
  /\ Expect(IF AutoCommit THEN expected ELSE WithInserted(expected, rows), faults)

-----------------------------------------------------------------------------
\* UPDATE and DELETE first collect the rows they see and that satisfy the WHERE
\* clause, up to the first page that cannot be read, and remember the position of
\* a row in the list that getAllRecords returns as its slot.
PageCandidates(p, where) ==
  LET listed == getAllRecords(pages[p])
      record(i) == pages[p].slots[listed[i]].record
      found(i) == isVisible(Begun, record(i), currentTxn) /\ record(i).value \in where
      upTo[i \in 0 .. Len(listed)] ==
        IF i = 0 THEN << >>
        ELSE IF found(i) THEN Append(upTo[i - 1], [page |-> p, slot |-> i, old |-> record(i).value])
        ELSE upTo[i - 1]
  IN  upTo[Len(listed)]

Scanned(faults) == {p \in DOMAIN pages : 1..p \cap faults.unreadable = {}}

Candidates(where, faults) ==
  LET last == Cardinality(Scanned(faults))
      upTo[p \in 0 .. last] ==
        IF p = 0 THEN << >> ELSE upTo[p - 1] \o PageCandidates(p, where)
  IN  upTo[last]

\* One row of UPDATE: in place, or else the old version is deleted and a new one
\* inserted on a page that has room, without an undo record.
UpdateRow(s, c, v, faults) ==
  LET page == s.pages[c.page]
      marked == [s EXCEPT !.pages[c.page] = Deleted(page, c.slot, TxnId),
                          !.updateRowId = @ + 1]
      stops == Stops(marked.pages, v, faults)
  IN  CASE CanUpdate(page, c.slot, v) ->
             [s EXCEPT !.pages[c.page] = Updated(page, c.slot, v),
                       !.undo = AddUndo(@, [opType |-> "UPDATE", page |-> c.page,
                                            slot |-> c.slot, old |-> c.old])]
        [] ~CanUpdate(page, c.slot, v) /\ IsLive(page, c.slot) ->
             IF stops = {} \/ Min(stops) \in faults.unreadable THEN marked
             ELSE [marked EXCEPT !.pages[Min(stops)] =
                     Inserted(marked.pages[Min(stops)], FirstUpdateRowId + s.updateRowId, v, TxnId)]
        [] OTHER -> s

UpdateRows(list, v, faults) ==
  LET after[k \in 0 .. Len(list)] ==
        IF k = 0 THEN StartOf ELSE UpdateRow(after[k - 1], list[k], v, faults)
  IN  after[Len(list)]

Update(where, v, faults) ==
  LET s == UpdateRows(Candidates(where, faults), v, faults)
  IN  CanBegin /\ Bounded(s) /\ EndStatement(s, nextRowId, WithUpdated(expected, where, v), faults)

DeleteRow(s, c) ==
  IF IsLive(s.pages[c.page], c.slot)
  THEN [s EXCEPT !.pages[c.page] = Deleted(s.pages[c.page], c.slot, TxnId),
                 !.undo = AddUndo(@, [opType |-> "DELETE", page |-> c.page,
                                      slot |-> c.slot, old |-> c.old])]
  ELSE s

DeleteRows(list) ==
  LET after[k \in 0 .. Len(list)] ==
        IF k = 0 THEN StartOf ELSE DeleteRow(after[k - 1], list[k])
  IN  after[Len(list)]

Delete(where, faults) ==
  LET s == DeleteRows(Candidates(where, faults))
  IN  CanBegin /\ Bounded(s) /\ EndStatement(s, nextRowId, WithDeleted(expected, where), faults)

\* An expression of UPDATE or DELETE cannot be evaluated for a row: the statement
\* returns and leaves its auto-commit transaction as it is.
ScanError ==
  /\ AutoCommit /\ CanBegin
  /\ Rows(Begun, pages, currentTxn) # {}
  /\ txns' = Begun
  /\ UNCHANGED <<currentTxn, pages, disk, undo, nextRowId, updateRowId, crashes, expected, atBegin>>

\* cleanupTable and the flush of executeVacuum.
Vacuum(faults) ==
  /\ "vacuum" \in Allowed
  /\ pages' = [p \in DOMAIN pages |->
       IF p \in Scanned(faults)
       THEN Emptied(pages[p], {i \in SlotIndexes(pages[p]) :
              IsUsed(pages[p], i) /\ canDelete(txns, pages[p].slots[i].record)})
       ELSE pages[p]]
  /\ disk' = [disk EXCEPT !.pages = pages']
  /\ UNCHANGED <<txns, currentTxn, undo, nextRowId, updateRowId, crashes, expected, atBegin>>

-----------------------------------------------------------------------------
\* Mutant: the session remembers the id that the next transaction will have.
Begin_NextId ==
  /\ ~SessionActive
  /\ Len(txns) < MaxTxns
  /\ txns' = Append(txns, "ACTIVE")
  /\ currentTxn' = Len(txns') + 1
  /\ undo' = << >>
  /\ atBegin' = Counts(txns, pages, INVALID_TXN_ID)
  /\ UNCHANGED <<pages, disk, nextRowId, updateRowId, crashes, expected>>

\* BEGIN opens the transaction of all the connections.
Begin ==
  /\ ~SessionActive
  /\ Len(txns) < MaxTxns
  /\ txns' = Append(txns, "ACTIVE")
  /\ currentTxn' = Len(txns) + 1
  /\ undo' = << >>
  /\ atBegin' = Counts(txns, pages, INVALID_TXN_ID)
  /\ UNCHANGED <<pages, disk, nextRowId, updateRowId, crashes, expected>>

NoSession == currentTxn' = INVALID_TXN_ID /\ undo' = << >> /\ atBegin' = NoRows

\* When the COMMIT record fails the transaction stays the current one.
Commit(faults) ==
  /\ SessionActive
  /\ txns' = Finished(txns, currentTxn, "COMMITTED")
  /\ IF faults.commit THEN UNCHANGED <<currentTxn, undo, atBegin>> ELSE NoSession
  /\ UNCHANGED <<pages, disk, nextRowId, updateRowId, crashes, expected>>

\* One undo record; what cannot be undone is skipped.
UndoOne(chain, u, faults) ==
  LET readable == u.page \in DOMAIN chain \ faults.unreadable
      page == chain[u.page]
  IN  CASE readable /\ u.opType = "INSERT" /\ IsLive(page, u.slot) ->
             [chain EXCEPT ![u.page] = Deleted(page, u.slot, currentTxn)]
        [] readable /\ u.opType = "UPDATE" /\ CanUpdate(page, u.slot, u.old) ->
             [chain EXCEPT ![u.page] = Updated(page, u.slot, u.old)]
        [] readable /\ u.opType = "DELETE" /\ HasHeader(page, u.slot) ->
             [chain EXCEPT ![u.page] = Undeleted(page, u.slot)]
        [] OTHER -> chain

\* Mutant: the undo records are applied in the order in which they were written.
Undone_InOrder(faults) ==
  LET after[k \in 0 .. Len(undo)] ==
        IF k = 0 THEN pages ELSE UndoOne(after[k - 1], undo[k], faults)
  IN  after[Len(undo)]

\* The last one comes first.
Undone(faults) ==
  LET after[k \in 0 .. Len(undo)] ==
        IF k = 0 THEN pages ELSE UndoOne(after[k - 1], undo[Len(undo) + 1 - k], faults)
  IN  after[Len(undo)]

\* Mutant: ROLLBACK does not look at the state of the current transaction.
Rollback_AnyState(faults) ==
  /\ ~AutoCommit
  /\ pages' = Undone(faults)
  /\ disk' = [disk EXCEPT !.pages = pages']
  /\ txns' = Finished(txns, currentTxn, "ABORTED")
  /\ NoSession
  /\ UNCHANGED <<nextRowId, updateRowId, crashes>>
  /\ Expect(atBegin, faults)

\* ROLLBACK undoes the transaction in memory, flushes and aborts it.
Rollback(faults) ==
  /\ SessionActive
  /\ pages' = Undone(faults)
  /\ disk' = [disk EXCEPT !.pages = pages']
  /\ txns' = Finished(txns, currentTxn, "ABORTED")
  /\ NoSession
  /\ UNCHANGED <<nextRowId, updateRowId, crashes>>
  /\ Expect(atBegin, faults)

\* A crash and the start that follows it.  Each page is as last flushed or, if the
\* buffer pool has written it since, as in memory; a new page that was linked and
\* not written reads as zeros.  The table of transactions starts empty and ids
\* from 1 again; nothing is redone or undone.
Crash(written) ==
  /\ "crash" \in Allowed /\ crashes < MaxCrashes
  /\ LET flushed == Len(disk.pages)
         linked == {p \in DOMAIN pages : flushed..(p - 1) \subseteq written}
     IN  pages' = [p \in 1..Cardinality(linked) |->
                     IF p \in written THEN pages[p]
                     ELSE IF p <= flushed THEN disk.pages[p] ELSE ZeroPage]
  /\ disk' = [disk EXCEPT !.pages = pages']
  /\ nextRowId' = disk.nextRowId
  /\ updateRowId' = 0
  /\ txns' = << >>
  /\ crashes' = crashes + 1
  /\ NoSession
  /\ expected' = IF SessionActive THEN atBegin ELSE expected

RowLists(min, max) == UNION {[1..n -> Values] : n \in min..max}

Wheres == (SUBSET Values) \ {{}}

Next ==
  \/ \E f \in Faults, rows \in RowLists(1, MaxRows) : Insert(rows, f)
  \/ \E f \in Faults, rows \in RowLists(1, MaxRows) : InsertAborted(rows, f)
  \/ \E f \in Faults, rows \in RowLists(0, MaxRows - 1) : InsertRefused(rows, f)
  \/ \E f \in Faults, where \in Wheres, v \in Values : Update(where, v, f)
  \/ \E f \in Faults, where \in Wheres : Delete(where, f)
  \/ \E f \in Faults : Vacuum(f)
  \/ \E f \in Faults : Commit(f)
  \/ \E f \in Faults : Rollback(f)
  \/ ScanError
  \/ Begin
  \/ \E written \in SUBSET DOMAIN pages : Crash(written)

Spec == Init /\ [][Next]_vars

-----------------------------------------------------------------------------
\* Types: the transactions, the chain of pages, the disk and the undo log.
TypeOK ==
  /\ txns \in Seq(TransactionStates)
  /\ currentTxn \in DOMAIN txns \cup {INVALID_TXN_ID}
  /\ pages \in Seq(Page) /\ disk.pages \in Seq(Page)
  /\ Len(disk.pages) <= Len(pages)
  /\ undo \in Seq(UndoRecord)
  /\ {nextRowId, disk.nextRowId, updateRowId, crashes} \subseteq Nat

\* Every statement sees the rows that the statements before it promise: INSERT
\* adds its rows, UPDATE changes the ones that satisfy its WHERE clause, DELETE
\* removes them, an auto-commit INSERT that fails adds nothing, and ROLLBACK
\* takes back what was done since BEGIN.  (In a session's transaction a refused
\* INSERT keeps the rows before the refused one.)
SeesWhatIsPromised == Counts(txns, pages, currentTxn) = expected

\* ROLLBACK restores the rows that there were before BEGIN, whatever the
\* transaction did to them and however often.
RollbackRestores ==
  [][Rollback(NoFault) => Counts(txns, pages, INVALID_TXN_ID)' = atBegin]_vars

\* The record in a slot was deleted for good.
Gone(at) ==
  \/ ~IsUsed(pages[at[1]], at[2])
  \/ getTransactionState(txns, RecordAt(pages, at).deleteTxnId) = "COMMITTED"

\* A row whose deletion has committed stays gone while the server runs: neither
\* ROLLBACK, which clears deleteTxnId, nor an UPDATE brings it back.
DeletedStaysDeleted ==
  [][crashes' = crashes => \A at \in Places(pages) : Gone(at) => Gone(at)']_vars

\* VACUUM takes no row from any transaction, running or yet to come: what it
\* removes nobody could see.
VacuumKeepsVisible ==
  [][\A f \in Faults : Vacuum(f) =>
       \A t \in 0..(Len(txns) + 1) : Rows(txns, pages, t)' = Rows(txns, pages, t)]_vars

=============================================================================
