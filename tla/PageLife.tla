------------------------------ MODULE PageLife ------------------------------
(***************************************************************************)
(* The life of one table page: what INSERT, UPDATE, DELETE, ROLLBACK and   *)
(* VACUUM do to it, in any order.  A method that returns false leaves the  *)
(* page as it is and has no action.                                        *)
(***************************************************************************)
EXTENDS TablePage

CONSTANTS
  TxnIds,    \* transactions that insert and delete
  MaxSlots   \* bound: slots that are ever filled

ASSUME LifeAssumption == TxnIds \subseteq Nat \ {INVALID_TXN_ID} /\ MaxSlots \in Nat

VARIABLES
  page,      \* the page
  newRowId   \* TableDef::nextRowId

pageVars == <<page, newRowId>>

PageInit == page = EmptyPage /\ newRowId = 1

\* insertRecord, after nextRowId was increased by the caller.
InsertRecord(v, txnId) ==
  /\ slotCount(page) < MaxSlots
  /\ CanInsert(page, v)
  /\ page' = Inserted(page, newRowId, v, txnId)
  /\ newRowId' = newRowId + 1

\* deleteRecord, called by DELETE, by UPDATE when a row grows, and by ROLLBACK.
DeleteRecord(i, txnId) ==
  /\ IsLive(page, i)
  /\ page' = Deleted(page, i, txnId)
  /\ UNCHANGED newRowId

\* updateRecord, called by UPDATE and by ROLLBACK.
UpdateRecord(i, v) ==
  /\ CanUpdate(page, i, v)
  /\ page' = Updated(page, i, v)
  /\ UNCHANGED newRowId

\* ROLLBACK clears deleteTxnId through getRecordHeader.
UndoDelete(i) ==
  /\ HasHeader(page, i)
  /\ page' = Undeleted(page, i)
  /\ UNCHANGED newRowId

\* cleanupTable empties slots of deleted records; which ones depends on the
\* transactions (see Statements).
Cleanup(S) ==
  /\ S # {}
  /\ \A i \in S : IsUsed(page, i) /\ page.slots[i].record.deleteTxnId # INVALID_TXN_ID
  /\ page' = Emptied(page, S)
  /\ UNCHANGED newRowId

PageNext ==
  \/ \E v \in Values, t \in TxnIds : InsertRecord(v, t)
  \/ \E i \in SlotIndexes(page), t \in TxnIds : DeleteRecord(i, t)
  \/ \E i \in SlotIndexes(page), v \in Values : UpdateRecord(i, v)
  \/ \E i \in SlotIndexes(page) : UndoDelete(i)
  \/ \E S \in SUBSET SlotIndexes(page) : Cleanup(S)

PageSpec == PageInit /\ [][PageNext]_pageVars

-----------------------------------------------------------------------------
\* Types: the fields of page header, slots and records are in their range.
PageTypeOK ==
  /\ page \in Page
  /\ page.freeSpaceOffset <= PAGE_SIZE
  /\ page.freeSpaceSize <= PAGE_SIZE
  /\ newRowId \in Nat \ {0}

\* Records lie inside the page, behind the slot array and not below
\* freeSpaceOffset, and no two of them share a byte: the 16-bit arithmetic of
\* insertRecord and the in-place updates never let one record overwrite another
\* or the slots.
RecordsFit ==
  /\ page.freeSpaceOffset >= PageHeaderSize + slotCount(page) * SlotSize
  /\ \A i \in SlotIndexes(page) : IsUsed(page, i) =>
       /\ page.slots[i].offset >= page.freeSpaceOffset
       /\ page.slots[i].offset + page.slots[i].length <= PAGE_SIZE
  /\ \A i, j \in SlotIndexes(page) :
       i # j /\ IsUsed(page, i) /\ IsUsed(page, j) =>
         \/ page.slots[i].offset + page.slots[i].length <= page.slots[j].offset
         \/ page.slots[j].offset + page.slots[j].length <= page.slots[i].offset

\* A slot that was given to a row never refers to another one: undo records and
\* the row id index keep (page, slot) pairs and use them much later.
SlotsKeepTheirRow ==
  [][\A i \in SlotIndexes(page) :
       /\ i \in SlotIndexes(page)'
       /\ IsUsed(page, i)' =>
            IsUsed(page, i) /\ page.slots[i].record.rowId = page'.slots[i].record.rowId]_pageVars

=============================================================================
