----------------------------- MODULE TablePage -----------------------------
(***************************************************************************)
(* Slotted table pages (src/src/storage/table_page.cpp) as values, and the *)
(* operations on them.  The sizes are those of the build; what the code    *)
(* stores in a uint16_t wraps around.                                      *)
(*                                                                         *)
(* The fields of a row are abstracted to a value that knows the size of    *)
(* its serialised record and has a tag to tell rows apart.  A record is    *)
(* kept with its slot instead of in an array of bytes: PageLife shows that *)
(* the bytes of two slots never overlap.  Slots are numbered from 1.       *)
(***************************************************************************)
EXTENDS Integers, Sequences

CONSTANTS
  Values,    \* rows, as records with the fields size and tag
  NoRecord   \* what a slot emptied by VACUUM refers to

PAGE_SIZE == 8192
PageHeaderSize == 32
SlotSize == 4
RecordHeaderSize == 26

UInt16(n) == n % 65536

\* A record starts with its header.  Rows whose size is cut by the conversion
\* to 16 bits to less than a header are left out.
ASSUME ValuesAssumption ==
  \A v \in Values : v.size \in Nat /\ UInt16(v.size) >= RecordHeaderSize

-----------------------------------------------------------------------------
INVALID_TXN_ID == 0
INVALID_PAGE_ID == 0

Record == [rowId : Nat, createTxnId : Nat, deleteTxnId : Nat, value : Values]

Slot == [offset : Nat, length : Nat, record : Record \cup {NoRecord}]

Page == [slots : Seq(Slot), freeSpaceOffset : Nat, freeSpaceSize : Nat,
         nextPageId : Nat]

\* init and initialize: records grow from the end of the page downwards.
EmptyPage == [slots |-> << >>, freeSpaceOffset |-> PAGE_SIZE,
              freeSpaceSize |-> PAGE_SIZE - PageHeaderSize,
              nextPageId |-> INVALID_PAGE_ID]

\* A page the file was extended by and that was never written: all bytes are zero.
ZeroPage == [slots |-> << >>, freeSpaceOffset |-> 0, freeSpaceSize |-> 0,
             nextPageId |-> INVALID_PAGE_ID]

slotCount(page) == Len(page.slots)

SlotIndexes(page) == 1..slotCount(page)

IsUsed(page, i) == page.slots[i].length # 0

-----------------------------------------------------------------------------
\* Free space.
getFreeSpace(page) ==
  LET slotsEndOffset == UInt16(PageHeaderSize + slotCount(page) * SlotSize)
  IN  IF page.freeSpaceOffset <= slotsEndOffset THEN 0
      ELSE UInt16(page.freeSpaceOffset - slotsEndOffset)

hasEnoughSpace(page, recordSize) == getFreeSpace(page) >= recordSize + SlotSize

calculateRecordSize(v) == UInt16(v.size)

\* The end of the slot array with the slot that insertRecord is about to add.
SlotsEndOffset(page) == UInt16(PageHeaderSize + (slotCount(page) + 1) * SlotSize)

AvailableSpace(page) == UInt16(page.freeSpaceOffset - SlotsEndOffset(page))

RequiredSpace(v) == UInt16(calculateRecordSize(v) + SlotSize)

RecordOffset(page, v) == UInt16(page.freeSpaceOffset - calculateRecordSize(v))

\* The tests of insertRecord and insertTuple, in their order.
CanInsert(page, v) ==
  /\ page.freeSpaceOffset <= PAGE_SIZE
  /\ slotCount(page) <= (PAGE_SIZE - PageHeaderSize) \div SlotSize
  /\ SlotsEndOffset(page) <= PAGE_SIZE
  /\ page.freeSpaceOffset >= SlotsEndOffset(page)
  /\ AvailableSpace(page) >= RequiredSpace(v)
  /\ RecordOffset(page, v) >= SlotsEndOffset(page)
  /\ RecordOffset(page, v) + calculateRecordSize(v) <= PAGE_SIZE

-----------------------------------------------------------------------------
\* The operations, as the page they leave when the method returns true.

\* Mutant: the first empty slot is used again.
Inserted_ReusesSlot(page, rowId, v, txnId) ==
  LET record == [rowId |-> rowId, createTxnId |-> txnId,
                 deleteTxnId |-> INVALID_TXN_ID, value |-> v]
      free == {i \in SlotIndexes(page) : ~IsUsed(page, i)} \cup {slotCount(page) + 1}
      i == CHOOSE j \in free : \A k \in free : j <= k
      slot == [offset |-> RecordOffset(page, v), length |-> calculateRecordSize(v),
               record |-> record]
  IN  [page EXCEPT
        !.slots = [k \in SlotIndexes(page) \cup {i} |-> IF k = i THEN slot ELSE @[k]],
        !.freeSpaceOffset = RecordOffset(page, v)]

\* insertRecord and insertTuple take the next slot and the bytes below the last
\* record.
Inserted(page, rowId, v, txnId) ==
  LET record == [rowId |-> rowId, createTxnId |-> txnId,
                 deleteTxnId |-> INVALID_TXN_ID, value |-> v]
  IN  [page EXCEPT
        !.slots = Append(@, [offset |-> RecordOffset(page, v),
                             length |-> calculateRecordSize(v), record |-> record]),
        !.freeSpaceOffset = RecordOffset(page, v),
        !.freeSpaceSize = UInt16(AvailableSpace(page) - RequiredSpace(v))]

\* deleteRecord and updateRecord refuse a slot that does not exist, that is
\* empty, or whose record is already marked as deleted, by whomever.
IsLive(page, i) ==
  /\ i \in SlotIndexes(page)
  /\ IsUsed(page, i)
  /\ page.slots[i].record.deleteTxnId = INVALID_TXN_ID

Deleted(page, i, txnId) ==
  [page EXCEPT !.slots[i].record.deleteTxnId = txnId]

\* Mutant: a record may grow in place.
CanUpdate_Grows(page, i, v) == IsLive(page, i)

\* updateRecord works in place: the new record must not be longer.
CanUpdate(page, i, v) ==
  IsLive(page, i) /\ calculateRecordSize(v) <= page.slots[i].length

\* The row id and createTxnId stay; the slot shrinks with its record.
Updated(page, i, v) ==
  [page EXCEPT !.slots[i].length = calculateRecordSize(v),
               !.slots[i].record.value = v]

\* getRecordHeader, as ROLLBACK uses it to take back a deletion.
HasHeader(page, i) ==
  i \in SlotIndexes(page) /\ page.slots[i].offset # 0 /\ IsUsed(page, i)

Undeleted(page, i) == Deleted(page, i, INVALID_TXN_ID)

\* VacuumWorker::cleanupTable on one page: the slots in S become empty.
Emptied(page, S) ==
  [page EXCEPT !.slots = [i \in SlotIndexes(page) |->
     IF i \in S THEN [offset |-> 0, length |-> 0, record |-> NoRecord] ELSE @[i]]]

\* getAllRecords skips empty slots, slots that point outside of the page or are
\* too short, and records it cannot deserialise because they were stored in part.
IsListed(page, i) ==
  /\ IsUsed(page, i)
  /\ page.slots[i].offset + page.slots[i].length <= PAGE_SIZE
  /\ page.slots[i].length >= RecordHeaderSize
  /\ page.slots[i].length = page.slots[i].record.value.size

\* The slots of the records that getAllRecords returns, in their order.
getAllRecords(page) ==
  LET upTo[i \in 0 .. slotCount(page)] ==
        IF i = 0 THEN << >>
        ELSE IF IsListed(page, i) THEN Append(upTo[i - 1], i) ELSE upTo[i - 1]
  IN  upTo[slotCount(page)]

=============================================================================
