----------------------------- MODULE TableProofs -----------------------------
(***************************************************************************)
(* Proofs that the records of a table page never overlap, for every set of *)
(* rows, transactions and operations (the invariants of PageLife), and of  *)
(* what the statements keep for any number of pages, rows, transactions,   *)
(* faults and crashes (Statements): the table stays well-formed, VACUUM    *)
(* removes only what nobody can see, and a deletion that has committed is  *)
(* for good.                                                               *)
(*                                                                         *)
(* A statement works row by row.  KeptChain says what it may have done to  *)
(* the deletion marks on the way; each row keeps it (InsertRowSound,       *)
(* UpdateRowSound, DeleteRowSound), and so do all of them.                 *)
(***************************************************************************)
EXTENDS PageLife, Statements, FiniteSetTheorems, TLAPS

\* What is known of one slot of a page whose records start at low.
GoodSlot(s, low) ==
  /\ s \in Slot
  /\ s.length # 0 => s.record \in Record
  /\ s.length # 0 => s.offset >= low
  /\ s.length # 0 => s.offset + s.length <= PAGE_SIZE

\* Two slots share no byte.
Apart(s, t) ==
  s.length # 0 /\ t.length # 0 =>
    s.offset + s.length <= t.offset \/ t.offset + t.length <= s.offset

\* The inductive invariant, slot by slot.
IInv ==
  /\ page = [slots |-> page.slots, freeSpaceOffset |-> page.freeSpaceOffset,
             freeSpaceSize |-> page.freeSpaceSize, nextPageId |-> page.nextPageId]
  /\ page.slots \in Seq(Slot)
  /\ page.freeSpaceOffset \in Nat /\ page.freeSpaceOffset <= PAGE_SIZE
  /\ page.freeSpaceSize \in Nat /\ page.freeSpaceSize <= PAGE_SIZE
  /\ page.nextPageId \in Nat
  /\ newRowId \in Nat \ {0}
  /\ page.freeSpaceOffset >= PageHeaderSize + slotCount(page) * SlotSize
  /\ \A i \in SlotIndexes(page) : GoodSlot(page.slots[i], page.freeSpaceOffset)
  /\ \A i, j \in SlotIndexes(page) : i # j => Apart(page.slots[i], page.slots[j])

-----------------------------------------------------------------------------
\* The conversion to uint16_t keeps what fits and always yields 16 bits.
LEMMA Conversion ==
  /\ \A n \in Int : 0 <= n /\ n <= 65535 => UInt16(n) = n
  /\ \A n \in Int : UInt16(n) \in Int /\ 0 <= UInt16(n) /\ UInt16(n) <= 65535
  /\ \A n \in Int : -65536 <= n /\ n <= -1 => UInt16(n) = n + 65536
BY DEF UInt16

\* Values are serialised to at least a record header.
LEMMA Size ==
  ASSUME NEW v \in Values
  PROVE  /\ calculateRecordSize(v) \in Nat
         /\ calculateRecordSize(v) <= 65535
         /\ calculateRecordSize(v) # 0
BY ValuesAssumption, Conversion DEF calculateRecordSize, RecordHeaderSize

\* The invariant gives the properties that TLC checks.
LEMMA Consequences == IInv => PageTypeOK /\ RecordsFit
<1> SUFFICES ASSUME IInv PROVE PageTypeOK /\ RecordsFit
  OBVIOUS
<1>1. page \in Page
  BY DEF IInv, Page
<1>2. PageTypeOK
  BY <1>1 DEF IInv, PageTypeOK
<1>3. RecordsFit
  <2>1. \A i \in SlotIndexes(page) : IsUsed(page, i) =>
          /\ page.slots[i].offset >= page.freeSpaceOffset
          /\ page.slots[i].offset + page.slots[i].length <= PAGE_SIZE
    BY DEF IInv, GoodSlot, IsUsed
  <2>2. \A i, j \in SlotIndexes(page) :
          i # j /\ IsUsed(page, i) /\ IsUsed(page, j) =>
            \/ page.slots[i].offset + page.slots[i].length <= page.slots[j].offset
            \/ page.slots[j].offset + page.slots[j].length <= page.slots[i].offset
    BY DEF IInv, Apart, IsUsed
  <2>3. page.freeSpaceOffset >= PageHeaderSize + slotCount(page) * SlotSize
    BY DEF IInv
  <2> QED
    BY <2>1, <2>2, <2>3 DEF RecordsFit
<1> QED
  BY <1>2, <1>3

\* An empty page satisfies the invariant.
LEMMA InitInv == PageInit => IInv
BY DEF PageInit, IInv, EmptyPage, PAGE_SIZE, PageHeaderSize, SlotSize, slotCount,
       SlotIndexes, INVALID_PAGE_ID

-----------------------------------------------------------------------------
\* The tests of insertRecord leave no room for a wrap-around: the new record
\* lies right below the last one and behind the longer slot array.
LEMMA InsertedFits ==
  ASSUME IInv, NEW v \in Values, CanInsert(page, v)
  PROVE  /\ RecordOffset(page, v) \in Nat
         /\ RecordOffset(page, v) + calculateRecordSize(v) = page.freeSpaceOffset
         /\ RecordOffset(page, v) >= PageHeaderSize + (slotCount(page) + 1) * SlotSize
         /\ UInt16(AvailableSpace(page) - RequiredSpace(v)) \in Nat
         /\ UInt16(AvailableSpace(page) - RequiredSpace(v)) <= PAGE_SIZE
<1> DEFINE n == slotCount(page)
           size == calculateRecordSize(v)
           free == page.freeSpaceOffset
<1>1. n \in Nat /\ free \in Nat /\ free <= 8192 /\ size \in Nat /\ size <= 65535
  BY Size DEF IInv, slotCount, PAGE_SIZE
<1>2. n <= 2040
  BY <1>1 DEF CanInsert, PAGE_SIZE, PageHeaderSize, SlotSize
<1>3. SlotsEndOffset(page) = 32 + (n + 1) * 4
  <2> DEFINE end == 32 + (n + 1) * 4
  <2>1. end \in Int /\ 0 <= end /\ end <= 65535
    BY <1>1, <1>2
  <2> HIDE DEF end
  <2>2. UInt16(end) = end
    BY <2>1, Conversion
  <2> QED
    BY <2>2 DEF end, SlotsEndOffset, PageHeaderSize, SlotSize
<1>4. RecordOffset(page, v) + size = free
  <2> DEFINE d == free - size
  <2>1. d \in Int /\ -65536 <= d /\ d <= 65535
    BY <1>1
  <2>2. RecordOffset(page, v) = UInt16(d)
    BY DEF RecordOffset
  <2>3. UInt16(d) + size <= 8192
    BY <2>2 DEF CanInsert, PAGE_SIZE
  <2>4. CASE d < 0
    <3>1. UInt16(d) = d + 65536
      BY <2>1, <2>4, Conversion
    <3> QED
      BY <1>1, <2>3, <3>1
  <2>5. CASE d >= 0
    <3>1. UInt16(d) = d
      BY <2>1, <2>5, Conversion
    <3> QED
      BY <1>1, <2>2, <3>1
  <2> QED
    BY <2>1, <2>4, <2>5
<1>5. RecordOffset(page, v) \in Int /\ RecordOffset(page, v) >= 0
  BY <1>1, Conversion DEF RecordOffset
<1>6. RecordOffset(page, v) >= PageHeaderSize + (n + 1) * SlotSize
  BY <1>3 DEF CanInsert, PageHeaderSize, SlotSize
<1>7. /\ UInt16(AvailableSpace(page) - RequiredSpace(v)) \in Nat
      /\ UInt16(AvailableSpace(page) - RequiredSpace(v)) <= PAGE_SIZE
  <2>1. AvailableSpace(page) \in Int /\ RequiredSpace(v) \in Int /\ RequiredSpace(v) >= 0
    <3>1. page.freeSpaceOffset - SlotsEndOffset(page) \in Int
      BY <1>1, <1>3
    <3>2. size + SlotSize \in Int
      BY <1>1 DEF SlotSize
    <3> QED
      BY <3>1, <3>2, Conversion DEF AvailableSpace, RequiredSpace
  <2>2. AvailableSpace(page) <= 8192
    <3> DEFINE a == free - SlotsEndOffset(page)
    <3>1. a \in Int /\ 0 <= a /\ a <= 8192
      BY <1>1, <1>3 DEF CanInsert
    <3> HIDE DEF a
    <3>2. UInt16(a) = a
      BY <3>1, Conversion
    <3> QED
      BY <3>1, <3>2 DEF AvailableSpace, a
  <2> DEFINE rest == AvailableSpace(page) - RequiredSpace(v)
  <2>3. rest \in Int /\ 0 <= rest /\ rest <= 8192
    BY <2>1, <2>2 DEF CanInsert
  <2> HIDE DEF rest
  <2>4. UInt16(rest) = rest
    BY <2>3, Conversion
  <2> QED
    BY <2>3, <2>4 DEF rest, PAGE_SIZE
<1> QED
  BY <1>4, <1>5, <1>6, <1>7

\* insertRecord keeps the invariant.
LEMMA InsertStep ==
  ASSUME IInv, NEW v \in Values, NEW t \in TxnIds, InsertRecord(v, t)
  PROVE  IInv'
<1> DEFINE n == slotCount(page)
           off == RecordOffset(page, v)
           rec == [rowId |-> newRowId, createTxnId |-> t,
                   deleteTxnId |-> INVALID_TXN_ID, value |-> v]
           new == [offset |-> off, length |-> calculateRecordSize(v), record |-> rec]
<1>1. /\ off \in Nat
      /\ off + calculateRecordSize(v) = page.freeSpaceOffset
      /\ off >= PageHeaderSize + (n + 1) * SlotSize
      /\ UInt16(AvailableSpace(page) - RequiredSpace(v)) \in Nat
      /\ UInt16(AvailableSpace(page) - RequiredSpace(v)) <= PAGE_SIZE
  BY InsertedFits DEF InsertRecord
<1>2. /\ page'.slots = Append(page.slots, new)
      /\ page'.freeSpaceOffset = off
      /\ page'.freeSpaceSize = UInt16(AvailableSpace(page) - RequiredSpace(v))
      /\ page'.nextPageId = page.nextPageId
      /\ page' = [slots |-> page'.slots, freeSpaceOffset |-> page'.freeSpaceOffset,
                  freeSpaceSize |-> page'.freeSpaceSize, nextPageId |-> page'.nextPageId]
  BY ZenonT(30) DEF IInv, InsertRecord, Inserted
<1>3. rec \in Record
  BY LifeAssumption DEF Record, IInv, INVALID_TXN_ID
<1> HIDE DEF rec
<1>4. new \in Slot
  BY <1>1, <1>3, Size DEF Slot
<1>5. /\ page'.slots \in Seq(Slot)
      /\ slotCount(page)' = n + 1
      /\ SlotIndexes(page)' = 1..(n + 1)
      /\ page'.slots[n + 1] = new
      /\ \A i \in 1..n : page'.slots[i] = page.slots[i]
      /\ n \in Nat
  BY <1>2, <1>4 DEF IInv, slotCount, SlotIndexes
<1>6. new.offset = off /\ new.length = calculateRecordSize(v) /\ new.record = rec
  OBVIOUS
<1> HIDE DEF new
<1>7. calculateRecordSize(v) \in Nat /\ page.freeSpaceOffset \in Nat
      /\ page.freeSpaceOffset <= PAGE_SIZE
  BY Size DEF IInv
<1>8. \A i \in 1..n : GoodSlot(page'.slots[i], off)
  <2> SUFFICES ASSUME NEW i \in 1..n PROVE GoodSlot(page'.slots[i], off)
    OBVIOUS
  <2>1. GoodSlot(page.slots[i], page.freeSpaceOffset)
    BY DEF IInv, SlotIndexes
  <2>2. page.slots[i].offset \in Nat /\ page.slots[i].length \in Nat
    BY <2>1 DEF GoodSlot, Slot
  <2>3. off <= page.freeSpaceOffset
    BY <1>1, <1>7
  <2>4. GoodSlot(page.slots[i], off)
    BY <1>1, <1>7, <2>1, <2>2, <2>3 DEF GoodSlot
  <2> QED
    BY <1>5, <2>4
<1>9. GoodSlot(page'.slots[n + 1], off)
  BY <1>1, <1>3, <1>4, <1>5, <1>6, <1>7 DEF GoodSlot
<1>10. \A i \in 1..n : Apart(page.slots[i], new) /\ Apart(new, page.slots[i])
  <2> SUFFICES ASSUME NEW i \in 1..n
               PROVE  Apart(page.slots[i], new) /\ Apart(new, page.slots[i])
    OBVIOUS
  <2>1. GoodSlot(page.slots[i], page.freeSpaceOffset)
    BY DEF IInv, SlotIndexes
  <2>2. page.slots[i].offset \in Nat /\ page.slots[i].length \in Nat
    BY <2>1 DEF GoodSlot, Slot
  <2> QED
    BY <1>1, <1>6, <1>7, <2>1, <2>2 DEF GoodSlot, Apart
<1>11. \A i, j \in SlotIndexes(page)' : i # j => Apart(page'.slots[i], page'.slots[j])
  <2> SUFFICES ASSUME NEW i \in 1..(n + 1), NEW j \in 1..(n + 1), i # j
               PROVE  Apart(page'.slots[i], page'.slots[j])
    BY <1>5
  <2>1. CASE i \in 1..n /\ j \in 1..n
    BY <1>5, <2>1, ZenonT(30) DEF IInv, SlotIndexes, Apart
  <2>2. CASE i = n + 1 /\ j \in 1..n
    BY <1>5, <1>10, <2>2 DEF Apart
  <2>3. CASE i \in 1..n /\ j = n + 1
    BY <1>5, <1>10, <2>3 DEF Apart
  <2> QED
    BY <1>5, <2>1, <2>2, <2>3
<1>12. \A i \in SlotIndexes(page)' : GoodSlot(page'.slots[i], off)
  BY <1>5, <1>8, <1>9
<1>13. newRowId' \in Nat \ {0}
  BY DEF InsertRecord, IInv
<1>14. (page.freeSpaceOffset >= PageHeaderSize + slotCount(page) * SlotSize)'
  BY <1>1, <1>2, <1>5
<1>15. page'.freeSpaceOffset \in Nat /\ page'.freeSpaceOffset <= PAGE_SIZE
  BY <1>1, <1>2, <1>7 DEF PAGE_SIZE
<1> QED
  BY <1>1, <1>2, <1>5, <1>11, <1>12, <1>13, <1>14, <1>15, ZenonT(30) DEF IInv

-----------------------------------------------------------------------------
\* A step that keeps every slot, empties it, or shortens its record in place.
Shrinks ==
  /\ page' = [page EXCEPT !.slots = page'.slots]
  /\ page'.slots \in Seq(Slot)
  /\ Len(page'.slots) = Len(page.slots)
  /\ newRowId' = newRowId
  /\ \A k \in SlotIndexes(page) : page'.slots[k].length # 0 =>
       /\ page'.slots[k].record \in Record
       /\ page.slots[k].length # 0
       /\ page'.slots[k].offset = page.slots[k].offset
       /\ page'.slots[k].length <= page.slots[k].length

\* Such a step keeps the invariant.
LEMMA ShrinkStep == ASSUME IInv, Shrinks PROVE IInv'
<1>1. /\ page'.freeSpaceOffset = page.freeSpaceOffset
      /\ page'.freeSpaceSize = page.freeSpaceSize
      /\ page'.nextPageId = page.nextPageId
      /\ page' = [slots |-> page'.slots, freeSpaceOffset |-> page'.freeSpaceOffset,
                  freeSpaceSize |-> page'.freeSpaceSize, nextPageId |-> page'.nextPageId]
  BY DEF IInv, Shrinks
<1>2. SlotIndexes(page)' = SlotIndexes(page) /\ slotCount(page)' = slotCount(page)
  BY DEF Shrinks, SlotIndexes, slotCount
<1>3. \A k \in SlotIndexes(page) :
        /\ page.slots[k].offset \in Nat /\ page.slots[k].length \in Nat
        /\ page'.slots[k] \in Slot
        /\ page'.slots[k].offset \in Nat /\ page'.slots[k].length \in Nat
  <2> SUFFICES ASSUME NEW k \in SlotIndexes(page)
               PROVE  /\ page.slots[k].offset \in Nat /\ page.slots[k].length \in Nat
                      /\ page'.slots[k] \in Slot
                      /\ page'.slots[k].offset \in Nat /\ page'.slots[k].length \in Nat
    OBVIOUS
  <2>1. page.slots[k] \in Slot /\ page'.slots[k] \in Slot
    BY <1>2 DEF IInv, Shrinks, SlotIndexes, slotCount
  <2> QED
    BY <2>1 DEF Slot
<1>4. \A k \in SlotIndexes(page) : GoodSlot(page'.slots[k], page.freeSpaceOffset)
  <2> SUFFICES ASSUME NEW k \in SlotIndexes(page)
               PROVE  GoodSlot(page'.slots[k], page.freeSpaceOffset)
    OBVIOUS
  <2>1. GoodSlot(page.slots[k], page.freeSpaceOffset) /\ page.freeSpaceOffset \in Nat
    BY DEF IInv
  <2> QED
    BY <1>3, <2>1 DEF GoodSlot, Shrinks, PAGE_SIZE
<1>5. \A i, j \in SlotIndexes(page) : i # j => Apart(page'.slots[i], page'.slots[j])
  <2> SUFFICES ASSUME NEW i \in SlotIndexes(page), NEW j \in SlotIndexes(page), i # j
               PROVE  Apart(page'.slots[i], page'.slots[j])
    OBVIOUS
  <2>1. Apart(page.slots[i], page.slots[j])
    BY DEF IInv
  <2>2. \A k \in {i, j} : page'.slots[k].length # 0 =>
          /\ page.slots[k].length # 0
          /\ page'.slots[k].offset = page.slots[k].offset
          /\ page'.slots[k].length <= page.slots[k].length
    BY DEF Shrinks
  <2> QED
    BY <1>3, <2>1, <2>2 DEF Apart
<1> QED
  BY <1>1, <1>2, <1>4, <1>5 DEF IInv, Shrinks

\* A slot in use has a record, as long as the invariant holds.
LEMMA UsedSlot ==
  ASSUME IInv, NEW i \in SlotIndexes(page), IsUsed(page, i)
  PROVE  /\ page.slots[i] \in Slot
         /\ page.slots[i].record \in Record
         /\ page.slots[i].length \in Nat
BY DEF IInv, IsUsed, GoodSlot, Slot

\* One slot that keeps its place and does not grow is a shrinking step.
LEMMA OneSlot ==
  ASSUME IInv, NEW i \in SlotIndexes(page), IsUsed(page, i),
         NEW s \in Slot, s.record \in Record,
         s.offset = page.slots[i].offset, s.length <= page.slots[i].length,
         page' = [page EXCEPT !.slots[i] = s], newRowId' = newRowId
  PROVE  Shrinks
<1>1. page.slots \in Seq(Slot) /\ i \in 1..Len(page.slots)
  BY DEF IInv, SlotIndexes, slotCount
<1>2. page'.slots = [page.slots EXCEPT ![i] = s]
  BY DEF IInv
<1>3. page'.slots \in Seq(Slot) /\ Len(page'.slots) = Len(page.slots)
  BY <1>1, <1>2
<1>4. page' = [page EXCEPT !.slots = page'.slots]
  BY <1>2 DEF IInv
<1>5. \A k \in SlotIndexes(page) : page'.slots[k].length # 0 =>
        /\ page'.slots[k].record \in Record
        /\ page.slots[k].length # 0
        /\ page'.slots[k].offset = page.slots[k].offset
        /\ page'.slots[k].length <= page.slots[k].length
  <2> SUFFICES ASSUME NEW k \in SlotIndexes(page), page'.slots[k].length # 0
               PROVE  /\ page'.slots[k].record \in Record
                      /\ page.slots[k].length # 0
                      /\ page'.slots[k].offset = page.slots[k].offset
                      /\ page'.slots[k].length <= page.slots[k].length
    OBVIOUS
  <2>1. CASE k = i
    BY <1>1, <1>2, <2>1 DEF IsUsed
  <2>2. CASE k # i
    <3>1. page'.slots[k] = page.slots[k]
      BY <1>1, <1>2, <2>2 DEF SlotIndexes, slotCount
    <3>2. page.slots[k].length # 0
      BY <3>1
    <3> QED
      BY <3>1, <3>2, UsedSlot DEF IsUsed
  <2> QED
    BY <2>1, <2>2
<1> QED
  BY <1>3, <1>4, <1>5 DEF Shrinks

-----------------------------------------------------------------------------
\* deleteRecord and the undo of a deletion change deleteTxnId only.
LEMMA MarkStep ==
  ASSUME IInv, NEW i \in SlotIndexes(page), IsUsed(page, i), NEW t \in Nat,
         page' = Deleted(page, i, t), newRowId' = newRowId
  PROVE  Shrinks
<1> DEFINE r == [page.slots[i].record EXCEPT !.deleteTxnId = t]
           s == [page.slots[i] EXCEPT !.record = r]
<1>1. /\ page.slots[i] \in Slot
      /\ page.slots[i].record \in Record
      /\ page.slots[i].length \in Nat
  BY UsedSlot
<1>2. r \in Record
  BY <1>1 DEF Record
<1>3. page' = [page EXCEPT !.slots[i] = s]
  BY DEF Deleted
<1> HIDE DEF r
<1>4. s \in Slot /\ s.record = r /\ s.offset = page.slots[i].offset
      /\ s.length = page.slots[i].length
  BY <1>1, <1>2 DEF Slot
<1> HIDE DEF s
<1>5. s.record \in Record /\ s.length <= page.slots[i].length
  BY <1>1, <1>2, <1>4
<1> QED
  BY <1>3, <1>4, <1>5, OneSlot

\* updateRecord keeps the place of the record and never lets it grow.
LEMMA UpdateStep ==
  ASSUME IInv, NEW i \in SlotIndexes(page), NEW v \in Values, UpdateRecord(i, v)
  PROVE  Shrinks
<1> DEFINE r == [page.slots[i].record EXCEPT !.value = v]
           s == [page.slots[i] EXCEPT !.length = calculateRecordSize(v), !.record = r]
<1>0. IsUsed(page, i)
  BY DEF UpdateRecord, CanUpdate, IsLive
<1>1. /\ page.slots[i] \in Slot
      /\ page.slots[i].record \in Record
      /\ page.slots[i].length \in Nat
  BY <1>0, UsedSlot
<1>2. r \in Record
  BY <1>1 DEF Record
<1>3. page' = [page EXCEPT !.slots[i] = s]
  <2>1. page.slots \in Seq(Slot) /\ i \in DOMAIN page.slots
    BY DEF IInv, SlotIndexes, slotCount
  <2> QED
    BY <1>1, <2>1, ZenonT(30) DEF UpdateRecord, Updated, IInv, Slot
<1> HIDE DEF r
<1>4. s \in Slot /\ s.record = r /\ s.offset = page.slots[i].offset
      /\ s.length = calculateRecordSize(v)
  <2> DEFINE u == [page.slots[i] EXCEPT !.length = calculateRecordSize(v)]
  <2>1. /\ u \in Slot
        /\ u.offset = page.slots[i].offset
        /\ u.length = calculateRecordSize(v)
    BY <1>1, Size DEF Slot
  <2>2. s = [u EXCEPT !.record = r]
    OBVIOUS
  <2> HIDE DEF s, u
  <2> QED
    BY <1>2, <2>1, <2>2 DEF Slot
<1> HIDE DEF s
<1>5. s.record \in Record /\ s.length <= page.slots[i].length
  BY <1>2, <1>4 DEF UpdateRecord, CanUpdate
<1>6. newRowId' = newRowId
  BY DEF UpdateRecord
<1> QED
  BY <1>0, <1>3, <1>4, <1>5, <1>6, OneSlot

\* VACUUM empties slots and touches no others.
LEMMA CleanupStep ==
  ASSUME IInv, NEW S \in SUBSET SlotIndexes(page), Cleanup(S)
  PROVE  Shrinks
<1> DEFINE empty == [offset |-> 0, length |-> 0, record |-> NoRecord]
<1>1. page'.slots = [i \in SlotIndexes(page) |-> IF i \in S THEN empty ELSE page.slots[i]]
  BY DEF Cleanup, Emptied, IInv
<1>2. empty \in Slot /\ empty.length = 0
  BY DEF Slot
<1> HIDE DEF empty
<1>3. page.slots \in Seq(Slot) /\ Len(page.slots) \in Nat
      /\ SlotIndexes(page) = 1..Len(page.slots)
  BY DEF IInv, SlotIndexes, slotCount
<1>4. page'.slots \in Seq(Slot) /\ Len(page'.slots) = Len(page.slots)
  <2>1. \A k \in 1..Len(page.slots) : page.slots[k] \in Slot
    BY <1>3
  <2>2. page'.slots \in [1..Len(page.slots) -> Slot]
    BY <1>1, <1>2, <1>3, <2>1
  <2> QED
    BY <1>3, <2>2
<1>5. page' = [page EXCEPT !.slots = page'.slots]
  BY <1>1 DEF Cleanup, Emptied, IInv
<1>6. \A k \in SlotIndexes(page) : page'.slots[k].length # 0 =>
        /\ page'.slots[k] = page.slots[k]
        /\ IsUsed(page, k)
  BY <1>1, <1>2 DEF IsUsed
<1>7. \A k \in SlotIndexes(page) : page'.slots[k].length # 0 =>
        /\ page'.slots[k].record \in Record
        /\ page.slots[k].length # 0
        /\ page'.slots[k].offset = page.slots[k].offset
        /\ page'.slots[k].length <= page.slots[k].length
  BY <1>6, UsedSlot DEF IsUsed
<1> QED
  BY <1>4, <1>5, <1>7 DEF Shrinks, Cleanup

\* Every step keeps the invariant: INSERT adds a record below the others, all
\* other operations shrink.
LEMMA NextInv == ASSUME IInv, [PageNext]_pageVars PROVE IInv'
<1>1. ASSUME NEW v \in Values, NEW t \in TxnIds, InsertRecord(v, t) PROVE IInv'
  BY <1>1, InsertStep
<1>2. ASSUME NEW i \in SlotIndexes(page), NEW t \in TxnIds, DeleteRecord(i, t)
      PROVE  IInv'
  <2>1. t \in Nat /\ IsUsed(page, i)
    BY <1>2, LifeAssumption DEF DeleteRecord, IsLive
  <2> QED
    BY <1>2, <2>1, MarkStep, ShrinkStep DEF DeleteRecord
<1>3. ASSUME NEW i \in SlotIndexes(page), NEW v \in Values, UpdateRecord(i, v)
      PROVE  IInv'
  BY <1>3, UpdateStep, ShrinkStep
<1>4. ASSUME NEW i \in SlotIndexes(page), UndoDelete(i) PROVE IInv'
  <2>1. 0 \in Nat /\ IsUsed(page, i) /\ page' = Deleted(page, i, 0)
    BY <1>4 DEF UndoDelete, HasHeader, Undeleted, INVALID_TXN_ID
  <2> QED
    BY <1>4, <2>1, MarkStep, ShrinkStep DEF UndoDelete
<1>5. ASSUME NEW S \in SUBSET SlotIndexes(page), Cleanup(S) PROVE IInv'
  BY <1>5, CleanupStep, ShrinkStep
<1>6. CASE UNCHANGED pageVars
  BY <1>6 DEF pageVars, IInv, SlotIndexes, slotCount
<1> QED
  BY <1>1, <1>2, <1>3, <1>4, <1>5, <1>6 DEF PageNext

\* The inductive invariant holds in every reachable state of the page.
THEOREM PageInvariance == PageSpec => []IInv
BY InitInv, NextInv, PTL DEF PageSpec

\* The header, slots and records of a table page stay in their ranges, whatever
\* sizes the rows of INSERT and UPDATE have.
THEOREM PageTypeCorrect == PageSpec => []PageTypeOK
BY PageInvariance, Consequences, PTL

\* insertRecord, updateRecord, deleteRecord and VACUUM never let a record
\* overlap another one or the slot array, in spite of 16-bit arithmetic.
THEOREM RecordsNeverOverlap == PageSpec => []RecordsFit
BY PageInvariance, Consequences, PTL

-----------------------------------------------------------------------------
\* What SlotsKeepTheirRow says of one step.
RowsKept ==
  \A i \in SlotIndexes(page) :
    /\ i \in SlotIndexes(page)'
    /\ IsUsed(page, i)' =>
         IsUsed(page, i) /\ page.slots[i].record.rowId = page'.slots[i].record.rowId

\* Changing deleteTxnId or the value of a record keeps its row id.
LEMMA ChangeKeepsRows ==
  ASSUME IInv, NEW k \in SlotIndexes(page), IsUsed(page, k), NEW s,
         page' = [page EXCEPT !.slots[k] = s],
         s.record.rowId = page.slots[k].record.rowId
  PROVE  RowsKept
<1>1. page.slots \in Seq(Slot) /\ k \in 1..Len(page.slots)
  BY DEF IInv, SlotIndexes, slotCount
<1>2. page'.slots = [page.slots EXCEPT ![k] = s]
  BY DEF IInv
<1>3. SlotIndexes(page)' = SlotIndexes(page)
  BY <1>1, <1>2 DEF SlotIndexes, slotCount
<1>4. page'.slots[k] = s /\ \A i \in SlotIndexes(page) \ {k} : page'.slots[i] = page.slots[i]
  BY <1>1, <1>2 DEF SlotIndexes, slotCount
<1> QED
  BY <1>3, <1>4 DEF RowsKept, IsUsed

\* No step gives a used slot to another row.
LEMMA StepKeepsRows == ASSUME IInv, [PageNext]_pageVars PROVE RowsKept
<1>1. ASSUME NEW v \in Values, NEW t \in TxnIds, InsertRecord(v, t) PROVE RowsKept
  <2>1. \E s : page'.slots = Append(page.slots, s)
    BY <1>1, ZenonT(30) DEF InsertRecord, Inserted, IInv
  <2> PICK s : page'.slots = Append(page.slots, s)
    BY <2>1
  <2>2. page.slots \in Seq(Slot)
    BY DEF IInv
  <2>3. \A i \in SlotIndexes(page) :
          i \in SlotIndexes(page)' /\ page'.slots[i] = page.slots[i]
    BY <2>2 DEF SlotIndexes, slotCount
  <2> QED
    BY <2>3, ZenonT(30) DEF RowsKept, IsUsed
<1>2. ASSUME NEW i \in SlotIndexes(page), IsUsed(page, i), NEW t \in Nat,
             page' = Deleted(page, i, t)
      PROVE  RowsKept
  <2> DEFINE r == [page.slots[i].record EXCEPT !.deleteTxnId = t]
             s == [page.slots[i] EXCEPT !.record = r]
  <2>1. page.slots[i] \in Slot /\ page.slots[i].record \in Record
    BY <1>2, UsedSlot
  <2>2. r.rowId = page.slots[i].record.rowId
    BY <2>1 DEF Record
  <2>3. page' = [page EXCEPT !.slots[i] = s]
    BY <1>2 DEF Deleted
  <2> HIDE DEF r
  <2>4. s.record = r
    BY <2>1 DEF Slot
  <2> HIDE DEF s
  <2> QED
    BY <1>2, <2>2, <2>3, <2>4, ChangeKeepsRows
<1>3. ASSUME NEW i \in SlotIndexes(page), NEW v \in Values, UpdateRecord(i, v)
      PROVE  RowsKept
  <2> DEFINE r == [page.slots[i].record EXCEPT !.value = v]
             s == [page.slots[i] EXCEPT !.length = calculateRecordSize(v), !.record = r]
  <2>0. IsUsed(page, i)
    BY <1>3 DEF UpdateRecord, CanUpdate, IsLive
  <2>1. page.slots[i] \in Slot /\ page.slots[i].record \in Record
    BY <2>0, UsedSlot
  <2>2. r.rowId = page.slots[i].record.rowId
    BY <2>1 DEF Record
  <2>3. page' = [page EXCEPT !.slots[i] = s]
    <3>1. page.slots \in Seq(Slot) /\ i \in DOMAIN page.slots
      BY DEF IInv, SlotIndexes, slotCount
    <3> QED
      BY <1>3, <2>1, <3>1, ZenonT(30) DEF UpdateRecord, Updated, IInv, Slot
  <2> HIDE DEF r
  <2>4. s.record = r
    BY <2>1 DEF Slot
  <2> HIDE DEF s
  <2> QED
    BY <2>0, <2>2, <2>3, <2>4, ChangeKeepsRows
<1>4. ASSUME NEW S \in SUBSET SlotIndexes(page), Cleanup(S) PROVE RowsKept
  <2> DEFINE empty == [offset |-> 0, length |-> 0, record |-> NoRecord]
  <2>1. page'.slots = [i \in SlotIndexes(page) |-> IF i \in S THEN empty ELSE page.slots[i]]
    BY <1>4 DEF Cleanup, Emptied, IInv
  <2>2. SlotIndexes(page)' = SlotIndexes(page)
    BY <1>4, CleanupStep DEF Shrinks, SlotIndexes, slotCount
  <2>3. empty.length = 0
    OBVIOUS
  <2> HIDE DEF empty
  <2>4. \A i \in SlotIndexes(page) : page'.slots[i].length # 0 => page'.slots[i] = page.slots[i]
    BY <2>1, <2>3
  <2> QED
    BY <2>2, <2>4 DEF RowsKept, IsUsed
<1>5. CASE UNCHANGED pageVars
  BY <1>5 DEF pageVars, RowsKept, SlotIndexes, slotCount, IsUsed
<1>6. ASSUME NEW i \in SlotIndexes(page), NEW t \in TxnIds, DeleteRecord(i, t)
      PROVE  RowsKept
  <2>1. t \in Nat
    BY LifeAssumption
  <2> QED
    BY <1>2, <1>6, <2>1 DEF DeleteRecord, IsLive
<1>7. ASSUME NEW i \in SlotIndexes(page), UndoDelete(i) PROVE RowsKept
  BY <1>2, <1>7 DEF UndoDelete, HasHeader, Undeleted, INVALID_TXN_ID
<1> QED
  BY <1>1, <1>3, <1>4, <1>5, <1>6, <1>7 DEF PageNext

\* A slot that INSERT gave to a row never refers to another row, so that undo
\* records and row locations stay right whatever UPDATE, DELETE, ROLLBACK and
\* VACUUM do to the page.
THEOREM SlotsStay == PageSpec => SlotsKeepTheirRow
<1>1. IInv /\ [PageNext]_pageVars => [RowsKept]_pageVars
  BY StepKeepsRows
<1>2. [][RowsKept]_pageVars => SlotsKeepTheirRow
  BY PTL DEF SlotsKeepTheirRow, RowsKept
<1> QED
  BY <1>1, <1>2, PageInvariance, PTL DEF PageSpec

-----------------------------------------------------------------------------
\* Induction, for what the model computes row by row and page by page.

\* A set of natural numbers has a least one.
LEMMA LeastNumber ==
  ASSUME NEW T \in SUBSET Nat, T # {}
  PROVE  \E x \in T : \A y \in T : x <= y
<1>1. \A y, z \in Nat : y < z => <<y, z>> \in OpToRel(<, Nat)
  BY Zenon DEF OpToRel
<1>2. PICK x \in T : \A y \in T : ~ (<<y, x>> \in OpToRel(<, Nat))
  BY NatLessThanWellFounded, WFMin, Zenon
<1>3. \A y \in T : ~(y < x)
  BY <1>1, <1>2, Zenon
<1> QED
  BY <1>3

\* A set with 0 that has the next number with each of its numbers has them all.
LEMMA SetInduction ==
  ASSUME NEW S, 0 \in S, \A n \in Nat : n \in S => n + 1 \in S
  PROVE  Nat \subseteq S
<1> SUFFICES ASSUME Nat \ S # {} PROVE FALSE
  OBVIOUS
<1>1. PICK x \in Nat \ S : \A y \in Nat \ S : x <= y
  BY LeastNumber, Zenon
<1>2. x # 0 /\ x - 1 \in Nat
  BY <1>1
<1>3. x - 1 \in S
  BY <1>1, <1>2
<1> QED
  BY <1>1, <1>2, <1>3

\* The n steps are taken one after the other, from a on.
StepByStep(f, D, a, n, step) ==
  f \in [0 .. n -> D] /\ f[0] = a /\ \A i \in 1 .. n : f[i] = step[i][f[i - 1]]

\* Steps that stay in a set can be taken one after the other.
LEMMA RunExists ==
  ASSUME NEW D, NEW a \in D, NEW n \in Nat, NEW step \in [1 .. n -> [D -> D]]
  PROVE  \E f : StepByStep(f, D, a, n, step)
<1> DEFINE IsRun(f, m) == f[0] = a /\ \A i \in 1 .. m : f[i] = step[i][f[i - 1]]
           S == {m \in Nat : m <= n => \E f \in [0 .. m -> D] : IsRun(f, m)}
<1>1. 0 \in S
  <2>1. [i \in 0 .. 0 |-> a] \in [0 .. 0 -> D] /\ IsRun([i \in 0 .. 0 |-> a], 0)
    OBVIOUS
  <2> QED
    BY <2>1, Zenon
<1>2. ASSUME NEW m \in Nat, m \in S PROVE m + 1 \in S
  <2> SUFFICES ASSUME m + 1 <= n PROVE \E f \in [0 .. m + 1 -> D] : IsRun(f, m + 1)
    OBVIOUS
  <2>1. PICK f \in [0 .. m -> D] : IsRun(f, m)
    BY <1>2
  <2> DEFINE g == [i \in 0 .. m + 1 |-> IF i = m + 1 THEN step[m + 1][f[m]] ELSE f[i]]
  <2>2. step[m + 1] \in [D -> D] /\ f[m] \in D
    BY <2>1
  <2>3. g \in [0 .. m + 1 -> D]
    BY <2>1, <2>2
  <2>4. g[0] = a
    BY <2>1
  <2>5. ASSUME NEW i \in 1 .. m + 1 PROVE g[i] = step[i][g[i - 1]]
    BY <2>1
  <2> HIDE DEF g
  <2> QED
    BY <2>3, <2>4, <2>5
<1>3. n \in S
  <2> HIDE DEF S
  <2> QED
    BY <1>1, <1>2, SetInduction
<1>4. PICK f \in [0 .. n -> D] : IsRun(f, n)
  BY <1>3
<1> QED
  BY <1>4, Zenon DEF StepByStep

\* What each step keeps holds after all of them.
LEMMA RunStays ==
  ASSUME NEW D, NEW n \in Nat, NEW f, f[0] \in D,
         \A i \in 1 .. n : f[i - 1] \in D => f[i] \in D
  PROVE  \A i \in 0 .. n : f[i] \in D
<1> DEFINE S == {m \in Nat : m <= n => f[m] \in D}
<1>1. 0 \in S
  OBVIOUS
<1>2. ASSUME NEW m \in Nat, m \in S PROVE m + 1 \in S
  <2> SUFFICES ASSUME m + 1 <= n PROVE f[m + 1] \in D
    OBVIOUS
  <2>1. f[m] \in D /\ m + 1 \in 1 .. n /\ (m + 1) - 1 = m
    BY <1>2
  <2> QED
    BY <2>1
<1>3. Nat \subseteq S
  <2> HIDE DEF S
  <2> QED
    BY <1>1, <1>2, SetInduction
<1> QED
  BY <1>3

-----------------------------------------------------------------------------
\* Pages and chains of pages, and what may happen to their deletion marks.

\* The pages whose used slots have a record.
GoodPages == {P \in Page : \A i \in 1 .. Len(P.slots) :
                P.slots[i].length # 0 => P.slots[i].record \in Record}

\* From slot a to slot b: it stays used or empty, and only a deletion mark in may
\* changes, to one of transaction t or to none.
KeptSlot(a, b, t, may) ==
  /\ a.length = 0 <=> b.length = 0
  /\ a.length # 0 =>
       \/ b.record.deleteTxnId = a.record.deleteTxnId
       \/ a.record.deleteTxnId \in may /\ b.record.deleteTxnId \in {INVALID_TXN_ID, t}

\* The slots of a page, and the pages of a chain, are kept; there may be new ones.
KeptPage(P, Q, t, may) ==
  /\ Len(P.slots) <= Len(Q.slots)
  /\ \A i \in 1 .. Len(P.slots) : KeptSlot(P.slots[i], Q.slots[i], t, may)

KeptChain(C, E, t, may) ==
  /\ Len(C) <= Len(E)
  /\ \A p \in 1 .. Len(C) : KeptPage(C[p], E[p], t, may)

\* What a page is made of.
LEMMA PageParts ==
  ASSUME NEW P \in GoodPages
  PROVE  /\ P = [slots |-> P.slots, freeSpaceOffset |-> P.freeSpaceOffset,
                 freeSpaceSize |-> P.freeSpaceSize, nextPageId |-> P.nextPageId]
         /\ P.slots \in Seq(Slot) /\ P.freeSpaceOffset \in Nat
         /\ P.freeSpaceSize \in Nat /\ P.nextPageId \in Nat
         /\ Len(P.slots) \in Nat /\ DOMAIN P.slots = 1 .. Len(P.slots)
         /\ \A i \in 1 .. Len(P.slots) : P.slots[i] \in Slot
         /\ \A i \in 1 .. Len(P.slots) : P.slots[i].length # 0 => P.slots[i].record \in Record
<1>1. P \in Page
  BY DEF GoodPages
<1>2. /\ P = [slots |-> P.slots, freeSpaceOffset |-> P.freeSpaceOffset,
              freeSpaceSize |-> P.freeSpaceSize, nextPageId |-> P.nextPageId]
      /\ P.slots \in Seq(Slot) /\ P.freeSpaceOffset \in Nat
      /\ P.freeSpaceSize \in Nat /\ P.nextPageId \in Nat
  BY <1>1 DEF Page
<1>3. /\ Len(P.slots) \in Nat /\ DOMAIN P.slots = 1 .. Len(P.slots)
      /\ \A i \in 1 .. Len(P.slots) : P.slots[i] \in Slot
  BY <1>2
<1> QED
  BY <1>2, <1>3 DEF GoodPages

\* A page with other slots.
LEMMA PageWith ==
  ASSUME NEW P \in GoodPages, NEW s \in Seq(Slot),
         \A i \in 1 .. Len(s) : s[i].length # 0 => s[i].record \in Record
  PROVE  [P EXCEPT !.slots = s] \in GoodPages /\ [P EXCEPT !.slots = s].slots = s
<1>1. P \in Page
  BY DEF GoodPages
<1>2. [P EXCEPT !.slots = s] \in Page /\ [P EXCEPT !.slots = s].slots = s
  BY <1>1, Zenon DEF Page
<1> QED
  BY <1>2, Zenon DEF GoodPages

\* A slot that stays as it is.
LEMMA SameSlot == ASSUME NEW a, NEW t, NEW may PROVE KeptSlot(a, a, t, may)
BY DEF KeptSlot

\* A page that stays as it is.
LEMMA SamePage ==
  ASSUME NEW P \in GoodPages, NEW t, NEW may PROVE KeptPage(P, P, t, may)
BY PageParts, SameSlot DEF KeptPage

\* Two such changes of a slot, one after the other.
LEMMA SlotTransitive ==
  ASSUME NEW a, NEW b, NEW c, NEW t, NEW may, KeptSlot(a, b, t, may), KeptSlot(b, c, t, may)
  PROVE  KeptSlot(a, c, t, may)
BY DEF KeptSlot

\* The same for a page.
LEMMA PageTransitive ==
  ASSUME NEW P \in GoodPages, NEW Q \in GoodPages, NEW R \in GoodPages, NEW t, NEW may,
         KeptPage(P, Q, t, may), KeptPage(Q, R, t, may)
  PROVE  KeptPage(P, R, t, may)
<1>1. Len(P.slots) \in Nat /\ Len(Q.slots) \in Nat /\ Len(R.slots) \in Nat
  BY PageParts
<1>2. Len(P.slots) <= Len(Q.slots) /\ Len(Q.slots) <= Len(R.slots)
  BY DEF KeptPage
<1>3. ASSUME NEW i \in 1 .. Len(P.slots) PROVE KeptSlot(P.slots[i], R.slots[i], t, may)
  <2>1. KeptSlot(P.slots[i], Q.slots[i], t, may)
    BY DEF KeptPage
  <2>2. KeptSlot(Q.slots[i], R.slots[i], t, may)
    BY <1>1, <1>2 DEF KeptPage
  <2> QED
    BY <2>1, <2>2, SlotTransitive
<1> QED
  BY <1>1, <1>2, <1>3 DEF KeptPage

\* The same for a chain of pages.
LEMMA ChainTransitive ==
  ASSUME NEW C \in Seq(GoodPages), NEW E \in Seq(GoodPages), NEW F \in Seq(GoodPages),
         NEW t, NEW may, KeptChain(C, E, t, may), KeptChain(E, F, t, may)
  PROVE  KeptChain(C, F, t, may)
<1>1. Len(C) \in Nat /\ Len(E) \in Nat /\ Len(F) \in Nat /\ Len(C) <= Len(E) /\ Len(E) <= Len(F)
  BY DEF KeptChain
<1>2. ASSUME NEW p \in 1 .. Len(C) PROVE KeptPage(C[p], F[p], t, may)
  <2>1. C[p] \in GoodPages /\ E[p] \in GoodPages /\ F[p] \in GoodPages
    BY <1>1
  <2>2. KeptPage(C[p], E[p], t, may) /\ KeptPage(E[p], F[p], t, may)
    BY <1>1 DEF KeptChain
  <2> QED
    BY <2>1, <2>2, PageTransitive
<1> QED
  BY <1>1, <1>2 DEF KeptChain

\* A chain of pages that stays as it is.
LEMMA SameChain ==
  ASSUME NEW C \in Seq(GoodPages), NEW t, NEW may PROVE KeptChain(C, C, t, may)
<1>1. Len(C) \in Nat /\ \A p \in 1 .. Len(C) : C[p] \in GoodPages
  OBVIOUS
<1> QED
  BY <1>1, SamePage DEF KeptChain

\* Chain E is chain C with Q as page p.
WithPage(C, E, p, Q) == E = [C EXCEPT ![p] = Q]

\* One page of a chain changes.
LEMMA ChainChanged ==
  ASSUME NEW C \in Seq(GoodPages), NEW p \in 1 .. Len(C), NEW Q \in GoodPages, NEW t, NEW may,
         KeptPage(C[p], Q, t, may), NEW E, WithPage(C, E, p, Q)
  PROVE  /\ E \in Seq(GoodPages)
         /\ Len(E) = Len(C)
         /\ E[p] = Q
         /\ KeptChain(C, E, t, may)
<1>1. E \in Seq(GoodPages) /\ Len(E) = Len(C) /\ Len(C) \in Nat
  BY DEF WithPage
<1>2. E[p] = Q /\ \A q \in 1 .. Len(C) : q # p => E[q] = C[q]
  BY DEF WithPage
<1>3. \A q \in 1 .. Len(C) : C[q] \in GoodPages
  OBVIOUS
<1>4. \A q \in 1 .. Len(C) : KeptPage(C[q], E[q], t, may)
  BY <1>2, <1>3, SamePage
<1>5. KeptChain(C, E, t, may)
  BY <1>1, <1>4 DEF KeptChain
<1> QED
  BY <1>1, <1>2, <1>5

\* A page is added.
LEMMA ChainLonger ==
  ASSUME NEW C \in Seq(GoodPages), NEW Q \in GoodPages, NEW t, NEW may
  PROVE  Append(C, Q) \in Seq(GoodPages) /\ KeptChain(C, Append(C, Q), t, may)
<1>1. /\ Append(C, Q) \in Seq(GoodPages) /\ Len(Append(C, Q)) = Len(C) + 1 /\ Len(C) \in Nat
      /\ \A p \in 1 .. Len(C) : C[p] \in GoodPages /\ Append(C, Q)[p] = C[p]
  OBVIOUS
<1> QED
  BY <1>1, SamePage DEF KeptChain

-----------------------------------------------------------------------------
\* The operations on one page (table_page.cpp) change at most the mark they are for.

\* Page Q is page P with b in slot i.
WithSlot(P, Q, i, b) == Q = [P EXCEPT !.slots[i] = b]

\* A slot of a page is replaced by one that is good, in place.
LEMMA SlotChanged ==
  ASSUME NEW P \in GoodPages, NEW i \in 1 .. Len(P.slots), NEW b \in Slot,
         b.record \in Record, NEW t, NEW may, KeptSlot(P.slots[i], b, t, may),
         NEW Q, WithSlot(P, Q, i, b)
  PROVE  /\ Q \in GoodPages
         /\ Q.slots[i] = b
         /\ Len(Q.slots) = Len(P.slots)
         /\ KeptPage(P, Q, t, may)
<1> DEFINE slots == [P.slots EXCEPT ![i] = b]
<1>1. Q = [P EXCEPT !.slots = slots]
  BY Zenon DEF GoodPages, Page, WithSlot
<1>2. /\ slots \in Seq(Slot) /\ Len(slots) = Len(P.slots) /\ slots[i] = b
      /\ \A k \in 1 .. Len(P.slots) : k # i => slots[k] = P.slots[k]
  BY PageParts
<1> HIDE DEF slots
<1>3. \A k \in 1 .. Len(slots) : slots[k].length # 0 => slots[k].record \in Record
  BY <1>2, PageParts
<1>4. Q \in GoodPages /\ Q.slots = slots
  BY <1>1, <1>2, <1>3, PageWith, Zenon
<1>5. KeptPage(P, Q, t, may)
  BY <1>2, <1>4, PageParts, SameSlot DEF KeptPage
<1> QED
  BY <1>2, <1>4, <1>5

\* insertRecord leaves the other slots alone.
LEMMA InsertedPage ==
  ASSUME NEW P \in GoodPages, NEW rowId \in Nat, NEW v \in Values, NEW txn \in Nat,
         NEW t, NEW may
  PROVE  /\ Inserted(P, rowId, v, txn) \in GoodPages
         /\ KeptPage(P, Inserted(P, rowId, v, txn), t, may)
<1> DEFINE r == [rowId |-> rowId, createTxnId |-> txn, deleteTxnId |-> INVALID_TXN_ID, value |-> v]
           b == [offset |-> RecordOffset(P, v), length |-> calculateRecordSize(v), record |-> r]
           slots == Append(P.slots, b)
           size == UInt16(AvailableSpace(P) - RequiredSpace(v))
           Q == Inserted(P, rowId, v, txn)
<1>1. Q = [P EXCEPT !.slots = slots, !.freeSpaceOffset = RecordOffset(P, v), !.freeSpaceSize = size]
  BY Zenon DEF Inserted
<1> HIDE DEF Q
<1>2. /\ RecordOffset(P, v) \in Nat
      /\ size \in Nat
  <2>1. P.freeSpaceOffset \in Nat /\ slotCount(P) \in Nat /\ calculateRecordSize(v) \in Nat
    BY PageParts, Size DEF slotCount
  <2>2. SlotsEndOffset(P) \in Int /\ RequiredSpace(v) \in Int
    BY <2>1, Conversion DEF SlotsEndOffset, RequiredSpace, PageHeaderSize, SlotSize
  <2>3. AvailableSpace(P) \in Int
    BY <2>1, <2>2, Conversion DEF AvailableSpace
  <2>4. RecordOffset(P, v) \in Nat
    BY <2>1, Conversion DEF RecordOffset
  <2> QED
    BY <2>2, <2>3, <2>4, Conversion
<1> HIDE DEF size
<1>3. r \in Record
  BY DEF Record, INVALID_TXN_ID
<1> HIDE DEF r
<1>4. b \in Slot /\ b.record = r
  BY <1>2, <1>3, Size DEF Slot
<1> HIDE DEF b
<1>5. /\ slots \in Seq(Slot) /\ Len(slots) = Len(P.slots) + 1 /\ slots[Len(P.slots) + 1] = b
      /\ \A k \in 1 .. Len(P.slots) : slots[k] = P.slots[k]
  BY <1>4, PageParts
<1> HIDE DEF slots
<1>6. \A k \in 1 .. Len(slots) : slots[k].length # 0 => slots[k].record \in Record
  <2>1. \A k \in 1 .. Len(P.slots) : P.slots[k].length # 0 => P.slots[k].record \in Record
    BY PageParts
  <2> QED
    BY <1>3, <1>4, <1>5, <2>1
<1>7. Q \in Page /\ Q.slots = slots
  BY <1>1, <1>2, <1>5, Zenon DEF GoodPages, Page
<1>8. Q \in GoodPages
  BY <1>6, <1>7 DEF GoodPages
<1>9. KeptPage(P, Q, t, may)
  BY <1>5, <1>7, PageParts, SameSlot DEF KeptPage
<1> QED
  BY <1>8, <1>9 DEF Q

\* deleteRecord, and the undo of a deletion.
LEMMA DeletedPage ==
  ASSUME NEW P \in GoodPages, NEW i \in 1 .. Len(P.slots), P.slots[i].length # 0,
         NEW u \in Nat, NEW t, NEW may, P.slots[i].record.deleteTxnId \in may,
         u \in {INVALID_TXN_ID, t}
  PROVE  /\ Deleted(P, i, u) \in GoodPages
         /\ KeptPage(P, Deleted(P, i, u), t, may)
         /\ Len(Deleted(P, i, u).slots) = Len(P.slots)
         /\ Deleted(P, i, u).slots[i].record.deleteTxnId = u
<1> DEFINE r == [P.slots[i].record EXCEPT !.deleteTxnId = u]
           b == [P.slots[i] EXCEPT !.record = r]
<1>1. P.slots[i] \in Slot /\ P.slots[i].record \in Record
  BY PageParts
<1>2. r \in Record /\ r.deleteTxnId = u
  BY <1>1 DEF Record
<1>3. WithSlot(P, Deleted(P, i, u), i, b)
  BY DEF Deleted, WithSlot
<1> HIDE DEF r
<1>4. b \in Slot /\ b.record = r /\ b.length = P.slots[i].length
  BY <1>1, <1>2 DEF Slot
<1> HIDE DEF b
<1>5. KeptSlot(P.slots[i], b, t, may)
  BY <1>2, <1>4 DEF KeptSlot
<1>6. b.record \in Record
  BY <1>2, <1>4
<1>7. /\ Deleted(P, i, u) \in GoodPages
      /\ Deleted(P, i, u).slots[i] = b
      /\ Len(Deleted(P, i, u).slots) = Len(P.slots)
      /\ KeptPage(P, Deleted(P, i, u), t, may)
  BY <1>3, <1>4, <1>5, <1>6, SlotChanged, ZenonT(30)
<1> QED
  BY <1>2, <1>4, <1>7

\* updateRecord does not touch the deletion mark.
LEMMA UpdatedPage ==
  ASSUME NEW P \in GoodPages, NEW i \in 1 .. Len(P.slots), P.slots[i].length # 0,
         NEW v \in Values, NEW t, NEW may
  PROVE  /\ Updated(P, i, v) \in GoodPages
         /\ KeptPage(P, Updated(P, i, v), t, may)
<1> DEFINE r == [P.slots[i].record EXCEPT !.value = v]
           b == [P.slots[i] EXCEPT !.length = calculateRecordSize(v), !.record = r]
<1>1. P.slots[i] \in Slot /\ P.slots[i].record \in Record
  BY PageParts
<1>2. r \in Record /\ r.deleteTxnId = P.slots[i].record.deleteTxnId
  BY <1>1 DEF Record
<1>3. WithSlot(P, Updated(P, i, v), i, b)
  <2>1. P.slots \in Seq(Slot) /\ i \in DOMAIN P.slots
    BY PageParts
  <2> QED
    BY <1>1, <2>1, PageParts, Zenon DEF Updated, Slot, WithSlot
<1> HIDE DEF r
<1>4. b \in Slot /\ b.record = r /\ b.length = calculateRecordSize(v)
  <2> DEFINE u == [P.slots[i] EXCEPT !.length = calculateRecordSize(v)]
  <2>1. u \in Slot /\ u.length = calculateRecordSize(v)
    BY <1>1, Size DEF Slot
  <2>2. b = [u EXCEPT !.record = r]
    OBVIOUS
  <2> HIDE DEF u, b
  <2> QED
    BY <1>2, <2>1, <2>2 DEF Slot
<1> HIDE DEF b
<1>5. KeptSlot(P.slots[i], b, t, may)
  BY <1>2, <1>4, Size DEF KeptSlot
<1>6. b.record \in Record
  BY <1>2, <1>4
<1>7. b \in Slot
  BY <1>4
<1> QED
  BY <1>3, <1>5, <1>6, <1>7, SlotChanged, Zenon

\* cleanupTable on one page.
LEMMA EmptiedPage ==
  ASSUME NEW P \in GoodPages, NEW S
  PROVE  Emptied(P, S) \in GoodPages
<1> DEFINE empty == [offset |-> 0, length |-> 0, record |-> NoRecord]
           slots == [i \in 1 .. Len(P.slots) |-> IF i \in S THEN empty ELSE P.slots[i]]
<1>1. Emptied(P, S) = [P EXCEPT !.slots = slots]
  BY Zenon DEF Emptied, SlotIndexes, slotCount
<1>2. empty \in Slot /\ empty.length = 0
  BY DEF Slot
<1> HIDE DEF empty
<1>3. /\ slots \in Seq(Slot) /\ Len(slots) = Len(P.slots)
      /\ \A i \in 1 .. Len(P.slots) : slots[i] = empty \/ slots[i] = P.slots[i]
  BY <1>2, PageParts
<1> HIDE DEF slots
<1>4. \A i \in 1 .. Len(slots) : slots[i].length # 0 => slots[i].record \in Record
  <2>1. \A k \in 1 .. Len(P.slots) : P.slots[k].length # 0 => P.slots[k].record \in Record
    BY PageParts
  <2> QED
    BY <1>2, <1>3, <2>1
<1> QED
  BY <1>1, <1>3, <1>4, PageWith, Zenon

\* A new page, and one that was never written.
LEMMA NewPages == EmptyPage \in GoodPages /\ ZeroPage \in GoodPages
<1>1. EmptyPage \in Page /\ EmptyPage.slots = << >>
  BY DEF EmptyPage, Page, PAGE_SIZE, PageHeaderSize, INVALID_PAGE_ID
<1>2. ZeroPage \in Page /\ ZeroPage.slots = << >>
  BY DEF ZeroPage, Page, INVALID_PAGE_ID
<1>3. \A i \in 1 .. Len(<< >>) : FALSE
  OBVIOUS
<1> QED
  BY <1>1, <1>2, <1>3 DEF GoodPages

-----------------------------------------------------------------------------
\* The states in which a statement can be.

\* The slot of an undone deletion has no other mark than that of the transaction.
UndoSafe(u, C, t) ==
  /\ u.page \in 1 .. Len(C)
  /\ u.slot \in 1 .. Len(C[u.page].slots)
  /\ C[u.page].slots[u.slot].length # 0 =>
       C[u.page].slots[u.slot].record.deleteTxnId \in {INVALID_TXN_ID, t}

\* The deletions in an undo log are safe to take back.
UndoHolds(list, C, t) ==
  \A k \in 1 .. Len(list) : list[k].opType = "DELETE" => UndoSafe(list[k], C, t)

\* What a statement has done so far, as a type.
Work == [pages : Seq(GoodPages), undo : Seq(UndoRecord), rowId : Nat, updateRowId : Nat,
         failed : BOOLEAN]

\* What a statement has done so far has kept the deletions before it.
Sound(s) ==
  /\ s \in Work
  /\ KeptChain(pages, s.pages, TxnId, {INVALID_TXN_ID})
  /\ SessionActive => UndoHolds(s.undo, s.pages, TxnId)

\* The states of a statement that have it.
Sounds == {s \in Work : Sound(s)}

\* The inductive invariant.  The last conjunct is what makes ROLLBACK harmless: each
\* deletion it is going to take back is still the transaction's own.
TableInv ==
  /\ TypeOK
  /\ pages \in Seq(GoodPages)
  /\ disk \in [pages : Seq(GoodPages), nextRowId : Nat]
  /\ SessionActive => UndoHolds(undo, pages, currentTxn)

\* The parts of such a state.
LEMMA WorkParts ==
  ASSUME NEW s \in Work
  PROVE  /\ s.pages \in Seq(GoodPages) /\ s.undo \in Seq(UndoRecord)
         /\ s.rowId \in Nat /\ s.updateRowId \in Nat
         /\ Len(s.pages) \in Nat /\ DOMAIN s.pages = 1 .. Len(s.pages)
         /\ \A p \in 1 .. Len(s.pages) : s.pages[p] \in GoodPages
<1>1. /\ s.pages \in Seq(GoodPages) /\ s.undo \in Seq(UndoRecord)
      /\ s.rowId \in Nat /\ s.updateRowId \in Nat
  BY DEF Work
<1> QED
  BY <1>1

\* The id of a statement's transaction.
LEMMA TxnIdIs ==
  ASSUME TableInv
  PROVE  TxnId \in Nat /\ TxnId # INVALID_TXN_ID /\ (SessionActive => TxnId = currentTxn)
<1>1. txns \in Seq(TransactionStates) /\ currentTxn \in DOMAIN txns \cup {INVALID_TXN_ID}
  BY DEF TableInv, TypeOK
<1>2. Len(txns) \in Nat /\ DOMAIN txns = 1 .. Len(txns)
  BY <1>1
<1>3. SessionActive => currentTxn # INVALID_TXN_ID
  <2>1. 0 \notin DOMAIN txns
    BY <1>2
  <2> QED
    BY <2>1, Zenon DEF SessionActive, getTransactionState, INVALID_TXN_ID
<1> QED
  BY <1>1, <1>2, <1>3 DEF TxnId, AutoCommit, INVALID_TXN_ID

\* The undo log and what is done to the pages.
LEMMA UndoSafeKept ==
  ASSUME NEW u, NEW C \in Seq(GoodPages), NEW E \in Seq(GoodPages), NEW t, NEW may,
         UndoSafe(u, C, t), KeptChain(C, E, t, may)
  PROVE  UndoSafe(u, E, t)
<1>1. PICK p, i : p = u.page /\ i = u.slot
  BY Zenon
<1>2. /\ p \in 1 .. Len(C) /\ i \in 1 .. Len(C[p].slots)
      /\ C[p].slots[i].length # 0 => C[p].slots[i].record.deleteTxnId \in {INVALID_TXN_ID, t}
  BY <1>1, Zenon DEF UndoSafe
<1>3. Len(C) \in Nat /\ Len(E) \in Nat /\ Len(C) <= Len(E)
  BY DEF KeptChain
<1>4. C[p] \in GoodPages /\ E[p] \in GoodPages /\ KeptPage(C[p], E[p], t, may)
  BY <1>2, <1>3 DEF KeptChain
<1>5. Len(C[p].slots) \in Nat /\ Len(E[p].slots) \in Nat
  BY <1>4, PageParts
<1>6. Len(C[p].slots) <= Len(E[p].slots) /\ KeptSlot(C[p].slots[i], E[p].slots[i], t, may)
  BY <1>2, <1>4 DEF KeptPage
<1>7. p \in 1 .. Len(E) /\ i \in 1 .. Len(E[p].slots)
  BY <1>2, <1>3, <1>5, <1>6
<1>8. E[p].slots[i].length # 0 => E[p].slots[i].record.deleteTxnId \in {INVALID_TXN_ID, t}
  BY <1>2, <1>6, Zenon DEF KeptSlot
<1> QED
  BY <1>1, <1>7, <1>8, Zenon DEF UndoSafe

\* The same for the whole log.
LEMMA UndoKept ==
  ASSUME NEW list, NEW C \in Seq(GoodPages), NEW E \in Seq(GoodPages),
         NEW t, NEW may, UndoHolds(list, C, t), KeptChain(C, E, t, may)
  PROVE  UndoHolds(list, E, t)
BY UndoSafeKept, Zenon DEF UndoHolds

\* addUndoRecord after an insertion, an update or a deletion.
LEMMA AddUndoKept ==
  ASSUME NEW list \in Seq(UndoRecord), NEW r \in UndoRecord, NEW C, NEW t,
         SessionActive => UndoHolds(list, C, t),
         r.opType = "DELETE" => UndoSafe(r, C, t)
  PROVE  /\ AddUndo(list, r) \in Seq(UndoRecord)
         /\ SessionActive => UndoHolds(AddUndo(list, r), C, t)
<1>1. CASE ~SessionActive
  BY <1>1 DEF AddUndo
<1>2. CASE SessionActive
  <2>1. PICK new : new = Append(list, r)
    BY Zenon
  <2>2. /\ new \in Seq(UndoRecord) /\ Len(new) = Len(list) + 1 /\ Len(list) \in Nat
        /\ new[Len(list) + 1] = r /\ \A k \in 1 .. Len(list) : new[k] = list[k]
    BY <2>1
  <2>3. \A k \in 1 .. Len(new) : new[k] = r \/ (k \in 1 .. Len(list) /\ new[k] = list[k])
    BY <2>2
  <2>4. UndoHolds(new, C, t)
    BY <1>2, <2>3, Zenon DEF UndoHolds
  <2> QED
    BY <1>2, <2>1, <2>2, <2>4 DEF AddUndo
<1> QED
  BY <1>1, <1>2

-----------------------------------------------------------------------------
\* One row of a statement.

\* A statement that has done something to the pages and logged it.
LEMMA StaysSound ==
  ASSUME TableInv, NEW s, Sound(s), NEW w \in Work,
         KeptChain(s.pages, w.pages, TxnId, {INVALID_TXN_ID}),
         SessionActive => UndoHolds(w.undo, w.pages, TxnId)
  PROVE  Sound(w)
<1>1. pages \in Seq(GoodPages) /\ s.pages \in Seq(GoodPages) /\ w.pages \in Seq(GoodPages)
  BY WorkParts DEF TableInv, Sound
<1>2. KeptChain(pages, w.pages, TxnId, {INVALID_TXN_ID})
  BY <1>1, ChainTransitive DEF Sound
<1> QED
  BY <1>2 DEF Sound

\* The pages that end the search for room: the first one is one of them.
LEMMA FirstStop ==
  ASSUME NEW C \in Seq(GoodPages), NEW v, NEW f, Stops(C, v, f) # {}
  PROVE  Min(Stops(C, v, f)) \in Stops(C, v, f) /\ Min(Stops(C, v, f)) \in 1 .. Len(C)
<1>1. Stops(C, v, f) \subseteq 1 .. Len(C) /\ Len(C) \in Nat
  BY DEF Stops
<1>2. \E x \in Stops(C, v, f) : \A y \in Stops(C, v, f) : x <= y
  BY <1>1, LeastNumber
<1>3. Min(Stops(C, v, f)) \in Stops(C, v, f)
  BY <1>2 DEF Min
<1> QED
  BY <1>1, <1>3

\* The number of pages that are passed on the way.
LEMMA CountsPages ==
  ASSUME NEW C \in Seq(GoodPages), NEW S \in SUBSET (1 .. Len(C))
  PROVE  Cardinality(S) \in Nat /\ Cardinality(S) <= Len(C)
<1>1. Len(C) \in Nat
  OBVIOUS
<1>2. IsFiniteSet(1 .. Len(C)) /\ Cardinality(1 .. Len(C)) = Len(C)
  <2>1. 1 \in Int /\ Len(C) \in Int
    BY <1>1
  <2>2. /\ IsFiniteSet(1 .. Len(C))
        /\ Cardinality(1 .. Len(C)) = IF 1 > Len(C) THEN 0 ELSE Len(C) - 1 + 1
    BY <2>1, FS_Interval, Zenon
  <2> QED
    BY <1>1, <2>2
<1>3. IsFiniteSet(S) /\ Cardinality(S) <= Cardinality(1 .. Len(C))
  BY <1>2, FS_Subset, Zenon
<1> QED
  BY <1>2, <1>3, FS_CardinalityType

\* INSERT of one row, whatever fails.
LEMMA InsertRowSound ==
  ASSUME TableInv, NEW s, Sound(s), NEW v \in Values, NEW f
  PROVE  Sound(InsertRow(s, v, f))
<1> DEFINE stops == Stops(s.pages, v, f)
           p == Min(stops)
           passed == {q \in DOMAIN s.pages : \A x \in stops : q < x}
           rowId == s.rowId + Cardinality({q \in passed :
                                hasEnoughSpace(s.pages[q], calculateRecordSize(v))})
           record(x, i) == [opType |-> "INSERT", page |-> x, slot |-> i, old |-> NoRecord]
           fits == CanInsert(EmptyPage, v)
           new == IF fits THEN Inserted(EmptyPage, rowId, v, TxnId) ELSE EmptyPage
           newId == IF f.link THEN INVALID_PAGE_ID ELSE Len(s.pages) + 1
           w == InsertRow(s, v, f)
<1>1. s \in Work /\ s.pages \in Seq(GoodPages) /\ s.undo \in Seq(UndoRecord)
      /\ s.rowId \in Nat /\ s.updateRowId \in Nat /\ Len(s.pages) \in Nat
  BY WorkParts DEF Sound
<1>2. rowId \in Nat /\ rowId + 1 \in Nat
  <2>1. {q \in passed : hasEnoughSpace(s.pages[q], calculateRecordSize(v))} \in SUBSET (1 .. Len(s.pages))
    BY <1>1
  <2> QED
    BY <1>1, <2>1, CountsPages
<1>3. TxnId \in Nat
  BY TxnIdIs
<1>4. \A x \in Nat, i \in Nat : record(x, i) \in UndoRecord /\ record(x, i).opType # "DELETE"
  BY DEF UndoRecord
<1>5. SessionActive => UndoHolds(s.undo, s.pages, TxnId)
  BY DEF Sound
<1>6. [s EXCEPT !.failed = TRUE] \in Work /\ [s EXCEPT !.failed = TRUE].pages = s.pages
      /\ [s EXCEPT !.failed = TRUE].undo = s.undo
  BY <1>1, Zenon DEF Work
<1>7. Sound([s EXCEPT !.failed = TRUE])
  <2>1. PICK g : g = [s EXCEPT !.failed = TRUE]
    BY Zenon
  <2>2. g \in Work /\ g.pages = s.pages /\ g.undo = s.undo
    BY <1>6, <2>1, Zenon
  <2>3. Sound(g)
    BY <2>2 DEF Sound
  <2> QED
    BY <2>1, <2>3, Zenon
<1> HIDE DEF rowId
<1>8. CASE s.failed
  BY <1>8, Zenon DEF InsertRow
<1>9. CASE ~s.failed /\ stops # {}
  <2>1. p \in 1 .. Len(s.pages) /\ s.pages[p] \in GoodPages
    BY <1>1, <1>9, FirstStop
  <2> DEFINE Q == Inserted(s.pages[p], rowId, v, TxnId)
             C == [s.pages EXCEPT ![p] = Q]
             list == AddUndo(s.undo, record(p, slotCount(s.pages[p]) + 1))
  <2>2. CASE p \in f.unreadable
    <3>1. w = [s EXCEPT !.failed = TRUE]
      BY <1>9, <2>2, Zenon DEF InsertRow
    <3> QED
      BY <1>7, <3>1, Zenon
  <2>3. CASE p \notin f.unreadable
    <3>1. w = [s EXCEPT !.pages = C, !.undo = list, !.rowId = rowId + 1]
      BY <1>1, <1>9, <2>1, <2>3, Zenon DEF InsertRow, rowId, Work
    <3>2. C \in Seq(GoodPages) /\ KeptChain(s.pages, C, TxnId, {INVALID_TXN_ID})
      <4>1. Q \in GoodPages /\ KeptPage(s.pages[p], Q, TxnId, {INVALID_TXN_ID})
        BY <1>2, <1>3, <2>1, InsertedPage
      <4> HIDE DEF Q
      <4>2. WithPage(s.pages, C, p, Q)
        BY DEF WithPage
      <4> HIDE DEF C
      <4> QED
        BY <1>1, <2>1, <4>1, <4>2, ChainChanged
    <3> HIDE DEF C
    <3>3. SessionActive => UndoHolds(s.undo, C, TxnId)
      BY <1>1, <1>5, <3>2, UndoKept
    <3>4. record(p, slotCount(s.pages[p]) + 1) \in UndoRecord
          /\ record(p, slotCount(s.pages[p]) + 1).opType # "DELETE"
      BY <1>4, <2>1, PageParts DEF slotCount
    <3>5. list \in Seq(UndoRecord) /\ (SessionActive => UndoHolds(list, C, TxnId))
      <4> HIDE DEF record
      <4> QED
        BY <1>1, <3>3, <3>4, AddUndoKept, Zenon
    <3> HIDE DEF list
    <3>6. w \in Work /\ w.pages = C /\ w.undo = list
      BY <1>1, <1>2, <3>1, <3>2, <3>5, Zenon DEF Work
    <3> HIDE DEF w
    <3>7. Sound(w)
      BY <3>2, <3>5, <3>6, StaysSound, ZenonT(30)
    <3> QED
      BY <3>7 DEF w
  <2> QED
    BY <2>2, <2>3
<1>10. CASE ~s.failed /\ stops = {}
  <2> DEFINE C == IF f.link THEN s.pages ELSE Append(s.pages, new)
             list == IF fits THEN AddUndo(s.undo, record(newId, 1)) ELSE s.undo
  <2>1. CASE f.newPage
    <3>1. w = [s EXCEPT !.failed = TRUE]
      BY <1>10, <2>1, Zenon DEF InsertRow
    <3> QED
      BY <1>7, <3>1, Zenon
  <2>2. CASE ~f.newPage
    <3>1. w = [s EXCEPT !.pages = C, !.undo = list, !.rowId = rowId + 1, !.failed = ~fits]
      BY <1>1, <1>10, <2>2, Zenon DEF InsertRow, rowId, Work
    <3>2. C \in Seq(GoodPages) /\ KeptChain(s.pages, C, TxnId, {INVALID_TXN_ID})
      <4>1. new \in GoodPages
        BY <1>2, <1>3, NewPages, InsertedPage
      <4> HIDE DEF new
      <4> QED
        BY <1>1, <4>1, ChainLonger, SameChain
    <3> HIDE DEF C
    <3>3. SessionActive => UndoHolds(s.undo, C, TxnId)
      BY <1>1, <1>5, <3>2, UndoKept
    <3>4. record(newId, 1) \in UndoRecord /\ record(newId, 1).opType # "DELETE"
      BY <1>1, <1>4 DEF INVALID_PAGE_ID
    <3>5. list \in Seq(UndoRecord) /\ (SessionActive => UndoHolds(list, C, TxnId))
      <4> HIDE DEF record, fits
      <4> QED
        BY <1>1, <3>3, <3>4, AddUndoKept, Zenon
    <3> HIDE DEF list
    <3>6. w \in Work /\ w.pages = C /\ w.undo = list
      <4>1. (~fits) \in BOOLEAN
        OBVIOUS
      <4> HIDE DEF fits
      <4> QED
        BY <1>1, <1>2, <3>1, <3>2, <3>5, <4>1, Zenon DEF Work
    <3> HIDE DEF w
    <3>7. Sound(w)
      BY <3>2, <3>5, <3>6, StaysSound
    <3> QED
      BY <3>7 DEF w
  <2> QED
    BY <2>1, <2>2
<1> QED
  BY <1>8, <1>9, <1>10, Zenon

\* What UPDATE and DELETE have found.
Found == [page : 1 .. Len(pages), slot : Nat, old : Values]

\* The page of a row that was found is still there.
LEMMA FoundPage ==
  ASSUME TableInv, NEW s, Sound(s), NEW c \in Found
  PROVE  /\ s \in Work /\ s.pages \in Seq(GoodPages) /\ s.undo \in Seq(UndoRecord)
         /\ c.page \in 1 .. Len(s.pages) /\ c.page \in Nat /\ s.pages[c.page] \in GoodPages
         /\ c.slot \in Nat /\ c.old \in Values
<1>1. s \in Work /\ s.pages \in Seq(GoodPages) /\ s.undo \in Seq(UndoRecord) /\ Len(s.pages) \in Nat
  BY WorkParts DEF Sound
<1>2. c.page \in 1 .. Len(pages) /\ c.slot \in Nat /\ c.old \in Values
  BY DEF Found
<1>3. Len(pages) \in Nat /\ Len(pages) <= Len(s.pages)
  BY DEF Sound, KeptChain, TableInv
<1> QED
  BY <1>1, <1>2, <1>3

\* A live slot.
LEMMA LiveSlot ==
  ASSUME NEW P \in GoodPages, NEW i, IsLive(P, i)
  PROVE  /\ i \in 1 .. Len(P.slots) /\ P.slots[i].length # 0
         /\ P.slots[i].record.deleteTxnId = INVALID_TXN_ID
BY DEF IsLive, SlotIndexes, slotCount, IsUsed

\* Chain E is chain C with a mark of the statement in slot i of page p.
Marks(C, E, p, i) ==
  /\ E \in Seq(GoodPages) /\ KeptChain(C, E, TxnId, {INVALID_TXN_ID})
  /\ Len(E) = Len(C)
  /\ Len(E[p].slots) = Len(C[p].slots) /\ E[p].slots[i].record.deleteTxnId = TxnId

\* deleteRecord in a chain of pages.
LEMMA MarkedChain ==
  ASSUME TableInv, NEW C \in Seq(GoodPages), NEW p \in 1 .. Len(C), NEW i, IsLive(C[p], i),
         NEW E, WithPage(C, E, p, Deleted(C[p], i, TxnId))
  PROVE  Marks(C, E, p, i)
<1>0. PICK Q : Q = Deleted(C[p], i, TxnId)
  BY Zenon
<1>1. C[p] \in GoodPages
  OBVIOUS
<1>2. /\ i \in 1 .. Len(C[p].slots) /\ C[p].slots[i].length # 0
      /\ C[p].slots[i].record.deleteTxnId \in {INVALID_TXN_ID}
  BY <1>1, LiveSlot
<1>3. TxnId \in Nat
  BY TxnIdIs
<1>4. /\ Q \in GoodPages /\ KeptPage(C[p], Q, TxnId, {INVALID_TXN_ID})
      /\ Len(Q.slots) = Len(C[p].slots) /\ Q.slots[i].record.deleteTxnId = TxnId
  BY <1>0, <1>1, <1>2, <1>3, DeletedPage, Zenon
<1>5. /\ E \in Seq(GoodPages) /\ Len(E) = Len(C) /\ E[p] = Q
      /\ KeptChain(C, E, TxnId, {INVALID_TXN_ID})
  BY <1>0, <1>4, ChainChanged
<1> QED
  BY <1>4, <1>5 DEF Marks

\* DELETE of one row.
LEMMA DeleteRowSound ==
  ASSUME TableInv, NEW s, Sound(s), NEW c \in Found
  PROVE  Sound(DeleteRow(s, c))
<1>1. /\ s \in Work /\ s.pages \in Seq(GoodPages) /\ s.undo \in Seq(UndoRecord)
      /\ c.page \in 1 .. Len(s.pages) /\ c.page \in Nat /\ s.pages[c.page] \in GoodPages
      /\ c.slot \in Nat /\ c.old \in Values
  BY FoundPage
<1>2. CASE ~IsLive(s.pages[c.page], c.slot)
  BY <1>2, Zenon DEF DeleteRow
<1>3. CASE IsLive(s.pages[c.page], c.slot)
  <2> DEFINE r == [opType |-> "DELETE", page |-> c.page, slot |-> c.slot, old |-> c.old]
  <2>0. PICK Q : Q = Deleted(s.pages[c.page], c.slot, TxnId)
    BY Zenon
  <2>1. PICK C : C = [s.pages EXCEPT ![c.page] = Q]
    BY Zenon
  <2>2. PICK list : list = AddUndo(s.undo, r)
    BY Zenon
  <2>3. PICK w : w = DeleteRow(s, c)
    BY Zenon
  <2>4. w = [s EXCEPT !.pages = C, !.undo = list]
    BY <1>1, <1>3, <2>0, <2>1, <2>2, <2>3, Zenon DEF DeleteRow, Work
  <2>5. /\ C \in Seq(GoodPages) /\ KeptChain(s.pages, C, TxnId, {INVALID_TXN_ID})
        /\ Len(C) = Len(s.pages)
        /\ Len(C[c.page].slots) = Len(s.pages[c.page].slots)
        /\ C[c.page].slots[c.slot].record.deleteTxnId = TxnId
    <3>1. WithPage(s.pages, C, c.page, Deleted(s.pages[c.page], c.slot, TxnId))
      BY <2>0, <2>1, Zenon DEF WithPage
    <3>2. Marks(s.pages, C, c.page, c.slot)
      BY <1>1, <1>3, <3>1, MarkedChain, Zenon
    <3> QED
      BY <3>2, Zenon DEF Marks
  <2>6. SessionActive => UndoHolds(s.undo, C, TxnId)
    <3>1. SessionActive => UndoHolds(s.undo, s.pages, TxnId)
      BY DEF Sound
    <3> QED
      BY <1>1, <2>5, <3>1, UndoKept, Zenon
  <2>7. r \in UndoRecord /\ r.page = c.page /\ r.slot = c.slot
    BY <1>1 DEF UndoRecord
  <2>8. c.slot \in 1 .. Len(s.pages[c.page].slots)
    BY <1>1, <1>3, LiveSlot
  <2> HIDE DEF r
  <2>9. UndoSafe(r, C, TxnId)
    BY <1>1, <2>5, <2>7, <2>8, Zenon DEF UndoSafe
  <2>10. list \in Seq(UndoRecord) /\ (SessionActive => UndoHolds(list, C, TxnId))
    BY <1>1, <2>2, <2>6, <2>7, <2>9, AddUndoKept, Zenon
  <2>11. w \in Work /\ w.pages = C /\ w.undo = list
    BY <1>1, <2>4, <2>5, <2>10, Zenon DEF Work
  <2>12. Sound(w)
    BY <2>5, <2>10, <2>11, StaysSound, ZenonT(30)
  <2> QED
    BY <2>3, <2>12, Zenon
<1> QED
  BY <1>2, <1>3

\* UPDATE of one row: in place, by a new version, or not at all.
LEMMA UpdateRowSound ==
  ASSUME TableInv, NEW s, Sound(s), NEW c \in Found, NEW v \in Values, NEW f
  PROVE  Sound(UpdateRow(s, c, v, f))
<1>1. /\ s \in Work /\ s.pages \in Seq(GoodPages) /\ s.undo \in Seq(UndoRecord)
      /\ c.page \in 1 .. Len(s.pages) /\ c.page \in Nat /\ s.pages[c.page] \in GoodPages
      /\ c.slot \in Nat /\ c.old \in Values
  BY FoundPage
<1>2. PICK P : P = s.pages[c.page]
  BY Zenon
<1>3. PICK w : w = UpdateRow(s, c, v, f)
  BY Zenon
<1>4. TxnId \in Nat
  BY TxnIdIs
<1>5. SessionActive => UndoHolds(s.undo, s.pages, TxnId)
  BY DEF Sound
<1>6. CASE CanUpdate(P, c.slot, v)
  <2> DEFINE r == [opType |-> "UPDATE", page |-> c.page, slot |-> c.slot, old |-> c.old]
  <2>1. PICK Q : Q = Updated(P, c.slot, v)
    BY Zenon
  <2>2. PICK C : C = [s.pages EXCEPT ![c.page] = Q]
    BY Zenon
  <2>3. PICK list : list = AddUndo(s.undo, r)
    BY Zenon
  <2>4. w = [s EXCEPT !.pages = C, !.undo = list]
    BY <1>1, <1>2, <1>3, <1>6, <2>1, <2>2, <2>3, Zenon DEF UpdateRow, Work
  <2>5. c.slot \in 1 .. Len(P.slots) /\ P.slots[c.slot].length # 0
    BY <1>1, <1>2, <1>6, LiveSlot DEF CanUpdate
  <2>6. Q \in GoodPages /\ KeptPage(P, Q, TxnId, {INVALID_TXN_ID})
    BY <1>1, <1>2, <2>1, <2>5, UpdatedPage, ZenonT(30)
  <2>7. C \in Seq(GoodPages) /\ KeptChain(s.pages, C, TxnId, {INVALID_TXN_ID})
    <3>1. WithPage(s.pages, C, c.page, Q)
      BY <2>2 DEF WithPage
    <3> QED
      BY <1>1, <1>2, <2>6, <3>1, ChainChanged
  <2>8. SessionActive => UndoHolds(s.undo, C, TxnId)
    BY <1>1, <1>5, <2>7, UndoKept
  <2>9. r \in UndoRecord /\ r.opType # "DELETE"
    BY <1>1 DEF UndoRecord
  <2> HIDE DEF r
  <2>10. list \in Seq(UndoRecord) /\ (SessionActive => UndoHolds(list, C, TxnId))
    BY <1>1, <2>3, <2>8, <2>9, AddUndoKept, Zenon
  <2>11. w \in Work /\ w.pages = C /\ w.undo = list
    BY <1>1, <2>4, <2>7, <2>10, Zenon DEF Work
  <2> QED
    BY <1>3, <2>7, <2>10, <2>11, StaysSound, ZenonT(30)
<1>7. CASE ~CanUpdate(P, c.slot, v) /\ IsLive(P, c.slot)
  <2>1. PICK C : C = [s.pages EXCEPT ![c.page] = Deleted(P, c.slot, TxnId)]
    BY Zenon
  <2>2. C \in Seq(GoodPages) /\ KeptChain(s.pages, C, TxnId, {INVALID_TXN_ID})
    <3>1. WithPage(s.pages, C, c.page, Deleted(s.pages[c.page], c.slot, TxnId))
      BY <1>2, <2>1, Zenon DEF WithPage
    <3>2. IsLive(s.pages[c.page], c.slot)
      BY <1>2, <1>7, Zenon
    <3>3. Marks(s.pages, C, c.page, c.slot)
      BY <1>1, <3>1, <3>2, MarkedChain, Zenon
    <3> QED
      BY <3>3, Zenon DEF Marks
  <2>3. PICK marked : marked = [s EXCEPT !.pages[c.page] = Deleted(P, c.slot, TxnId),
                                         !.updateRowId = @ + 1]
    BY Zenon
  <2>4. s.updateRowId + 1 \in Nat /\ FirstUpdateRowId + s.updateRowId \in Nat
    BY <1>1, WorkParts DEF FirstUpdateRowId
  <2>5. marked = [s EXCEPT !.pages = C, !.updateRowId = s.updateRowId + 1]
    BY <1>1, <2>1, <2>3, Zenon DEF Work
  <2>6. marked \in Work /\ marked.pages = C /\ marked.undo = s.undo
    BY <1>1, <2>2, <2>4, <2>5, Zenon DEF Work
  <2>7. SessionActive => UndoHolds(s.undo, C, TxnId)
    BY <1>1, <1>5, <2>2, UndoKept
  <2>8. Sound(marked)
    BY <2>2, <2>6, <2>7, StaysSound, ZenonT(30)
  <2>9. PICK stops : stops = Stops(C, v, f)
    BY Zenon
  <2>10. CASE stops = {} \/ Min(stops) \in f.unreadable
    <3>1. w = marked
      BY <1>2, <1>3, <1>7, <2>3, <2>6, <2>9, <2>10, Zenon DEF UpdateRow
    <3> QED
      BY <1>3, <2>8, <3>1
  <2>11. CASE ~(stops = {} \/ Min(stops) \in f.unreadable)
    <3>1. PICK Q : Q = Inserted(C[Min(stops)], FirstUpdateRowId + s.updateRowId, v, TxnId)
      BY Zenon
    <3>2. PICK E : E = [C EXCEPT ![Min(stops)] = Q]
      BY Zenon
    <3>3. Min(stops) \in 1 .. Len(C) /\ C[Min(stops)] \in GoodPages
      BY <2>2, <2>9, <2>11, FirstStop
    <3>4. Q \in GoodPages /\ KeptPage(C[Min(stops)], Q, TxnId, {INVALID_TXN_ID})
      BY <1>4, <2>4, <3>1, <3>3, InsertedPage, ZenonT(30)
    <3>5. E \in Seq(GoodPages) /\ KeptChain(C, E, TxnId, {INVALID_TXN_ID})
      <4>1. WithPage(C, E, Min(stops), Q)
        BY <3>2 DEF WithPage
      <4> QED
        BY <2>2, <3>3, <3>4, <4>1, ChainChanged
    <3>6. w = [marked EXCEPT !.pages[Min(stops)] = Q]
      BY <1>2, <1>3, <1>7, <2>3, <2>6, <2>9, <2>11, <3>1, Zenon DEF UpdateRow
    <3>7. w = [marked EXCEPT !.pages = E]
      BY <2>6, <3>2, <3>6, Zenon DEF Work
    <3>8. w \in Work /\ w.pages = E /\ w.undo = s.undo
      BY <2>6, <3>5, <3>7, Zenon DEF Work
    <3>9. SessionActive => UndoHolds(s.undo, E, TxnId)
      BY <2>2, <2>7, <3>5, UndoKept
    <3> QED
      BY <1>3, <2>6, <2>8, <3>5, <3>8, <3>9, StaysSound, ZenonT(30)
  <2> QED
    BY <2>10, <2>11
<1>8. CASE ~CanUpdate(P, c.slot, v) /\ ~IsLive(P, c.slot)
  BY <1>2, <1>8, Zenon DEF UpdateRow
<1> QED
  BY <1>3, <1>6, <1>7, <1>8

\* A statement starts from the table as it is.
LEMMA StartSound ==
  ASSUME TableInv
  PROVE  StartOf \in Sounds
<1>1. /\ pages \in Seq(GoodPages) /\ undo \in Seq(UndoRecord) /\ nextRowId \in Nat
      /\ updateRowId \in Nat /\ (SessionActive => UndoHolds(undo, pages, currentTxn))
  BY DEF TableInv, TypeOK
<1>2. StartOf \in Work /\ StartOf.pages = pages /\ StartOf.undo = undo
  BY <1>1 DEF StartOf, Work
<1>3. KeptChain(pages, StartOf.pages, TxnId, {INVALID_TXN_ID})
  BY <1>1, <1>2, SameChain
<1>4. SessionActive => TxnId = currentTxn
  BY TxnIdIs
<1> QED
  BY <1>1, <1>2, <1>3, <1>4 DEF Sounds, Sound

\* INSERT of several rows.
LEMMA InsertRowsSound ==
  ASSUME TableInv, NEW rows \in Seq(Values), NEW faults
  PROVE  Sound(InsertRows(rows, faults))
<1> DEFINE next(s, k) == InsertRow(s, rows[k], faults)
           IsRun(f) == f = [k \in 0 .. Len(rows) |-> IF k = 0 THEN StartOf ELSE next(f[k - 1], k)]
<1>1. Len(rows) \in Nat /\ \A k \in 1 .. Len(rows) : rows[k] \in Values
  OBVIOUS
<1>2. PICK n \in Nat : n = Len(rows)
  BY <1>1, Zenon
<1>3. \A s \in Sounds, k \in 1 .. n : next(s, k) \in Sounds
  BY <1>1, <1>2, InsertRowSound, Zenon DEF Sounds, Sound
<1>4. StartOf \in Sounds
  BY StartSound
<1>5. InsertRows(rows, faults) = (CHOOSE f : IsRun(f))[n]
  BY <1>2 DEF InsertRows
<1> HIDE DEF next
<1> DEFINE step == [k \in 1 .. n |-> [s \in Sounds |-> next(s, k)]]
<1>6. PICK f : StepByStep(f, Sounds, StartOf, n, step)
  <2>1. step \in [1 .. n -> [Sounds -> Sounds]]
    BY <1>3
  <2> HIDE DEF step
  <2> QED
    BY <1>4, <2>1, RunExists, Zenon
<1>7. \A i \in 1 .. n : i \in 0 .. n /\ i - 1 \in 0 .. n /\ i # 0
  OBVIOUS
<1>8. 0 \in 0 .. n /\ n \in 0 .. n /\ \A i \in 0 .. n : i = 0 \/ i \in 1 .. n
  OBVIOUS
<1>9. IsRun(f)
  <2>1. \A i \in 1 .. n : \A s \in Sounds : step[i][s] = next(s, i)
    BY Zenon
  <2> HIDE DEF step
  <2>2. \A i \in 1 .. n : f[i] = next(f[i - 1], i)
    BY <1>6, <1>7, <2>1, Zenon DEF StepByStep
  <2>3. \A i \in 0 .. n : f[i] = IF i = 0 THEN StartOf ELSE next(f[i - 1], i)
    BY <1>6, <1>8, <2>2, Zenon DEF StepByStep
  <2>4. f = [i \in 0 .. n |-> f[i]]
    BY <1>6, Zenon DEF StepByStep
  <2> QED
    BY <1>2, <2>3, <2>4, Zenon
<1>10. PICK g : g = CHOOSE h : IsRun(h)
  BY Zenon
<1>11. g = [k \in 0 .. n |-> IF k = 0 THEN StartOf ELSE next(g[k - 1], k)]
  BY <1>2, <1>9, <1>10, Zenon
<1>12. g[0] = StartOf /\ \A i \in 1 .. n : g[i] = next(g[i - 1], i)
  BY <1>7, <1>8, <1>11, Zenon
<1>13. \A i \in 1 .. n : g[i - 1] \in Sounds => g[i] \in Sounds
  BY <1>3, <1>12, Zenon
<1>14. \A i \in 0 .. n : g[i] \in Sounds
  BY <1>4, <1>12, <1>13, RunStays, Zenon
<1> QED
  BY <1>5, <1>8, <1>10, <1>14, Zenon DEF Sounds

\* UPDATE of several rows.
LEMMA UpdateRowsSound ==
  ASSUME TableInv, NEW list \in Seq(Found), NEW v \in Values, NEW faults
  PROVE  Sound(UpdateRows(list, v, faults))
<1> DEFINE next(s, k) == UpdateRow(s, list[k], v, faults)
           IsRun(f) == f = [k \in 0 .. Len(list) |-> IF k = 0 THEN StartOf ELSE next(f[k - 1], k)]
<1>1. Len(list) \in Nat /\ \A k \in 1 .. Len(list) : list[k] \in Found
  OBVIOUS
<1>2. PICK n \in Nat : n = Len(list)
  BY <1>1, Zenon
<1>3. \A s \in Sounds, k \in 1 .. n : next(s, k) \in Sounds
  BY <1>1, <1>2, UpdateRowSound, Zenon DEF Sounds, Sound
<1>4. StartOf \in Sounds
  BY StartSound
<1>5. UpdateRows(list, v, faults) = (CHOOSE f : IsRun(f))[n]
  BY <1>2 DEF UpdateRows
<1> HIDE DEF next
<1> DEFINE step == [k \in 1 .. n |-> [s \in Sounds |-> next(s, k)]]
<1>6. PICK f : StepByStep(f, Sounds, StartOf, n, step)
  <2>1. step \in [1 .. n -> [Sounds -> Sounds]]
    BY <1>3
  <2> HIDE DEF step
  <2> QED
    BY <1>4, <2>1, RunExists, Zenon
<1>7. \A i \in 1 .. n : i \in 0 .. n /\ i - 1 \in 0 .. n /\ i # 0
  OBVIOUS
<1>8. 0 \in 0 .. n /\ n \in 0 .. n /\ \A i \in 0 .. n : i = 0 \/ i \in 1 .. n
  OBVIOUS
<1>9. IsRun(f)
  <2>1. \A i \in 1 .. n : \A s \in Sounds : step[i][s] = next(s, i)
    BY Zenon
  <2> HIDE DEF step
  <2>2. \A i \in 1 .. n : f[i] = next(f[i - 1], i)
    BY <1>6, <1>7, <2>1, Zenon DEF StepByStep
  <2>3. \A i \in 0 .. n : f[i] = IF i = 0 THEN StartOf ELSE next(f[i - 1], i)
    BY <1>6, <1>8, <2>2, Zenon DEF StepByStep
  <2>4. f = [i \in 0 .. n |-> f[i]]
    BY <1>6, Zenon DEF StepByStep
  <2> QED
    BY <1>2, <2>3, <2>4, Zenon
<1>10. PICK g : g = CHOOSE h : IsRun(h)
  BY Zenon
<1>11. g = [k \in 0 .. n |-> IF k = 0 THEN StartOf ELSE next(g[k - 1], k)]
  BY <1>2, <1>9, <1>10, Zenon
<1>12. g[0] = StartOf /\ \A i \in 1 .. n : g[i] = next(g[i - 1], i)
  BY <1>7, <1>8, <1>11, Zenon
<1>13. \A i \in 1 .. n : g[i - 1] \in Sounds => g[i] \in Sounds
  BY <1>3, <1>12, Zenon
<1>14. \A i \in 0 .. n : g[i] \in Sounds
  BY <1>4, <1>12, <1>13, RunStays, Zenon
<1> QED
  BY <1>5, <1>8, <1>10, <1>14, Zenon DEF Sounds

\* DELETE of several rows.
LEMMA DeleteRowsSound ==
  ASSUME TableInv, NEW list \in Seq(Found)
  PROVE  Sound(DeleteRows(list))
<1> DEFINE next(s, k) == DeleteRow(s, list[k])
           IsRun(f) == f = [k \in 0 .. Len(list) |-> IF k = 0 THEN StartOf ELSE next(f[k - 1], k)]
<1>1. Len(list) \in Nat /\ \A k \in 1 .. Len(list) : list[k] \in Found
  OBVIOUS
<1>2. PICK n \in Nat : n = Len(list)
  BY <1>1, Zenon
<1>3. \A s \in Sounds, k \in 1 .. n : next(s, k) \in Sounds
  BY <1>1, <1>2, DeleteRowSound, Zenon DEF Sounds, Sound
<1>4. StartOf \in Sounds
  BY StartSound
<1>5. DeleteRows(list) = (CHOOSE f : IsRun(f))[n]
  BY <1>2 DEF DeleteRows
<1> HIDE DEF next
<1> DEFINE step == [k \in 1 .. n |-> [s \in Sounds |-> next(s, k)]]
<1>6. PICK f : StepByStep(f, Sounds, StartOf, n, step)
  <2>1. step \in [1 .. n -> [Sounds -> Sounds]]
    BY <1>3
  <2> HIDE DEF step
  <2> QED
    BY <1>4, <2>1, RunExists, Zenon
<1>7. \A i \in 1 .. n : i \in 0 .. n /\ i - 1 \in 0 .. n /\ i # 0
  OBVIOUS
<1>8. 0 \in 0 .. n /\ n \in 0 .. n /\ \A i \in 0 .. n : i = 0 \/ i \in 1 .. n
  OBVIOUS
<1>9. IsRun(f)
  <2>1. \A i \in 1 .. n : \A s \in Sounds : step[i][s] = next(s, i)
    BY Zenon
  <2> HIDE DEF step
  <2>2. \A i \in 1 .. n : f[i] = next(f[i - 1], i)
    BY <1>6, <1>7, <2>1, Zenon DEF StepByStep
  <2>3. \A i \in 0 .. n : f[i] = IF i = 0 THEN StartOf ELSE next(f[i - 1], i)
    BY <1>6, <1>8, <2>2, Zenon DEF StepByStep
  <2>4. f = [i \in 0 .. n |-> f[i]]
    BY <1>6, Zenon DEF StepByStep
  <2> QED
    BY <1>2, <2>3, <2>4, Zenon
<1>10. PICK g : g = CHOOSE h : IsRun(h)
  BY Zenon
<1>11. g = [k \in 0 .. n |-> IF k = 0 THEN StartOf ELSE next(g[k - 1], k)]
  BY <1>2, <1>9, <1>10, Zenon
<1>12. g[0] = StartOf /\ \A i \in 1 .. n : g[i] = next(g[i - 1], i)
  BY <1>7, <1>8, <1>11, Zenon
<1>13. \A i \in 1 .. n : g[i - 1] \in Sounds => g[i] \in Sounds
  BY <1>3, <1>12, Zenon
<1>14. \A i \in 0 .. n : g[i] \in Sounds
  BY <1>4, <1>12, <1>13, RunStays, Zenon
<1> QED
  BY <1>5, <1>8, <1>10, <1>14, Zenon DEF Sounds

\* getAllRecords returns a list.
LEMMA AllRecordsList ==
  ASSUME NEW P \in GoodPages
  PROVE  getAllRecords(P) \in Seq(Nat)
<1> DEFINE next(s, k) == IF IsListed(P, k) THEN Append(s, k) ELSE s
           IsRun(f) == f = [k \in 0 .. slotCount(P) |-> IF k = 0 THEN << >> ELSE next(f[k - 1], k)]
<1>1. slotCount(P) \in Nat
  BY PageParts DEF slotCount
<1>2. PICK n \in Nat : n = slotCount(P)
  BY <1>1, Zenon
<1>3. \A s \in Seq(Nat), k \in 1 .. n : next(s, k) \in Seq(Nat)
  OBVIOUS
<1>4. << >> \in Seq(Nat)
  OBVIOUS
<1>5. getAllRecords(P) = (CHOOSE f : IsRun(f))[n]
  BY <1>2 DEF getAllRecords
<1> HIDE DEF next
<1> DEFINE step == [k \in 1 .. n |-> [s \in Seq(Nat) |-> next(s, k)]]
<1>6. PICK f : StepByStep(f, Seq(Nat), << >>, n, step)
  <2>1. step \in [1 .. n -> [Seq(Nat) -> Seq(Nat)]]
    BY <1>3
  <2> HIDE DEF step
  <2> QED
    BY <1>4, <2>1, RunExists, Zenon
<1>7. \A i \in 1 .. n : i \in 0 .. n /\ i - 1 \in 0 .. n /\ i # 0
  OBVIOUS
<1>8. 0 \in 0 .. n /\ n \in 0 .. n /\ \A i \in 0 .. n : i = 0 \/ i \in 1 .. n
  OBVIOUS
<1>9. IsRun(f)
  <2>1. \A i \in 1 .. n : \A s \in Seq(Nat) : step[i][s] = next(s, i)
    BY Zenon
  <2> HIDE DEF step
  <2>2. \A i \in 1 .. n : f[i] = next(f[i - 1], i)
    BY <1>6, <1>7, <2>1, Zenon DEF StepByStep
  <2>3. \A i \in 0 .. n : f[i] = IF i = 0 THEN << >> ELSE next(f[i - 1], i)
    BY <1>6, <1>8, <2>2, Zenon DEF StepByStep
  <2>4. f = [i \in 0 .. n |-> f[i]]
    BY <1>6, Zenon DEF StepByStep
  <2> QED
    BY <1>2, <2>3, <2>4, Zenon
<1>10. PICK g : g = CHOOSE h : IsRun(h)
  BY Zenon
<1>11. g = [k \in 0 .. n |-> IF k = 0 THEN << >> ELSE next(g[k - 1], k)]
  BY <1>2, <1>9, <1>10, Zenon
<1>12. g[0] = << >> /\ \A i \in 1 .. n : g[i] = next(g[i - 1], i)
  BY <1>7, <1>8, <1>11, Zenon
<1>13. \A i \in 1 .. n : g[i - 1] \in Seq(Nat) => g[i] \in Seq(Nat)
  BY <1>3, <1>12, Zenon
<1>14. \A i \in 0 .. n : g[i] \in Seq(Nat)
  BY <1>4, <1>12, <1>13, RunStays, Zenon
<1> QED
  BY <1>5, <1>8, <1>10, <1>14, Zenon

\* What UPDATE and DELETE find on a page.
LEMMA PageCandidatesList ==
  ASSUME TableInv, NEW where \in SUBSET Values, NEW p \in 1 .. Len(pages)
  PROVE  PageCandidates(p, where) \in Seq(Found)
<1> DEFINE listed == getAllRecords(pages[p])
           record(i) == pages[p].slots[listed[i]].record
           found(i) == isVisible(Begun, record(i), currentTxn) /\ record(i).value \in where
           new(i) == [page |-> p, slot |-> i, old |-> record(i).value]
<1> DEFINE next(s, k) == IF found(k) THEN Append(s, new(k)) ELSE s
           IsRun(f) == f = [k \in 0 .. Len(listed) |-> IF k = 0 THEN << >> ELSE next(f[k - 1], k)]
<1>1. Len(listed) \in Nat
  <2>1. pages[p] \in GoodPages
    BY DEF TableInv
  <2> QED
    BY <2>1, AllRecordsList
<1>2. PICK n \in Nat : n = Len(listed)
  BY <1>1, Zenon
<1>3. \A s \in Seq(Found), k \in 1 .. n : next(s, k) \in Seq(Found)
  <2>1. \A k \in 1 .. n : found(k) => new(k) \in Found
    BY <1>1, <1>2 DEF Found
  <2> HIDE DEF found, new
  <2> QED
    BY <2>1
<1>4. << >> \in Seq(Found)
  OBVIOUS
<1>5. PageCandidates(p, where) = (CHOOSE f : IsRun(f))[n]
  BY <1>2 DEF PageCandidates
<1> HIDE DEF next
<1> DEFINE step == [k \in 1 .. n |-> [s \in Seq(Found) |-> next(s, k)]]
<1>6. PICK f : StepByStep(f, Seq(Found), << >>, n, step)
  <2>1. step \in [1 .. n -> [Seq(Found) -> Seq(Found)]]
    BY <1>3
  <2> HIDE DEF step
  <2> QED
    BY <1>4, <2>1, RunExists, Zenon
<1>7. \A i \in 1 .. n : i \in 0 .. n /\ i - 1 \in 0 .. n /\ i # 0
  OBVIOUS
<1>8. 0 \in 0 .. n /\ n \in 0 .. n /\ \A i \in 0 .. n : i = 0 \/ i \in 1 .. n
  OBVIOUS
<1>9. IsRun(f)
  <2>1. \A i \in 1 .. n : \A s \in Seq(Found) : step[i][s] = next(s, i)
    BY Zenon
  <2> HIDE DEF step
  <2>2. \A i \in 1 .. n : f[i] = next(f[i - 1], i)
    BY <1>6, <1>7, <2>1, Zenon DEF StepByStep
  <2>3. \A i \in 0 .. n : f[i] = IF i = 0 THEN << >> ELSE next(f[i - 1], i)
    BY <1>6, <1>8, <2>2, Zenon DEF StepByStep
  <2>4. f = [i \in 0 .. n |-> f[i]]
    BY <1>6, Zenon DEF StepByStep
  <2> QED
    BY <1>2, <2>3, <2>4, Zenon
<1>10. PICK g : g = CHOOSE h : IsRun(h)
  BY Zenon
<1>11. g = [k \in 0 .. n |-> IF k = 0 THEN << >> ELSE next(g[k - 1], k)]
  BY <1>2, <1>9, <1>10, Zenon
<1>12. g[0] = << >> /\ \A i \in 1 .. n : g[i] = next(g[i - 1], i)
  BY <1>7, <1>8, <1>11, Zenon
<1>13. \A i \in 1 .. n : g[i - 1] \in Seq(Found) => g[i] \in Seq(Found)
  BY <1>3, <1>12, Zenon
<1>14. \A i \in 0 .. n : g[i] \in Seq(Found)
  BY <1>4, <1>12, <1>13, RunStays, Zenon
<1> QED
  BY <1>5, <1>8, <1>10, <1>14, Zenon

\* What they find on all the pages that can be read.
LEMMA CandidatesList ==
  ASSUME TableInv, NEW where \in SUBSET Values, NEW faults
  PROVE  Candidates(where, faults) \in Seq(Found)
<1> DEFINE last == Cardinality(Scanned(faults))
<1> DEFINE next(s, k) == s \o PageCandidates(k, where)
           IsRun(f) == f = [k \in 0 .. last |-> IF k = 0 THEN << >> ELSE next(f[k - 1], k)]
<1>1. last \in Nat /\ last <= Len(pages) /\ Len(pages) \in Nat
  <2>1. pages \in Seq(GoodPages) /\ Scanned(faults) \in SUBSET (1 .. Len(pages))
    BY DEF TableInv, Scanned
  <2> QED
    BY <2>1, CountsPages
<1>2. PICK n \in Nat : n = last
  BY <1>1, Zenon
<1>3. \A s \in Seq(Found), k \in 1 .. n : next(s, k) \in Seq(Found)
  <2>1. \A k \in 1 .. n : PageCandidates(k, where) \in Seq(Found)
    BY <1>1, <1>2, PageCandidatesList
  <2> QED
    BY <2>1
<1>4. << >> \in Seq(Found)
  OBVIOUS
<1>5. Candidates(where, faults) = (CHOOSE f : IsRun(f))[n]
  BY <1>2 DEF Candidates
<1> HIDE DEF next
<1> DEFINE step == [k \in 1 .. n |-> [s \in Seq(Found) |-> next(s, k)]]
<1>6. PICK f : StepByStep(f, Seq(Found), << >>, n, step)
  <2>1. step \in [1 .. n -> [Seq(Found) -> Seq(Found)]]
    BY <1>3
  <2> HIDE DEF step
  <2> QED
    BY <1>4, <2>1, RunExists, Zenon
<1>7. \A i \in 1 .. n : i \in 0 .. n /\ i - 1 \in 0 .. n /\ i # 0
  OBVIOUS
<1>8. 0 \in 0 .. n /\ n \in 0 .. n /\ \A i \in 0 .. n : i = 0 \/ i \in 1 .. n
  OBVIOUS
<1>9. IsRun(f)
  <2>1. \A i \in 1 .. n : \A s \in Seq(Found) : step[i][s] = next(s, i)
    BY Zenon
  <2> HIDE DEF step
  <2>2. \A i \in 1 .. n : f[i] = next(f[i - 1], i)
    BY <1>6, <1>7, <2>1, Zenon DEF StepByStep
  <2>3. \A i \in 0 .. n : f[i] = IF i = 0 THEN << >> ELSE next(f[i - 1], i)
    BY <1>6, <1>8, <2>2, Zenon DEF StepByStep
  <2>4. f = [i \in 0 .. n |-> f[i]]
    BY <1>6, Zenon DEF StepByStep
  <2> QED
    BY <1>2, <2>3, <2>4, Zenon
<1>10. PICK g : g = CHOOSE h : IsRun(h)
  BY Zenon
<1>11. g = [k \in 0 .. n |-> IF k = 0 THEN << >> ELSE next(g[k - 1], k)]
  BY <1>2, <1>9, <1>10, Zenon
<1>12. g[0] = << >> /\ \A i \in 1 .. n : g[i] = next(g[i - 1], i)
  BY <1>7, <1>8, <1>11, Zenon
<1>13. \A i \in 1 .. n : g[i - 1] \in Seq(Found) => g[i] \in Seq(Found)
  BY <1>3, <1>12, Zenon
<1>14. \A i \in 0 .. n : g[i] \in Seq(Found)
  BY <1>4, <1>12, <1>13, RunStays, Zenon
<1> QED
  BY <1>5, <1>8, <1>10, <1>14, Zenon

\* The pages while ROLLBACK undoes the current transaction: only its own marks
\* have changed.
Undoings == {C \in Seq(GoodPages) :
               /\ Len(C) = Len(pages)
               /\ KeptChain(pages, C, currentTxn, {INVALID_TXN_ID, currentTxn})}

\* A page changes and the deletions of others stay.
LEMMA UndoingChanged ==
  ASSUME TableInv, NEW C \in Undoings, NEW p \in 1 .. Len(C), NEW Q \in GoodPages,
         KeptPage(C[p], Q, currentTxn, {INVALID_TXN_ID, currentTxn}),
         NEW E, WithPage(C, E, p, Q)
  PROVE  E \in Undoings
<1>1. pages \in Seq(GoodPages) /\ C \in Seq(GoodPages) /\ Len(C) = Len(pages)
      /\ KeptChain(pages, C, currentTxn, {INVALID_TXN_ID, currentTxn})
  BY DEF TableInv, Undoings
<1>2. E \in Seq(GoodPages) /\ Len(E) = Len(C)
      /\ KeptChain(C, E, currentTxn, {INVALID_TXN_ID, currentTxn})
  BY <1>1, ChainChanged
<1>3. KeptChain(pages, E, currentTxn, {INVALID_TXN_ID, currentTxn})
  BY <1>1, <1>2, ChainTransitive
<1> QED
  BY <1>1, <1>2, <1>3 DEF Undoings

\* One undo record.
LEMMA UndoOneKeeps ==
  ASSUME TableInv, SessionActive, NEW C \in Undoings, NEW k \in 1 .. Len(undo), NEW faults
  PROVE  UndoOne(C, undo[k], faults) \in Undoings
<1>1. PICK u, p, i, P, w : /\ u = undo[k] /\ p = u.page /\ i = u.slot /\ P = C[p]
                           /\ w = UndoOne(C, u, faults)
  BY Zenon
<1>2. undo \in Seq(UndoRecord) /\ UndoHolds(undo, pages, currentTxn) /\ pages \in Seq(GoodPages)
  BY DEF TableInv, TypeOK
<1>3. u \in UndoRecord
  BY <1>1, <1>2
<1>4. currentTxn \in Nat
  BY TxnIdIs
<1>5. C \in Seq(GoodPages) /\ DOMAIN C = 1 .. Len(C)
      /\ KeptChain(pages, C, currentTxn, {INVALID_TXN_ID, currentTxn})
  BY DEF Undoings
<1>6. CASE p \notin DOMAIN C \ faults.unreadable
  BY <1>1, <1>6, Zenon DEF UndoOne
<1>7. CASE p \in DOMAIN C
  <2>1. P \in GoodPages /\ p \in 1 .. Len(C)
    BY <1>1, <1>5, <1>7
  <2>2. CASE u.opType = "INSERT" /\ IsLive(P, i)
    <3>1. PICK Q : Q = Deleted(P, i, currentTxn)
      BY Zenon
    <3>2. i \in 1 .. Len(P.slots) /\ P.slots[i].length # 0
          /\ P.slots[i].record.deleteTxnId \in {INVALID_TXN_ID, currentTxn}
      BY <2>1, <2>2, LiveSlot
    <3>3. Q \in GoodPages /\ KeptPage(P, Q, currentTxn, {INVALID_TXN_ID, currentTxn})
      BY <1>4, <2>1, <3>1, <3>2, DeletedPage, Zenon
    <3>4. w = C \/ WithPage(C, w, p, Q)
      BY <1>1, <2>2, <3>1, Zenon DEF UndoOne, WithPage
    <3> QED
      BY <1>1, <2>1, <3>3, <3>4, UndoingChanged, Zenon
  <2>3. CASE u.opType = "UPDATE" /\ CanUpdate(P, i, u.old)
    <3>1. PICK Q : Q = Updated(P, i, u.old)
      BY Zenon
    <3>2. i \in 1 .. Len(P.slots) /\ P.slots[i].length # 0
      BY <2>1, <2>3, LiveSlot DEF CanUpdate
    <3>3. u.old \in Values
      BY <1>3, <2>3 DEF UndoRecord
    <3>4. Q \in GoodPages /\ KeptPage(P, Q, currentTxn, {INVALID_TXN_ID, currentTxn})
      BY <2>1, <3>1, <3>2, <3>3, UpdatedPage, Zenon
    <3>5. w = C \/ WithPage(C, w, p, Q)
      BY <1>1, <2>3, <3>1, Zenon DEF UndoOne, WithPage
    <3> QED
      BY <1>1, <2>1, <3>4, <3>5, UndoingChanged, Zenon
  <2>4. CASE u.opType = "DELETE" /\ HasHeader(P, i)
    <3>1. PICK Q : Q = Deleted(P, i, INVALID_TXN_ID)
      BY Zenon
    <3>2. UndoSafe(u, C, currentTxn)
      <4>1. UndoHolds(undo, C, currentTxn)
        BY <1>2, <1>5, UndoKept
      <4> QED
        BY <1>1, <2>4, <4>1, Zenon DEF UndoHolds
    <3>3. i \in 1 .. Len(P.slots) /\ P.slots[i].length # 0
      BY <2>4 DEF HasHeader, SlotIndexes, slotCount, IsUsed
    <3>4. P.slots[i].record.deleteTxnId \in {INVALID_TXN_ID, currentTxn}
      BY <1>1, <3>2, <3>3, Zenon DEF UndoSafe
    <3>5. INVALID_TXN_ID \in Nat
      BY DEF INVALID_TXN_ID
    <3>6. Q \in GoodPages /\ KeptPage(P, Q, currentTxn, {INVALID_TXN_ID, currentTxn})
      BY <2>1, <3>1, <3>3, <3>4, <3>5, DeletedPage, Zenon
    <3>7. w = C \/ WithPage(C, w, p, Q)
      BY <1>1, <2>4, <3>1, Zenon DEF UndoOne, Undeleted, WithPage
    <3> QED
      BY <1>1, <2>1, <3>6, <3>7, UndoingChanged, Zenon
  <2>5. CASE /\ ~(u.opType = "INSERT" /\ IsLive(P, i))
             /\ ~(u.opType = "UPDATE" /\ CanUpdate(P, i, u.old))
             /\ ~(u.opType = "DELETE" /\ HasHeader(P, i))
    BY <1>1, <2>5, Zenon DEF UndoOne
  <2> QED
    BY <2>2, <2>3, <2>4, <2>5, Zenon
<1> QED
  BY <1>6, <1>7, Zenon

\* All the undo records.
LEMMA UndoneKeeps ==
  ASSUME TableInv, SessionActive, NEW faults
  PROVE  Undone(faults) \in Undoings
<1> DEFINE next(s, k) == UndoOne(s, undo[Len(undo) + 1 - k], faults)
           IsRun(f) == f = [k \in 0 .. Len(undo) |-> IF k = 0 THEN pages ELSE next(f[k - 1], k)]
<1>1. Len(undo) \in Nat
  BY DEF TableInv, TypeOK
<1>2. PICK n \in Nat : n = Len(undo)
  BY <1>1, Zenon
<1>3. \A s \in Undoings, k \in 1 .. n : next(s, k) \in Undoings
  <2>1. \A k \in 1 .. n : Len(undo) + 1 - k \in 1 .. Len(undo)
    BY <1>2
  <2> QED
    BY <2>1, UndoOneKeeps, Zenon
<1>4. pages \in Undoings
  BY SameChain DEF TableInv, Undoings
<1>5. Undone(faults) = (CHOOSE f : IsRun(f))[n]
  BY <1>2 DEF Undone
<1> HIDE DEF next
<1> DEFINE step == [k \in 1 .. n |-> [s \in Undoings |-> next(s, k)]]
<1>6. PICK f : StepByStep(f, Undoings, pages, n, step)
  <2>1. step \in [1 .. n -> [Undoings -> Undoings]]
    BY <1>3
  <2> HIDE DEF step
  <2> QED
    BY <1>4, <2>1, RunExists, Zenon
<1>7. \A i \in 1 .. n : i \in 0 .. n /\ i - 1 \in 0 .. n /\ i # 0
  OBVIOUS
<1>8. 0 \in 0 .. n /\ n \in 0 .. n /\ \A i \in 0 .. n : i = 0 \/ i \in 1 .. n
  OBVIOUS
<1>9. IsRun(f)
  <2>1. \A i \in 1 .. n : \A s \in Undoings : step[i][s] = next(s, i)
    BY Zenon
  <2> HIDE DEF step
  <2>2. \A i \in 1 .. n : f[i] = next(f[i - 1], i)
    BY <1>6, <1>7, <2>1, Zenon DEF StepByStep
  <2>3. \A i \in 0 .. n : f[i] = IF i = 0 THEN pages ELSE next(f[i - 1], i)
    BY <1>6, <1>8, <2>2, Zenon DEF StepByStep
  <2>4. f = [i \in 0 .. n |-> f[i]]
    BY <1>6, Zenon DEF StepByStep
  <2> QED
    BY <1>2, <2>3, <2>4, Zenon
<1>10. PICK g : g = CHOOSE h : IsRun(h)
  BY Zenon
<1>11. g = [k \in 0 .. n |-> IF k = 0 THEN pages ELSE next(g[k - 1], k)]
  BY <1>2, <1>9, <1>10, Zenon
<1>12. g[0] = pages /\ \A i \in 1 .. n : g[i] = next(g[i - 1], i)
  BY <1>7, <1>8, <1>11, Zenon
<1>13. \A i \in 1 .. n : g[i - 1] \in Undoings => g[i] \in Undoings
  BY <1>3, <1>12, Zenon
<1>14. \A i \in 0 .. n : g[i] \in Undoings
  BY <1>4, <1>12, <1>13, RunStays, Zenon
<1> QED
  BY <1>5, <1>8, <1>10, <1>14, Zenon

-----------------------------------------------------------------------------
\* The table of transactions: a finished one never changes, none leaves.
Grows(T, U) ==
  /\ T \in Seq(TransactionStates) /\ U \in Seq(TransactionStates)
  /\ Len(T) <= Len(U)
  /\ \A i \in 1 .. Len(T) : T[i] # "ACTIVE" => U[i] = T[i]

\* What the transaction manager does to the table: nothing, a new transaction, an end.
LEMMA GrowsOne ==
  ASSUME NEW T \in Seq(TransactionStates)
  PROVE  /\ Grows(T, T)
         /\ Grows(T, Append(T, "ACTIVE"))
         /\ \A t \in 1 .. Len(T), state \in TransactionStates : Grows(T, Finished(T, t, state))
<1>1. Grows(T, T)
  BY DEF Grows
<1>2. Grows(T, Append(T, "ACTIVE"))
  BY DEF Grows, TransactionStates
<1>3. ASSUME NEW t \in 1 .. Len(T), NEW state \in TransactionStates
      PROVE  Grows(T, Finished(T, t, state))
  <2>1. CASE T[t] = "ACTIVE"
    <3>1. PICK U : U = [T EXCEPT ![t] = state]
      BY Zenon
    <3>2. U \in Seq(TransactionStates) /\ Len(U) = Len(T)
          /\ \A i \in 1 .. Len(T) : i # t => U[i] = T[i]
      BY <3>1
    <3>3. Grows(T, U)
      BY <2>1, <3>2 DEF Grows
    <3> QED
      BY <2>1, <3>1, <3>3, Zenon DEF Finished
  <2>2. CASE T[t] # "ACTIVE"
    BY <1>1, <2>2 DEF Finished
  <2> QED
    BY <2>1, <2>2
<1> QED
  BY <1>1, <1>2, <1>3

\* Two of these, one after the other.
LEMMA GrowsTwice ==
  ASSUME NEW T, NEW U, NEW V, Grows(T, U), Grows(U, V)
  PROVE  Grows(T, V)
BY DEF Grows

\* The transaction of a statement begins and ends.
LEMMA StatementGrows ==
  ASSUME TableInv
  PROVE  /\ Grows(txns, txns) /\ Grows(txns, Begun)
         /\ \A state \in TransactionStates : Grows(txns, Finished(Begun, TxnId, state))
         /\ SessionActive => \A state \in TransactionStates :
              Grows(txns, Finished(txns, currentTxn, state))
<1>1. txns \in Seq(TransactionStates) /\ currentTxn \in DOMAIN txns \cup {INVALID_TXN_ID}
  BY DEF TableInv, TypeOK
<1>2. Grows(txns, txns) /\ Grows(txns, Begun)
  BY <1>1, GrowsOne DEF Begun
<1>3. PICK T : T = Begun
  BY Zenon
<1>4. T \in Seq(TransactionStates) /\ TxnId \in 1 .. Len(T)
  <2>1. CASE AutoCommit
    BY <1>1, <1>3, <2>1 DEF TransactionStates, Begun, TxnId
  <2>2. CASE ~AutoCommit
    BY <1>1, <1>3, <2>2 DEF Begun, TxnId, AutoCommit
  <2> QED
    BY <2>1, <2>2
<1>5. ASSUME NEW state \in TransactionStates PROVE Grows(txns, Finished(T, TxnId, state))
  BY <1>2, <1>3, <1>4, GrowsOne, GrowsTwice, Zenon
<1>6. SessionActive => currentTxn \in 1 .. Len(txns)
  <2>1. SessionActive => currentTxn \in DOMAIN txns
    BY Zenon DEF SessionActive, getTransactionState
  <2> QED
    BY <1>1, <2>1
<1> QED
  BY <1>1, <1>2, <1>3, <1>5, <1>6, GrowsOne, Zenon

\* A session whose transaction is finished does not come back to life.
LEMMA StaysFinished ==
  ASSUME TableInv, Grows(txns, txns'), currentTxn' = currentTxn, SessionActive'
  PROVE  SessionActive
<1>1. txns \in Seq(TransactionStates) /\ currentTxn \in DOMAIN txns \cup {INVALID_TXN_ID}
  BY DEF TableInv, TypeOK
<1>2. txns' \in Seq(TransactionStates) /\ 0 \notin DOMAIN txns'
  BY DEF Grows
<1>3. currentTxn \in DOMAIN txns' /\ txns'[currentTxn] = "ACTIVE"
  BY Zenon DEF SessionActive, getTransactionState
<1>4. currentTxn \in DOMAIN txns
  BY <1>1, <1>2, <1>3 DEF INVALID_TXN_ID
<1>5. txns[currentTxn] = "ACTIVE"
  BY <1>1, <1>3, <1>4 DEF Grows
<1> QED
  BY <1>4, <1>5 DEF SessionActive, getTransactionState

\* A deletion that has committed is kept by what changes no such mark.
LEMMA GoneKept ==
  ASSUME TableInv, Grows(txns, txns'), pages' \in Seq(GoodPages), NEW t, NEW may,
         KeptChain(pages, pages', t, may),
         \A m \in may : getTransactionState(txns, m) # "COMMITTED"
  PROVE  \A at \in Places(pages) : Gone(at) => Gone(at)'
<1> TAKE at \in Places(pages)
<1> HAVE Gone(at)
<1>1. PICK p \in DOMAIN pages : \E i \in SlotIndexes(pages[p]) : at = <<p, i>>
  BY Zenon DEF Places
<1>2. PICK i \in SlotIndexes(pages[p]) : at = <<p, i>>
  BY <1>1
<1>3. PICK a, b : a = pages[p].slots[i] /\ b = pages'[p].slots[i]
  BY Zenon
<1>4. KeptSlot(a, b, t, may)
  <2>1. p \in 1 .. Len(pages) /\ i \in 1 .. Len(pages[p].slots)
    BY <1>1, <1>2 DEF TableInv, SlotIndexes, slotCount
  <2> QED
    BY <1>3, <2>1, Zenon DEF KeptChain, KeptPage
<1>5. at[1] = p /\ at[2] = i
  BY <1>2
<1>6. a.length = 0 \/ getTransactionState(txns, a.record.deleteTxnId) = "COMMITTED"
  BY <1>3, <1>5, Zenon DEF Gone, IsUsed, RecordAt
<1>7. b.length = 0 \/ getTransactionState(txns', b.record.deleteTxnId) = "COMMITTED"
  <2>1. CASE a.length = 0
    BY <1>4, <2>1 DEF KeptSlot
  <2>2. CASE a.length # 0 /\ getTransactionState(txns, a.record.deleteTxnId) = "COMMITTED"
    <3>1. b.record.deleteTxnId = a.record.deleteTxnId
      BY <1>4, <2>2, Zenon DEF KeptSlot
    <3>2. PICK m : m = a.record.deleteTxnId
      BY Zenon
    <3>3. m \in DOMAIN txns /\ txns[m] = "COMMITTED"
      BY <2>2, <3>2 DEF getTransactionState
    <3>4. m \in DOMAIN txns' /\ txns'[m] = "COMMITTED"
      BY <3>3 DEF Grows
    <3> QED
      BY <3>1, <3>2, <3>4 DEF getTransactionState
  <2> QED
    BY <1>6, <2>1, <2>2
<1> QED
  BY <1>3, <1>5, <1>7, Zenon DEF Gone, IsUsed, RecordAt

-----------------------------------------------------------------------------
\* The shape of the pages, which TypeOK implies.
Shape(chain) ==
  /\ chain \in Seq(Page)
  /\ \A p \in DOMAIN chain : chain[p].slots \in Seq(Slot)

\* What canDelete accepts no transaction sees, whether it is the one that deleted
\* the record, another one that runs, or one that is yet to begin.
LEMMA RemovableIsInvisible ==
  ASSUME NEW table, NEW record, canDelete(table, record), NEW t
  PROVE  ~isVisible(table, record, t)
BY DEF canDelete, isVisible, isCommitted

\* The slots that VACUUM empties on a page.
Removable(p) == {i \in SlotIndexes(pages[p]) :
                   IsUsed(pages[p], i) /\ canDelete(txns, pages[p].slots[i].record)}

\* What they look like afterwards, and the others.
LEMMA EmptiedSlots ==
  ASSUME NEW leaf \in Page, leaf.slots \in Seq(Slot), NEW S
  PROVE  /\ SlotIndexes(Emptied(leaf, S)) = SlotIndexes(leaf)
         /\ \A i \in SlotIndexes(leaf) :
              /\ i \in S => ~IsUsed(Emptied(leaf, S), i)
              /\ i \notin S => Emptied(leaf, S).slots[i] = leaf.slots[i]
<1> DEFINE empty == [offset |-> 0, length |-> 0, record |-> NoRecord]
           slots == [i \in SlotIndexes(leaf) |-> IF i \in S THEN empty ELSE leaf.slots[i]]
<1>1. Emptied(leaf, S).slots = slots
  BY DEF Emptied, Page
<1>2. SlotIndexes(leaf) = 1..Len(leaf.slots) /\ Len(leaf.slots) \in Nat
  BY DEF SlotIndexes, slotCount
<1>3. Len(slots) = Len(leaf.slots)
  BY <1>2
<1>4. empty.length = 0
  OBVIOUS
<1> HIDE DEF empty
<1>5. \A i \in SlotIndexes(leaf) : slots[i] = IF i \in S THEN empty ELSE leaf.slots[i]
  OBVIOUS
<1> HIDE DEF slots
<1> QED
  BY <1>1, <1>2, <1>3, <1>4, <1>5 DEF SlotIndexes, slotCount, IsUsed

\* VACUUM leaves every slot as it was or empties one that nobody sees.
LEMMA VacuumSlots ==
  ASSUME Shape(pages), NEW f, Vacuum(f), NEW p \in DOMAIN pages
  PROVE  /\ SlotIndexes(pages[p])' = SlotIndexes(pages[p])
         /\ \A i \in SlotIndexes(pages[p]) :
              \/ pages'[p].slots[i] = pages[p].slots[i]
              \/ i \in Removable(p) /\ ~IsUsed(pages'[p], i)
<1>1. pages[p] \in Page /\ pages[p].slots \in Seq(Slot)
  BY DEF Shape
<1>2. pages'[p] = pages[p] \/ pages'[p] = Emptied(pages[p], Removable(p))
  BY DEF Vacuum, Removable
<1> QED
  BY <1>1, <1>2, EmptiedSlots DEF SlotIndexes, slotCount

\* VACUUM adds and removes no slot.
LEMMA VacuumPlaces ==
  ASSUME Shape(pages), NEW f, Vacuum(f)
  PROVE  DOMAIN pages' = DOMAIN pages /\ Places(pages)' = Places(pages)
<1>1. DOMAIN pages' = DOMAIN pages
  BY DEF Vacuum
<1> QED
  BY <1>1, VacuumSlots DEF Places

\* One VACUUM, whatever it cannot read: all transactions see what they saw.
LEMMA VacuumStep ==
  ASSUME Shape(pages), NEW f, Vacuum(f), NEW t
  PROVE  Rows(txns, pages, t)' = Rows(txns, pages, t)
<1> DEFINE Sees(table, chain, at) == /\ IsListed(chain[at[1]], at[2])
                                     /\ isVisible(table, RecordAt(chain, at), t)
           Seen(table, chain) == {at \in Places(chain) : Sees(table, chain, at)}
<1>1. ASSUME NEW at \in Places(pages)
      PROVE  /\ Sees(txns, pages, at) <=> Sees(txns', pages', at)
             /\ Sees(txns, pages, at) => RecordAt(pages', at) = RecordAt(pages, at)
  <2>1. PICK p \in DOMAIN pages : \E i \in SlotIndexes(pages[p]) : at = <<p, i>>
    BY Zenon DEF Places
  <2>2. PICK i \in SlotIndexes(pages[p]) : at = <<p, i>>
    BY <2>1
  <2>3. at[1] = p /\ at[2] = i /\ txns' = txns
    BY <2>2 DEF Vacuum
  <2>4. \/ pages'[p].slots[i] = pages[p].slots[i]
        \/ i \in Removable(p) /\ ~IsUsed(pages'[p], i)
    BY <2>1, <2>2, VacuumSlots, Zenon
  <2>5. CASE pages'[p].slots[i] = pages[p].slots[i]
    BY <2>3, <2>5, Zenon DEF RecordAt, IsListed, IsUsed
  <2>6. CASE i \in Removable(p) /\ ~IsUsed(pages'[p], i)
    <3>1. canDelete(txns, RecordAt(pages, at))
      BY <2>3, <2>6, Zenon DEF Removable, RecordAt
    <3>2. ~Sees(txns, pages, at)
      BY <3>1, RemovableIsInvisible, Zenon
    <3>3. ~Sees(txns', pages', at)
      BY <2>3, <2>6, Zenon DEF IsListed
    <3> QED
      BY <3>2, <3>3, Zenon
  <2> QED
    BY <2>4, <2>5, <2>6, Zenon
<1>2. Places(pages') = Places(pages)
  BY VacuumPlaces, Zenon
<1>3. Seen(txns', pages') = Seen(txns, pages)
  BY <1>1, <1>2, Zenon
<1>4. \A at \in Seen(txns, pages) : RecordAt(pages', at) = RecordAt(pages, at)
  BY <1>1, Zenon
<1>5. Rows(txns, pages, t) = {[at |-> at, value |-> RecordAt(pages, at).value] :
                                at \in Seen(txns, pages)}
  BY Zenon DEF Rows
<1>6. Rows(txns', pages', t) = {[at |-> at, value |-> RecordAt(pages', at).value] :
                                  at \in Seen(txns', pages')}
  BY Zenon DEF Rows
<1> HIDE DEF Seen, Sees
<1> QED
  BY <1>3, <1>4, <1>5, <1>6, Zenon

\* Every deletion that has committed is kept.
DeletionsStay == crashes' = crashes => \A at \in Places(pages) : Gone(at) => Gone(at)'

\* The invariant, conjunct by conjunct.
LEMMA InvParts ==
  ASSUME TableInv
  PROVE  /\ txns \in Seq(TransactionStates)
         /\ currentTxn \in DOMAIN txns \cup {INVALID_TXN_ID}
         /\ pages \in Seq(GoodPages) /\ disk \in [pages : Seq(GoodPages), nextRowId : Nat]
         /\ disk.pages \in Seq(GoodPages) /\ disk.nextRowId \in Nat
         /\ Len(disk.pages) <= Len(pages)
         /\ undo \in Seq(UndoRecord)
         /\ nextRowId \in Nat /\ updateRowId \in Nat /\ crashes \in Nat
         /\ Shape(pages)
<1>1. /\ txns \in Seq(TransactionStates)
      /\ currentTxn \in DOMAIN txns \cup {INVALID_TXN_ID}
      /\ pages \in Seq(GoodPages) /\ disk \in [pages : Seq(GoodPages), nextRowId : Nat]
      /\ Len(disk.pages) <= Len(pages)
      /\ undo \in Seq(UndoRecord)
      /\ nextRowId \in Nat /\ updateRowId \in Nat /\ crashes \in Nat
  BY DEF TableInv, TypeOK
<1>2. disk.pages \in Seq(GoodPages) /\ disk.nextRowId \in Nat
  BY <1>1
<1>3. pages \in Seq(Page)
  BY DEF TableInv, TypeOK
<1>4. \A p \in DOMAIN pages : pages[p].slots \in Seq(Slot)
  BY <1>1, PageParts
<1> QED
  BY <1>1, <1>2, <1>3, <1>4 DEF Shape

\* And back, for the state after a step.
LEMMA InvNext ==
  ASSUME txns' \in Seq(TransactionStates),
         currentTxn' \in DOMAIN txns' \cup {INVALID_TXN_ID},
         pages' \in Seq(GoodPages), disk' \in [pages : Seq(GoodPages), nextRowId : Nat],
         Len(disk'.pages) <= Len(pages'),
         undo' \in Seq(UndoRecord),
         nextRowId' \in Nat, updateRowId' \in Nat, crashes' \in Nat,
         SessionActive' => UndoHolds(undo, pages, currentTxn)'
  PROVE  TableInv'
<1>1. \A C \in Seq(GoodPages) : C \in Seq(Page)
  <2>1. GoodPages \subseteq Page
    BY DEF GoodPages
  <2> QED
    BY <2>1
<1>2. disk'.pages \in Seq(GoodPages) /\ disk'.nextRowId \in Nat
  OBVIOUS
<1>3. TypeOK'
  BY <1>1, <1>2 DEF TypeOK
<1> QED
  BY <1>3 DEF TableInv

\* A statement that ends, well or not.
LEMMA StatementStep ==
  ASSUME TableInv, NEW s, Sound(s), pages' = s.pages, undo' = s.undo, nextRowId' \in Nat,
         updateRowId' \in Nat, Grows(txns, txns'), currentTxn' = currentTxn,
         crashes' = crashes,
         \/ disk' = disk
         \/ disk' \in [pages : Seq(GoodPages), nextRowId : Nat] /\ disk'.pages = s.pages
  PROVE  TableInv' /\ DeletionsStay
<1>1. /\ s.pages \in Seq(GoodPages) /\ s.undo \in Seq(UndoRecord) /\ Len(s.pages) \in Nat
      /\ KeptChain(pages, s.pages, TxnId, {INVALID_TXN_ID})
      /\ SessionActive => UndoHolds(s.undo, s.pages, TxnId)
  BY WorkParts DEF Sound
<1>2. /\ txns \in Seq(TransactionStates)
      /\ currentTxn \in DOMAIN txns \cup {INVALID_TXN_ID}
      /\ pages \in Seq(GoodPages) /\ disk \in [pages : Seq(GoodPages), nextRowId : Nat]
      /\ disk.pages \in Seq(GoodPages) /\ Len(disk.pages) <= Len(pages) /\ crashes \in Nat
  BY InvParts
<1>3. txns' \in Seq(TransactionStates) /\ currentTxn' \in DOMAIN txns' \cup {INVALID_TXN_ID}
  BY <1>2 DEF Grows
<1>4. /\ disk' \in [pages : Seq(GoodPages), nextRowId : Nat]
      /\ Len(disk'.pages) <= Len(pages')
  <2>1. Len(pages) <= Len(s.pages) /\ Len(disk.pages) \in Nat /\ Len(pages) \in Nat
    BY <1>1, <1>2 DEF KeptChain
  <2> QED
    BY <1>1, <1>2, <2>1
<1>5. SessionActive' => UndoHolds(undo', pages', currentTxn')
  <2>1. SessionActive' => SessionActive
    BY StaysFinished
  <2>2. SessionActive => TxnId = currentTxn
    BY TxnIdIs
  <2> QED
    BY <1>1, <2>1, <2>2, Zenon
<1>6. TableInv'
  BY <1>1, <1>2, <1>3, <1>4, <1>5, InvNext
<1>7. DeletionsStay
  <2>1. \A m \in {INVALID_TXN_ID} : getTransactionState(txns, m) # "COMMITTED"
    <3>1. 0 \notin DOMAIN txns
      BY <1>2
    <3> QED
      BY <3>1 DEF getTransactionState, INVALID_TXN_ID
  <2> QED
    BY <1>1, <2>1, GoneKept, Zenon DEF DeletionsStay
<1> QED
  BY <1>6, <1>7

\* A list of rows.
LEMMA RowListIs ==
  ASSUME NEW min \in Nat, NEW max \in Int, NEW rows \in RowLists(min, max)
  PROVE  rows \in Seq(Values)
BY DEF RowLists

\* INSERT, UPDATE and DELETE that come to their end.
LEMMA EndStep ==
  ASSUME TableInv, NEW s, Sound(s), NEW rowId \in Nat, NEW bag, NEW f,
         EndStatement(s, rowId, bag, f)
  PROVE  TableInv' /\ DeletionsStay
<1>1. /\ pages' = s.pages /\ undo' = s.undo /\ nextRowId' = rowId
      /\ updateRowId' = s.updateRowId
      /\ txns' = IF AutoCommit THEN Finished(Begun, TxnId, "COMMITTED") ELSE txns
      /\ disk' = IF AutoCommit /\ f.commit THEN disk
                 ELSE [pages |-> s.pages, nextRowId |-> rowId]
      /\ currentTxn' = currentTxn /\ crashes' = crashes
  BY Zenon DEF EndStatement
<1>2. s.updateRowId \in Nat /\ s.pages \in Seq(GoodPages)
  BY WorkParts DEF Sound
<1>3. Grows(txns, txns')
  BY <1>1, StatementGrows DEF TransactionStates
<1>4. \/ disk' = disk
      \/ disk' \in [pages : Seq(GoodPages), nextRowId : Nat] /\ disk'.pages = s.pages
  BY <1>1, <1>2
<1> QED
  BY <1>1, <1>2, <1>3, <1>4, StatementStep

\* INSERT that fails or is refused.
LEMMA BreakStep ==
  ASSUME TableInv, NEW s, Sound(s), pages' = s.pages, undo' = s.undo, Grows(txns, txns'),
         UNCHANGED <<currentTxn, disk, nextRowId, updateRowId, crashes>>
  PROVE  TableInv' /\ DeletionsStay
<1>1. nextRowId \in Nat /\ updateRowId \in Nat
  BY InvParts
<1> QED
  BY <1>1, StatementStep

\* Steps that leave the pages alone.
LEMMA QuietStep ==
  ASSUME TableInv, UNCHANGED <<pages, disk, nextRowId, updateRowId, crashes>>,
         Grows(txns, txns'), currentTxn' \in DOMAIN txns' \cup {INVALID_TXN_ID},
         undo' \in Seq(UndoRecord),
         SessionActive' => UndoHolds(undo', pages, currentTxn')
  PROVE  TableInv' /\ DeletionsStay
<1>1. /\ pages \in Seq(GoodPages) /\ disk \in [pages : Seq(GoodPages), nextRowId : Nat]
      /\ Len(disk.pages) <= Len(pages)
      /\ nextRowId \in Nat /\ updateRowId \in Nat /\ crashes \in Nat
  BY InvParts
<1>2. txns' \in Seq(TransactionStates)
  BY DEF Grows
<1>3. TableInv'
  BY <1>1, <1>2, InvNext
<1>4. KeptChain(pages, pages', 0, {})
  BY <1>1, SameChain
<1>5. DeletionsStay
  BY <1>1, <1>4, GoneKept DEF DeletionsStay
<1> QED
  BY <1>3, <1>5

\* No session, nothing to undo.
LEMMA NoSessionIs ==
  ASSUME NoSession, txns' \in Seq(TransactionStates)
  PROVE  /\ currentTxn' = INVALID_TXN_ID /\ undo' = << >> /\ undo' \in Seq(UndoRecord)
         /\ ~SessionActive'
<1>1. currentTxn' = INVALID_TXN_ID /\ undo' = << >>
  BY DEF NoSession
<1>2. 0 \notin DOMAIN txns'
  OBVIOUS
<1> QED
  BY <1>1, <1>2 DEF SessionActive, getTransactionState, INVALID_TXN_ID

\* BEGIN.
LEMMA BeginStep == ASSUME TableInv, Begin PROVE TableInv' /\ DeletionsStay
<1>1. txns \in Seq(TransactionStates)
  BY InvParts
<1>2. /\ txns' = Append(txns, "ACTIVE") /\ currentTxn' = Len(txns) + 1 /\ undo' = << >>
      /\ UNCHANGED <<pages, disk, nextRowId, updateRowId, crashes>>
  BY DEF Begin
<1>3. Grows(txns, txns')
  BY <1>1, <1>2, GrowsOne
<1>4. currentTxn' \in DOMAIN txns'
  BY <1>1, <1>2
<1>5. undo' \in Seq(UndoRecord) /\ UndoHolds(undo', pages, currentTxn')
  BY <1>2 DEF UndoHolds
<1> QED
  BY <1>2, <1>3, <1>4, <1>5, QuietStep

\* COMMIT, also when its record cannot be written.
LEMMA CommitStep == ASSUME TableInv, NEW f, Commit(f) PROVE TableInv' /\ DeletionsStay
<1>1. /\ txns \in Seq(TransactionStates) /\ undo \in Seq(UndoRecord)
      /\ currentTxn \in DOMAIN txns \cup {INVALID_TXN_ID}
  BY InvParts
<1>2. /\ SessionActive /\ txns' = Finished(txns, currentTxn, "COMMITTED")
      /\ UNCHANGED <<pages, disk, nextRowId, updateRowId, crashes>>
  BY DEF Commit
<1>3. Grows(txns, txns')
  BY <1>2, StatementGrows DEF TransactionStates
<1>4. UndoHolds(undo, pages, currentTxn)
  BY <1>2 DEF TableInv
<1>5. CASE f.commit
  <2>1. UNCHANGED <<currentTxn, undo>>
    BY <1>5, Zenon DEF Commit
  <2>2. currentTxn' \in DOMAIN txns' \cup {INVALID_TXN_ID}
    BY <1>1, <1>3, <2>1 DEF Grows
  <2>3. undo' \in Seq(UndoRecord) /\ UndoHolds(undo', pages, currentTxn')
    BY <1>1, <1>4, <2>1
  <2> QED
    BY <1>2, <1>3, <2>2, <2>3, QuietStep
<1>6. CASE ~f.commit
  <2>1. NoSession
    BY <1>6, Zenon DEF Commit
  <2>2. currentTxn' = INVALID_TXN_ID /\ undo' \in Seq(UndoRecord) /\ ~SessionActive'
    BY <1>3, <2>1, NoSessionIs DEF Grows
  <2> QED
    BY <1>2, <1>3, <2>2, QuietStep
<1> QED
  BY <1>5, <1>6

\* ROLLBACK takes back only marks of its own transaction, which has not committed.
LEMMA RollbackStep == ASSUME TableInv, NEW f, Rollback(f) PROVE TableInv' /\ DeletionsStay
<1>1. /\ txns \in Seq(TransactionStates) /\ disk \in [pages : Seq(GoodPages), nextRowId : Nat]
      /\ nextRowId \in Nat /\ updateRowId \in Nat /\ crashes \in Nat
  BY InvParts
<1>2. /\ SessionActive /\ txns' = Finished(txns, currentTxn, "ABORTED") /\ pages' = Undone(f)
      /\ disk' = [disk EXCEPT !.pages = pages'] /\ NoSession
      /\ UNCHANGED <<nextRowId, updateRowId, crashes>>
  BY DEF Rollback
<1>3. Grows(txns, txns') /\ txns' \in Seq(TransactionStates)
  BY <1>2, StatementGrows DEF TransactionStates, Grows
<1>4. /\ pages' \in Seq(GoodPages)
      /\ KeptChain(pages, pages', currentTxn, {INVALID_TXN_ID, currentTxn})
  BY <1>2, UndoneKeeps, Zenon DEF Undoings
<1>5. /\ currentTxn' = INVALID_TXN_ID /\ undo' \in Seq(UndoRecord) /\ ~SessionActive'
  BY <1>2, <1>3, NoSessionIs
<1>6. disk' \in [pages : Seq(GoodPages), nextRowId : Nat] /\ disk'.pages = pages'
  BY <1>1, <1>2, <1>4
<1>7. Len(disk'.pages) <= Len(pages')
  BY <1>4, <1>6
<1>8. TableInv'
  BY <1>1, <1>2, <1>3, <1>4, <1>5, <1>6, <1>7, InvNext
<1>9. \A m \in {INVALID_TXN_ID, currentTxn} : getTransactionState(txns, m) # "COMMITTED"
  <2>1. 0 \notin DOMAIN txns
    BY <1>1
  <2> QED
    BY <1>2, <2>1 DEF SessionActive, getTransactionState, INVALID_TXN_ID
<1>10. DeletionsStay
  BY <1>3, <1>4, <1>9, GoneKept, Zenon DEF DeletionsStay
<1> QED
  BY <1>8, <1>10

\* VACUUM.
LEMMA VacuumInvStep == ASSUME TableInv, NEW f, Vacuum(f) PROVE TableInv' /\ DeletionsStay
<1>1. /\ pages \in Seq(GoodPages) /\ disk \in [pages : Seq(GoodPages), nextRowId : Nat]
      /\ txns \in Seq(TransactionStates) /\ currentTxn \in DOMAIN txns \cup {INVALID_TXN_ID}
      /\ undo \in Seq(UndoRecord) /\ Shape(pages)
      /\ nextRowId \in Nat /\ updateRowId \in Nat /\ crashes \in Nat
  BY InvParts
<1>2. /\ disk' = [disk EXCEPT !.pages = pages']
      /\ UNCHANGED <<txns, currentTxn, undo, nextRowId, updateRowId, crashes>>
  BY DEF Vacuum
<1>3. pages' \in Seq(GoodPages) /\ Len(pages') = Len(pages)
  <2>1. \A p \in DOMAIN pages : \A S : Emptied(pages[p], S) \in GoodPages /\ pages[p] \in GoodPages
    BY <1>1, EmptiedPage
  <2>2. pages' \in [DOMAIN pages -> GoodPages]
    BY <2>1, Zenon DEF Vacuum
  <2> QED
    BY <1>1, <2>2
<1>4. ASSUME NEW p \in 1 .. Len(pages), NEW i \in 1 .. Len(pages[p].slots)
      PROVE  /\ i \in 1 .. Len(pages'[p].slots)
             /\ \/ pages'[p].slots[i] = pages[p].slots[i]
                \/ pages'[p].slots[i].length = 0
  <2>1. p \in DOMAIN pages /\ i \in SlotIndexes(pages[p])
    BY <1>1 DEF SlotIndexes, slotCount
  <2>2. /\ SlotIndexes(pages[p])' = SlotIndexes(pages[p])
        /\ \/ pages'[p].slots[i] = pages[p].slots[i]
           \/ ~IsUsed(pages'[p], i)
    BY <1>1, <2>1, VacuumSlots
  <2> QED
    BY <2>1, <2>2 DEF SlotIndexes, slotCount, IsUsed
<1>5. disk' \in [pages : Seq(GoodPages), nextRowId : Nat] /\ Len(disk'.pages) <= Len(pages')
  <2>1. disk' \in [pages : Seq(GoodPages), nextRowId : Nat] /\ disk'.pages = pages'
    BY <1>1, <1>2, <1>3, Zenon
  <2> QED
    BY <1>3, <2>1
<1>6. \A u : UndoSafe(u, pages, currentTxn) => UndoSafe(u, pages', currentTxn)
  <2> SUFFICES ASSUME NEW u, UndoSafe(u, pages, currentTxn) PROVE UndoSafe(u, pages', currentTxn)
    OBVIOUS
  <2>1. PICK p, i : p = u.page /\ i = u.slot
    BY Zenon
  <2>2. /\ p \in 1 .. Len(pages) /\ i \in 1 .. Len(pages[p].slots)
        /\ pages[p].slots[i].length # 0 =>
             pages[p].slots[i].record.deleteTxnId \in {INVALID_TXN_ID, currentTxn}
    BY <2>1, Zenon DEF UndoSafe
  <2>3. /\ i \in 1 .. Len(pages'[p].slots)
        /\ pages'[p].slots[i].length # 0 =>
             pages'[p].slots[i].record.deleteTxnId \in {INVALID_TXN_ID, currentTxn}
    BY <1>4, <2>2, Zenon
  <2> QED
    BY <1>3, <2>1, <2>2, <2>3, Zenon DEF UndoSafe
<1>7. SessionActive' => UndoHolds(undo', pages', currentTxn')
  <2>1. SessionActive => UndoHolds(undo, pages, currentTxn)
    BY DEF TableInv
  <2>2. UndoHolds(undo, pages, currentTxn) => UndoHolds(undo, pages', currentTxn)
    BY <1>6, Zenon DEF UndoHolds
  <2>3. SessionActive' => SessionActive
    BY <1>2 DEF SessionActive
  <2> QED
    BY <1>2, <2>1, <2>2, <2>3, Zenon
<1>8. TableInv'
  BY <1>1, <1>2, <1>3, <1>5, <1>7, InvNext
<1>9. ASSUME NEW at \in Places(pages), Gone(at) PROVE Gone(at)'
  <2>1. PICK p \in DOMAIN pages : \E i \in SlotIndexes(pages[p]) : at = <<p, i>>
    BY Zenon DEF Places
  <2>2. PICK i \in SlotIndexes(pages[p]) : at = <<p, i>>
    BY <2>1
  <2>3. at[1] = p /\ at[2] = i
    BY <2>2
  <2>4. pages'[p].slots[i] = pages[p].slots[i] \/ pages'[p].slots[i].length = 0
    <3>1. p \in 1 .. Len(pages) /\ i \in 1 .. Len(pages[p].slots)
      BY <1>1, <2>1, <2>2 DEF SlotIndexes, slotCount
    <3> QED
      BY <1>4, <3>1, Zenon
  <2> QED
    BY <1>2, <1>9, <2>3, <2>4, Zenon DEF Gone, IsUsed, RecordAt
<1>10. DeletionsStay
  BY <1>9, Zenon DEF DeletionsStay
<1> QED
  BY <1>8, <1>10

\* A crash: each page that is left is one of before, or of zeros.
LEMMA CrashStep ==
  ASSUME TableInv, NEW written \in SUBSET DOMAIN pages, Crash(written)
  PROVE  TableInv' /\ DeletionsStay
<1>1. /\ pages \in Seq(GoodPages) /\ disk \in [pages : Seq(GoodPages), nextRowId : Nat]
      /\ disk.pages \in Seq(GoodPages) /\ disk.nextRowId \in Nat /\ crashes \in Nat
  BY InvParts
<1> DEFINE flushed == Len(disk.pages)
           linked == {p \in DOMAIN pages : flushed..(p - 1) \subseteq written}
           page0(p) == IF p \in written THEN pages[p]
                       ELSE IF p <= flushed THEN disk.pages[p] ELSE ZeroPage
<1>2. /\ pages' = [p \in 1..Cardinality(linked) |-> page0(p)]
      /\ disk' = [disk EXCEPT !.pages = pages']
      /\ nextRowId' = disk.nextRowId /\ updateRowId' = 0 /\ txns' = << >>
      /\ crashes' = crashes + 1 /\ NoSession
  BY DEF Crash
<1>3. Cardinality(linked) \in Nat
  <2>1. linked \in SUBSET (1 .. Len(pages))
    BY <1>1
  <2> HIDE DEF linked
  <2> QED
    BY <1>1, <2>1, CountsPages
<1>4. \A p \in 1..Cardinality(linked) : page0(p) \in GoodPages
  <2> TAKE p \in 1..Cardinality(linked)
  <2>1. p \in Nat /\ p >= 1
    BY <1>3
  <2>2. p \in written => pages[p] \in GoodPages
    BY <1>1
  <2>3. p <= flushed => disk.pages[p] \in GoodPages
    BY <1>1, <2>1
  <2> QED
    BY <2>2, <2>3, NewPages, Zenon
<1> HIDE DEF page0, linked
<1>5. pages' \in Seq(GoodPages)
  BY <1>2, <1>3, <1>4
<1>6. txns' \in Seq(TransactionStates)
  BY <1>2
<1>7. currentTxn' = INVALID_TXN_ID /\ undo' \in Seq(UndoRecord) /\ ~SessionActive'
  BY <1>2, <1>6, NoSessionIs
<1>8. disk' \in [pages : Seq(GoodPages), nextRowId : Nat] /\ disk'.pages = pages'
  BY <1>1, <1>2, <1>5, Zenon
<1>9. TableInv'
  <2>1. Len(disk'.pages) <= Len(pages')
    BY <1>5, <1>8
  <2>2. nextRowId' \in Nat /\ updateRowId' \in Nat /\ crashes' \in Nat
    BY <1>1, <1>2
  <2> QED
    BY <1>5, <1>6, <1>7, <1>8, <2>1, <2>2, InvNext
<1>10. DeletionsStay
  BY <1>1, <1>2 DEF DeletionsStay
<1> QED
  BY <1>9, <1>10

\* INSERT of all rows, one that fails and one that is refused.
LEMMA InsertsStep ==
  ASSUME TableInv, NEW rows \in Seq(Values), NEW f,
         Insert(rows, f) \/ InsertAborted(rows, f) \/ InsertRefused(rows, f)
  PROVE  TableInv' /\ DeletionsStay
<1>1. PICK s : s = InsertRows(rows, f)
  BY Zenon
<1>2. Sound(s)
  BY <1>1, InsertRowsSound
<1>3. s.rowId \in Nat
  BY <1>2, WorkParts DEF Sound
<1>4. Grows(txns, Finished(Begun, TxnId, "ABORTED")) /\ Grows(txns, Begun)
  BY StatementGrows DEF TransactionStates
<1>5. CASE Insert(rows, f)
  <2>1. EndStatement(s, s.rowId, WithInserted(expected, rows), f)
    BY <1>1, <1>5, Zenon DEF Insert
  <2> QED
    BY <1>2, <1>3, <2>1, EndStep, Zenon
<1>6. CASE InsertAborted(rows, f)
  <2>1. /\ pages' = s.pages /\ undo' = s.undo /\ txns' = Finished(Begun, TxnId, "ABORTED")
        /\ UNCHANGED <<currentTxn, disk, nextRowId, updateRowId, crashes>>
    BY <1>1, <1>6, Zenon DEF InsertAborted
  <2>2. Grows(txns, txns')
    BY <1>4, <2>1
  <2> QED
    BY <1>2, <2>1, <2>2, BreakStep, Zenon
<1>7. CASE InsertRefused(rows, f)
  <2>1. /\ pages' = s.pages /\ undo' = s.undo /\ txns' = Begun
        /\ UNCHANGED <<currentTxn, disk, nextRowId, updateRowId, crashes>>
    BY <1>1, <1>7, Zenon DEF InsertRefused
  <2>2. Grows(txns, txns')
    BY <1>4, <2>1
  <2> QED
    BY <1>2, <2>1, <2>2, BreakStep, Zenon
<1> QED
  BY <1>5, <1>6, <1>7, Zenon

\* UPDATE and DELETE.
LEMMA ChangesStep ==
  ASSUME TableInv, NEW f, NEW where \in Wheres, NEW v \in Values,
         Update(where, v, f) \/ Delete(where, f)
  PROVE  TableInv' /\ DeletionsStay
<1>1. PICK list : list = Candidates(where, f)
  BY Zenon
<1>2. list \in Seq(Found)
  <2>1. where \in SUBSET Values
    BY DEF Wheres
  <2> QED
    BY <1>1, <2>1, CandidatesList
<1>3. nextRowId \in Nat
  BY InvParts
<1>4. CASE Update(where, v, f)
  <2>1. EndStatement(UpdateRows(list, v, f), nextRowId, WithUpdated(expected, where, v), f)
    BY <1>1, <1>4, Zenon DEF Update
  <2>2. Sound(UpdateRows(list, v, f))
    BY <1>2, UpdateRowsSound
  <2> QED
    BY <1>3, <2>1, <2>2, EndStep, Zenon
<1>5. CASE Delete(where, f)
  <2>1. EndStatement(DeleteRows(list), nextRowId, WithDeleted(expected, where), f)
    BY <1>1, <1>5, Zenon DEF Delete
  <2>2. Sound(DeleteRows(list))
    BY <1>2, DeleteRowsSound
  <2> QED
    BY <1>3, <2>1, <2>2, EndStep, Zenon
<1> QED
  BY <1>4, <1>5, Zenon

\* UPDATE or DELETE with an expression that cannot be evaluated.
LEMMA ScanErrorStep == ASSUME TableInv, ScanError PROVE TableInv' /\ DeletionsStay
<1>1. /\ AutoCommit /\ txns' = Begun
      /\ UNCHANGED <<currentTxn, pages, disk, undo, nextRowId, updateRowId, crashes>>
  BY DEF ScanError
<1>2. Grows(txns, txns')
  BY <1>1, StatementGrows
<1>3. currentTxn' \in DOMAIN txns' \cup {INVALID_TXN_ID}
  BY <1>1 DEF AutoCommit
<1>4. undo' \in Seq(UndoRecord)
  BY <1>1, InvParts
<1>5. SessionActive' => UndoHolds(undo', pages, currentTxn')
  <2>1. SessionActive' => SessionActive
    BY <1>1, <1>2, StaysFinished
  <2> QED
    BY <1>1, <2>1 DEF TableInv
<1> QED
  BY <1>1, <1>2, <1>3, <1>4, <1>5, QuietStep

\* Each step keeps the invariant and the deletions that have committed.
LEMMA TableStep == ASSUME TableInv, [Next]_vars PROVE TableInv' /\ [DeletionsStay]_vars
<1>1. ASSUME Next PROVE TableInv' /\ DeletionsStay
  <2>1. CASE \E f \in Faults, rows \in RowLists(1, MaxRows) :
               Insert(rows, f) \/ InsertAborted(rows, f)
    <3>1. MaxRows \in Int
      BY StatementsAssumption
    <3>2. PICK f \in Faults, rows \in RowLists(1, MaxRows) :
            Insert(rows, f) \/ InsertAborted(rows, f)
      BY <2>1, Zenon
    <3>3. rows \in Seq(Values)
      BY <3>1, RowListIs
    <3> QED
      BY <3>2, <3>3, InsertsStep, Zenon
  <2>2. CASE \E f \in Faults, rows \in RowLists(0, MaxRows - 1) : InsertRefused(rows, f)
    <3>1. MaxRows - 1 \in Int
      BY StatementsAssumption
    <3>2. PICK f \in Faults, rows \in RowLists(0, MaxRows - 1) : InsertRefused(rows, f)
      BY <2>2, Zenon
    <3>3. rows \in Seq(Values)
      BY <3>1, RowListIs
    <3> QED
      BY <3>2, <3>3, InsertsStep, Zenon
  <2>3. CASE \E f \in Faults, where \in Wheres, v \in Values : Update(where, v, f)
    BY <2>3, ChangesStep, Zenon
  <2>4. CASE \E f \in Faults, where \in Wheres : Delete(where, f)
    <3>1. \A where \in Wheres : \E v \in Values : TRUE
      BY Zenon DEF Wheres
    <3> QED
      BY <2>4, <3>1, ChangesStep, Zenon
  <2>5. CASE \E f \in Faults : Vacuum(f)
    BY <2>5, VacuumInvStep, Zenon
  <2>6. CASE \E f \in Faults : Commit(f)
    BY <2>6, CommitStep, Zenon
  <2>7. CASE \E f \in Faults : Rollback(f)
    BY <2>7, RollbackStep, Zenon
  <2>8. CASE ScanError
    BY <2>8, ScanErrorStep, Zenon
  <2>9. CASE Begin
    BY <2>9, BeginStep, Zenon
  <2>10. CASE \E written \in SUBSET DOMAIN pages : Crash(written)
    BY <2>10, CrashStep, Zenon
  <2> QED
    BY <1>1, <2>1, <2>2, <2>3, <2>4, <2>5, <2>6, <2>7, <2>8, <2>9, <2>10, Zenon DEF Next
<1>2. ASSUME UNCHANGED vars PROVE TableInv'
  <2>1. UNCHANGED <<txns, currentTxn, pages, disk, undo, nextRowId, updateRowId, crashes>>
    BY <1>2 DEF vars
  <2>2. SessionActive' => SessionActive
    BY <2>1 DEF SessionActive
  <2>3. SessionActive' => UndoHolds(undo', pages', currentTxn')
    BY <2>1, <2>2 DEF TableInv
  <2> QED
    BY <2>1, <2>3, InvParts, InvNext
<1> QED
  BY <1>1, <1>2, Zenon

\* A new table satisfies the invariant.
LEMMA TableInitInv == Init => TableInv
<1> SUFFICES ASSUME Init PROVE TableInv
  OBVIOUS
<1>1. EmptyPage \in GoodPages /\ EmptyPage \in Page
  BY NewPages DEF GoodPages
<1>2. pages = <<EmptyPage>> /\ disk = [pages |-> <<EmptyPage>>, nextRowId |-> 1] /\ txns = << >>
      /\ currentTxn = 0 /\ undo = << >> /\ nextRowId = 1 /\ updateRowId = 0 /\ crashes = 0
  BY DEF Init, INVALID_TXN_ID
<1>3. pages \in Seq(GoodPages) /\ disk \in [pages : Seq(GoodPages), nextRowId : Nat]
  BY <1>1, <1>2
<1>4. TypeOK
  BY <1>1, <1>2 DEF TypeOK, INVALID_TXN_ID
<1>5. ~SessionActive
  BY <1>2 DEF SessionActive, getTransactionState
<1> QED
  BY <1>3, <1>4, <1>5 DEF TableInv

\* The invariant holds for every table, whatever statements, faults and crashes.
THEOREM TableInvariance == Spec => []TableInv
BY TableInitInv, TableStep, PTL DEF Spec

\* The executor keeps the table well-formed: its pages and those on disk are pages, a
\* crash finds no more pages on disk than there were, the session's transaction is
\* one of the transaction manager's, and the undo log has the old values it needs.
THEOREM TableTypeCorrect == Spec => []TypeOK
<1>1. TableInv => TypeOK
  BY DEF TableInv
<1> QED
  BY <1>1, TableInvariance, PTL

\* A row whose deletion has committed stays gone while the server runs.  ROLLBACK
\* clears deleteTxnId without a look at it; that this never clears the mark of
\* another transaction follows from the undo log (deleteRecord refuses a record that
\* is already marked) and from the session's transaction being active.
THEOREM DeletionIsForGood == Spec => DeletedStaysDeleted
<1>1. TableInv /\ [Next]_vars => [DeletionsStay]_vars
  BY TableStep
<1>2. Spec => [][DeletionsStay]_vars
  BY <1>1, TableInvariance, PTL DEF Spec
<1> QED
  BY <1>2 DEF DeletedStaysDeleted, DeletionsStay

\* VACUUM takes no row from any transaction: it removes only what cleanupTable finds
\* deleted by a committed transaction, and VisibilityChecker hides that from
\* everybody.
THEOREM VacuumIsSafe == Spec => VacuumKeepsVisible
<1> DEFINE Kept == \A f \in Faults : Vacuum(f) =>
             \A t \in 0..(Len(txns) + 1) : Rows(txns, pages, t)' = Rows(txns, pages, t)
<1>1. TableInv /\ [Next]_vars => [Kept]_vars
  BY InvParts, VacuumStep
<1> QED
  BY <1>1, TableInvariance, PTL DEF Spec, VacuumKeepsVisible

=============================================================================
