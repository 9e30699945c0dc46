--------------------------- MODULE BufferPoolProofs ---------------------------
(***************************************************************************)
(* TLAPS proofs about BufferPool, for every pool size, file size, set of   *)
(* clients and set of contents: the frames are never lost or shared, a     *)
(* pinned page stays in its frame, a clean page equals the file, and the   *)
(* pool implements PageStore.                                              *)
(***************************************************************************)
EXTENDS BufferPool, FiniteSetTheorems, TLAPS

\* Page ids in use have been allocated, so a new id is never resident.
IdsAllocated ==
  /\ nextPageId <= numPages + 1
  /\ \A p \in DOMAIN pageTable : p < nextPageId

IInv == TypeOK /\ FramesPartition /\ PinsProtect /\ CleanMeansSaved /\ IdsAllocated

-----------------------------------------------------------------------------
\* The set of clients that hold a page is finite and its size a number.
LEMMA HoldersFinite ==
  ASSUME NEW p
  PROVE  /\ IsFiniteSet(Holders(p))
         /\ Cardinality(Holders(p)) \in Nat
         /\ Cardinality(Holders(p)) = 0 <=> Holders(p) = {}
<1>1. Holders(p) \in SUBSET Clients
  BY Zenon DEF Holders
<1>2. IsFiniteSet(Holders(p))
  BY <1>1, FS_Subset, PoolAssumption, Zenon
<1> QED
  BY <1>2, FS_CardinalityType, FS_EmptySet, Zenon

\* A victim is a frame that holds an unpinned page.
LEMMA VictimFacts ==
  ASSUME TypeOK, NEW v \in FindVictim
  PROVE  v \in Frames /\ Evictable(v) /\ NextHand(v) \in Frames
<1>1. PICK n \in Accepted : v = Scanned(n)
  BY Zenon DEF FindVictim
<1>2. n \in PoolSize..(2 * PoolSize - 1) /\ Evictable(v)
  BY <1>1, Zenon DEF Accepted
<1>3. v \in Frames
  BY <1>1, <1>2, PoolAssumption DEF Scanned, Frames, TypeOK
<1>4. NextHand(v) \in Frames
  BY <1>3, PoolAssumption DEF NextHand, Frames
<1> QED
  BY <1>2, <1>3, <1>4, Zenon

\* What acquiring a frame does to the tables and to the file d: the frame is
\* free of every use, all other frames keep theirs, and a page that lost its
\* frame was not pinned and has its latest contents in the file.
Good(a, d) ==
  /\ a.frame \in Frames
  /\ a.hand \in Frames
  /\ a.free \in Seq(Frames)
  /\ a.disk \in Seq(Image)
  /\ Len(a.disk) = Len(d)
  /\ DOMAIN a.table \subseteq DOMAIN pageTable
  /\ a.table \in [DOMAIN a.table -> Frames]
  /\ \A p \in DOMAIN a.table : a.table[p] = pageTable[p] /\ a.table[p] # a.frame
  /\ \A i, j \in 1..Len(a.free) : a.free[i] = a.free[j] => i = j
  /\ \A i \in 1..Len(a.free) : a.free[i] # a.frame
  /\ \A i \in 1..Len(a.free) : \A p \in DOMAIN a.table : a.free[i] # a.table[p]
  /\ \A f \in Frames : \/ f = a.frame
                       \/ \E i \in 1..Len(a.free) : a.free[i] = f
                       \/ \E p \in DOMAIN a.table : a.table[p] = f
  /\ \A p \in DOMAIN pageTable \ DOMAIN a.table :
       Holders(p) = {} /\ a.disk[p].data = frames[pageTable[p]].page.data
  /\ \A p \in 1..Len(d) : p \notin DOMAIN pageTable \ DOMAIN a.table => a.disk[p] = d[p]

\* The frame that fetchPage and newPage take is unused, and what they leave of
\* the page table, the free list and the file fits together.
LEMMA AcquiredIsGood ==
  ASSUME IInv, NEW d \in Seq(Image), Len(d) >= numPages,
         \A p \in 1..numPages : d[p] = disk[p], NEW a \in Acquired(d)
  PROVE  Good(a, d)
<1>1. CASE freeList # <<>>
  <2>1. a = [frame |-> Head(freeList), free |-> Tail(freeList), table |-> pageTable,
             disk |-> d, hand |-> clockHand]
    BY <1>1, Zenon DEF Acquired
  <2>2. freeList \in Seq(Frames) /\ Len(freeList) \in Nat /\ Len(freeList) >= 1
    BY <1>1 DEF IInv, TypeOK
  <2>3. /\ a.free \in Seq(Frames)
        /\ Len(a.free) = Len(freeList) - 1
        /\ a.frame = freeList[1]
        /\ \A i \in 1..Len(a.free) : a.free[i] = freeList[i + 1]
    BY <1>1, <2>1, <2>2
  <2>4. \A i \in 1..Len(freeList) : i = 1 \/ (i - 1 \in 1..Len(a.free) /\ a.free[i - 1] = freeList[i])
    BY <2>2, <2>3
  <2>5. /\ \A i, j \in 1..Len(a.free) : a.free[i] = a.free[j] => i = j
        /\ \A i \in 1..Len(a.free) : a.free[i] # a.frame
    <3>1. \A i \in 1..Len(a.free) : i + 1 \in 1..Len(freeList) /\ i + 1 # 1
      BY <2>2, <2>3
    <3>2. 1 \in 1..Len(freeList) /\ \A i, j \in 1..Len(freeList) : freeList[i] = freeList[j] => i = j
      BY <2>2 DEF IInv, FramesPartition
    <3>3. ASSUME NEW i \in 1..Len(a.free), NEW j \in 1..Len(a.free), a.free[i] = a.free[j]
          PROVE  i = j
      <4>1. i + 1 = j + 1
        BY <2>3, <3>1, <3>2, <3>3
      <4> QED
        BY <2>2, <2>3, <4>1
    <3> QED
      BY <2>3, <3>1, <3>2, <3>3, Zenon
  <2>6. \A i \in 1..Len(a.free) : \A p \in DOMAIN a.table : a.free[i] # a.table[p]
    BY <2>1, <2>2, <2>3 DEF IInv, FramesPartition
  <2>7. \A p \in DOMAIN a.table : a.table[p] = pageTable[p] /\ a.table[p] # a.frame
    BY <2>1, <2>2, <2>3 DEF IInv, FramesPartition
  <2>8. \A f \in Frames : \/ f = a.frame
                          \/ \E i \in 1..Len(a.free) : a.free[i] = f
                          \/ \E p \in DOMAIN a.table : a.table[p] = f
    <3>1. ASSUME NEW f \in Frames, NEW i \in 1..Len(freeList), freeList[i] = f
          PROVE  f = a.frame \/ \E j \in 1..Len(a.free) : a.free[j] = f
      BY <2>3, <2>4, <3>1, Zenon
    <3>2. a.table = pageTable
      BY <2>1, Zenon
    <3> QED
      BY <3>1, <3>2, Zenon DEF IInv, FramesPartition
  <2>9. a.frame \in Frames /\ a.hand \in Frames /\ a.disk = d /\ a.table = pageTable
    BY <2>1, <2>2, <2>3 DEF IInv, TypeOK
  <2> QED
    BY <2>3, <2>5, <2>6, <2>7, <2>8, <2>9, Zenon DEF Good, IInv, TypeOK
<1>2. CASE freeList = <<>>
  <2>1. PICK v \in FindVictim :
          a = [frame |-> v, free |-> <<>>, table |-> Erase(pageTable, frames[v].pageId),
               disk |-> IF frames[v].isDirty
                        THEN [d EXCEPT ![frames[v].pageId] = frames[v].page]
                        ELSE d,
               hand |-> NextHand(v)]
    BY <1>2, Zenon DEF Acquired
  <2> DEFINE q == frames[v].pageId
  <2>2. v \in Frames /\ Evictable(v) /\ NextHand(v) \in Frames
    BY VictimFacts, Zenon DEF IInv
  <2>3. PICK p \in DOMAIN pageTable : pageTable[p] = v
    BY <1>2, <2>2 DEF IInv, FramesPartition
  <2>4. q \in DOMAIN pageTable /\ pageTable[q] = v /\ q \in 1..numPages
    BY <2>3 DEF IInv, FramesPartition, TypeOK, PageIds
  <2>5. \A r \in DOMAIN pageTable : pageTable[r] = v => r = q
    BY <2>4, Zenon DEF IInv, FramesPartition
  <2>6. Holders(q) = {}
    <3>1. frames[v].pinCount = Cardinality(Holders(q))
      BY <2>4, Zenon DEF IInv, PinsProtect
    <3> QED
      BY <2>2, <3>1, HoldersFinite DEF Evictable
  <2>7. /\ a.disk \in Seq(Image)
        /\ Len(a.disk) = Len(d)
        /\ a.disk[q].data = frames[v].page.data
        /\ \A r \in 1..Len(d) : r # q => a.disk[r] = d[r]
    <3>1. q \in 1..Len(d) /\ frames[v].page \in Image
      BY <2>2, <2>4 DEF IInv, TypeOK, Frame, PageIds
    <3>2. CASE frames[v].isDirty
      BY <2>1, <3>1, <3>2
    <3>3. CASE ~frames[v].isDirty
      <4>1. disk[q].data = frames[v].page.data
        BY <2>4, <2>6, <3>3, Zenon DEF IInv, CleanMeansSaved, Writers
      <4> QED
        BY <2>1, <2>4, <3>3, <4>1, Zenon
    <3> QED
      BY <3>2, <3>3, Zenon
  <2>8. /\ DOMAIN a.table = DOMAIN pageTable \ {q}
        /\ \A r \in DOMAIN a.table : a.table[r] = pageTable[r] /\ a.table[r] # v
        /\ a.table \in [DOMAIN a.table -> Frames]
    BY <2>1, <2>5, Zenon DEF Erase, IInv, TypeOK
  <2>9. a.frame = v /\ a.hand = NextHand(v) /\ a.free = <<>>
    BY <2>1, Zenon
  <2>10. \A f \in Frames : f = v \/ \E r \in DOMAIN a.table : a.table[r] = f
    BY <1>2, <2>4, <2>8 DEF IInv, FramesPartition
  <2> HIDE DEF q
  <2> QED
    BY <2>2, <2>4, <2>6, <2>7, <2>8, <2>9, <2>10 DEF Good
<1> QED
  BY <1>1, <1>2, Zenon

-----------------------------------------------------------------------------
\* A client that pins page p is one more holder of p, and has not written yet.
LEMMA PinOpened ==
  ASSUME TypeOK, NEW c \in Clients, ~HasPin(c), NEW p \in PageIds, NEW f \in Frames,
         pin' = [pin EXCEPT ![c] = [page |-> p, frame |-> f, wrote |-> FALSE]]
  PROVE  /\ pin' \in [Clients -> Pin \cup {Closed}]
         /\ pin'[c] = [page |-> p, frame |-> f, wrote |-> FALSE]
         /\ HasPin(c)'
         /\ \A b \in Clients : b # c => pin'[b] = pin[b]
         /\ Cardinality(Holders(p)') = Cardinality(Holders(p)) + 1
         /\ \A r : r # p => Holders(r)' = Holders(r)
         /\ \A r : Writers(r)' = Writers(r)
<1> DEFINE new == [page |-> p, frame |-> f, wrote |-> FALSE]
<1>1. new \in Pin /\ new # Closed /\ new.page = p /\ ~new.wrote
  <2>1. new \in Pin /\ new.page = p /\ ~new.wrote
    BY Zenon DEF Pin
  <2>2. p \in Nat /\ f \in Nat
    BY PoolAssumption DEF PageIds, Frames
  <2>3. new \in [page : Nat, frame : Nat, wrote : BOOLEAN]
    BY <2>2, Zenon
  <2> HIDE DEF new
  <2> QED
    BY <2>1, <2>3, PoolAssumption, Zenon
<1>2. pin'[c] = new /\ \A b \in Clients : b # c => pin'[b] = pin[b]
  BY Zenon DEF TypeOK
<1> HIDE DEF new
<1>3. HasPin(c)' /\ c \notin Holders(p) /\ Holders(p)' = Holders(p) \cup {c}
  BY <1>1, <1>2, Zenon DEF HasPin, Holders
<1>4. \A r : r # p => Holders(r)' = Holders(r)
  BY <1>1, <1>2, Zenon DEF HasPin, Holders
<1>5. \A r : Writers(r)' = Writers(r)
  BY <1>1, <1>2, Zenon DEF HasPin, Holders, Writers
<1>6. Cardinality(Holders(p)') = Cardinality(Holders(p)) + 1
  BY <1>3, HoldersFinite, FS_AddElement, Zenon
<1>7. pin' \in [Clients -> Pin \cup {Closed}]
  BY <1>1, Zenon DEF TypeOK, new
<1> QED
  BY <1>2, <1>3, <1>4, <1>5, <1>6, <1>7, Zenon DEF new

\* A client that unpins its page is one holder less.
LEMMA PinClosed ==
  ASSUME TypeOK, NEW c \in Clients, HasPin(c), NEW p \in PageIds, pin[c].page = p,
         pin' = [pin EXCEPT ![c] = Closed]
  PROVE  /\ pin' \in [Clients -> Pin \cup {Closed}]
         /\ ~HasPin(c)'
         /\ \A b \in Clients : b # c => pin'[b] = pin[b]
         /\ Cardinality(Holders(p)) >= 1
         /\ Cardinality(Holders(p)') = Cardinality(Holders(p)) - 1
         /\ \A r : r # p => Holders(r)' = Holders(r)
         /\ \A r : Writers(r)' = Writers(r) \ {c}
<1>1. ~HasPin(c)' /\ \A b \in Clients : b # c => pin'[b] = pin[b]
  BY Zenon DEF TypeOK, HasPin
<1>2. c \in Holders(p) /\ Holders(p)' = Holders(p) \ {c}
  <2>1. c \in Holders(p)
    BY Zenon DEF Holders
  <2>2. \A b \in Clients : (HasPin(b)' /\ pin'[b].page = p) <=> (HasPin(b) /\ pin[b].page = p /\ b # c)
    BY <1>1, Zenon DEF HasPin
  <2>3. Holders(p)' = Holders(p) \ {c}
    BY <2>2, Zenon DEF Holders
  <2> QED
    BY <2>1, <2>3, Zenon
<1>3. ASSUME NEW r, r # p
      PROVE  Holders(r)' = Holders(r)
  <2>1. \A b \in Clients : (HasPin(b)' /\ pin'[b].page = r) <=> (HasPin(b) /\ pin[b].page = r)
    BY <1>1, <1>3, Zenon DEF HasPin
  <2> QED
    BY <2>1, Zenon DEF Holders
<1>4. \A r : Writers(r)' = Writers(r) \ {c}
  BY <1>1, Zenon DEF Holders, Writers, HasPin
<1>5. Cardinality(Holders(p)') = Cardinality(Holders(p)) - 1
  BY <1>2, HoldersFinite, FS_RemoveElement
<1>6. Cardinality(Holders(p)) >= 1
  <2>1. Holders(p) # {}
    BY <1>2, Zenon
  <2>2. Cardinality(Holders(p)) \in Nat /\ Cardinality(Holders(p)) # 0
    BY <2>1, HoldersFinite, Zenon
  <2> QED
    BY <2>2
<1>7. pin' \in [Clients -> Pin \cup {Closed}]
  BY Zenon DEF TypeOK
<1> QED
  BY <1>1, <1>3, <1>4, <1>5, <1>6, <1>7, Zenon

-----------------------------------------------------------------------------
\* The invariant after a page p has been loaded into an acquired frame and
\* pinned by a client (the common end of FetchMiss and NewPage).
LEMMA LoadStep ==
  ASSUME IInv, NEW d \in Seq(Image), Len(d) \in PageIds, Len(d) >= numPages,
         NEW a, Good(a, d),
         NEW c \in Clients, ~HasPin(c), NEW p \in 1..Len(d), ~IsResident(p),
         NEW fr \in Frame, fr.pageId = p, fr.pinCount = 1,
         fr.isDirty \/ fr.page.data = a.disk[p].data,
         \A r \in 1..numPages : d[r] = disk[r],
         disk' = a.disk, frames' = [frames EXCEPT ![a.frame] = fr],
         pageTable' = Put(a.table, p, a.frame), freeList' = a.free, clockHand' = a.hand,
         pin' = [pin EXCEPT ![c] = [page |-> p, frame |-> a.frame, wrote |-> FALSE]],
         nextPageId' \in 1..(MaxPages + 1), nextPageId' >= nextPageId,
         nextPageId' <= Len(d) + 1, p < nextPageId'
  PROVE  IInv'
<1>1. /\ p \in PageIds /\ a.frame \in Frames
      /\ Len(d) \in Nat /\ numPages \in Nat /\ MaxPages \in Nat
  BY PoolAssumption DEF PageIds, Good, IInv, TypeOK, numPages
<1>2. /\ pin' \in [Clients -> Pin \cup {Closed}]
      /\ pin'[c] = [page |-> p, frame |-> a.frame, wrote |-> FALSE]
      /\ HasPin(c)'
      /\ \A b \in Clients : b # c => pin'[b] = pin[b]
      /\ Cardinality(Holders(p)') = Cardinality(Holders(p)) + 1
      /\ \A r : r # p => Holders(r)' = Holders(r)
      /\ \A r : Writers(r)' = Writers(r)
  BY <1>1, PinOpened DEF IInv
<1>3. Cardinality(Holders(p)') = 1
  <2>1. Holders(p) = {}
    <3>1. \A b \in Clients : HasPin(b) => IsResident(pin[b].page)
      BY Zenon DEF IInv, PinsProtect
    <3> QED
      BY <3>1, Zenon DEF Holders
  <2>2. Cardinality(Holders(p)) = 0
    BY <2>1, HoldersFinite, Zenon
  <2> QED
    BY <1>2, <2>2
<1>4. /\ DOMAIN pageTable' = DOMAIN a.table \cup {p}
      /\ p \notin DOMAIN a.table
      /\ pageTable'[p] = a.frame
      /\ \A r \in DOMAIN a.table :
           r \in DOMAIN pageTable /\ pageTable'[r] = pageTable[r] /\ pageTable[r] # a.frame
  BY DEF Put, Good, IsResident
<1>5. /\ frames' \in [Frames -> Frame]
      /\ frames'[a.frame] = fr
      /\ \A f \in Frames : f # a.frame => frames'[f] = frames[f]
  BY <1>1, Zenon DEF IInv, TypeOK
<1>6. TypeOK'
  <2>1. DOMAIN pageTable' \subseteq PageIds
    BY <1>1, <1>4, Zenon DEF IInv, TypeOK
  <2>2. pageTable' \in [DOMAIN pageTable' -> Frames]
    BY <1>1, <1>4, Zenon DEF IInv, TypeOK, Put
  <2>3. disk' \in Seq(Image) /\ numPages' \in PageIds /\ freeList' \in Seq(Frames) /\ clockHand' \in Frames
    BY Zenon DEF Good, numPages
  <2> QED
    BY <1>2, <1>5, <2>1, <2>2, <2>3, Zenon DEF TypeOK
<1>7. FramesPartition'
  <2>1. \A i, j \in 1..Len(freeList') : freeList'[i] = freeList'[j] => i = j
    BY Zenon DEF Good
  <2>2. ASSUME NEW r \in DOMAIN pageTable'
        PROVE  /\ r <= numPages'
               /\ frames'[pageTable'[r]].pageId = r
               /\ \A i \in 1..Len(freeList') : freeList'[i] # pageTable'[r]
    <3>1. CASE r = p
      BY <1>1, <1>4, <1>5, <3>1 DEF Good, numPages
    <3>2. CASE r # p
      <4>1. r \in DOMAIN a.table
        BY <1>4, <2>2, <3>2, Zenon
      <4>2. frames'[pageTable'[r]] = frames[pageTable[r]] /\ pageTable'[r] = a.table[r]
        BY <1>4, <1>5, <4>1 DEF IInv, TypeOK, Good
      <4>3. r <= numPages /\ frames[pageTable[r]].pageId = r /\ r \in Nat
        BY <1>4, <4>1 DEF IInv, FramesPartition, TypeOK, PageIds
      <4>4. numPages' = Len(d)
        BY Zenon DEF Good, numPages
      <4> QED
        BY <1>1, <4>1, <4>2, <4>3, <4>4 DEF Good
    <3> QED
      BY <3>1, <3>2, Zenon
  <2>3. ASSUME NEW f \in Frames
        PROVE  \/ \E i \in 1..Len(freeList') : freeList'[i] = f
               \/ \E r \in DOMAIN pageTable' : pageTable'[r] = f
    <3>1. CASE f = a.frame
      BY <1>4, <3>1, Zenon
    <3>2. CASE \E i \in 1..Len(a.free) : a.free[i] = f
      BY <3>2, Zenon
    <3>3. CASE \E r \in DOMAIN a.table : a.table[r] = f
      <4>1. PICK r \in DOMAIN a.table : a.table[r] = f
        BY <3>3, Zenon
      <4>2. pageTable'[r] = pageTable[r] /\ a.table[r] = pageTable[r]
        BY <1>4, <4>1, Zenon DEF Good
      <4> QED
        BY <1>4, <4>1, <4>2, Zenon
    <3> QED
      BY <3>1, <3>2, <3>3, Zenon DEF Good
  <2> QED
    BY <2>1, <2>2, <2>3, Zenon DEF FramesPartition
<1>8. PinsProtect'
  <2>1. ASSUME NEW b \in Clients, HasPin(b)'
        PROVE  IsResident(pin[b].page)' /\ pageTable'[pin'[b].page] = pin'[b].frame
    <3>1. CASE b = c
      BY <1>2, <1>4, <3>1, Zenon DEF IsResident
    <3>2. CASE b # c
      <4>1. pin'[b] = pin[b] /\ HasPin(b) /\ pin[b].page \in DOMAIN pageTable
        BY <1>2, <2>1, <3>2, Zenon DEF HasPin, IInv, PinsProtect, IsResident
      <4>2. b \in Holders(pin[b].page)
        BY <4>1, Zenon DEF Holders
      <4>3. pin[b].page \in DOMAIN a.table
        BY <4>1, <4>2, Zenon DEF Good
      <4> QED
        BY <1>4, <4>1, <4>3 DEF IInv, PinsProtect, IsResident
    <3> QED
      BY <3>1, <3>2, Zenon
  <2>2. ASSUME NEW r \in DOMAIN pageTable'
        PROVE  frames'[pageTable'[r]].pinCount = Cardinality(Holders(r)')
    <3>1. CASE r = p
      BY <1>3, <1>4, <1>5, <3>1, Zenon
    <3>2. CASE r # p
      BY <1>2, <1>4, <1>5, <2>2, <3>2 DEF IInv, PinsProtect, TypeOK
    <3> QED
      BY <3>1, <3>2, Zenon
  <2> QED
    BY <2>1, <2>2, Zenon DEF PinsProtect
<1>9. CleanMeansSaved'
  <2> SUFFICES ASSUME NEW r \in DOMAIN pageTable'
               PROVE  \/ frames'[pageTable'[r]].isDirty
                      \/ Writers(r)' # {}
                      \/ disk'[r].data = frames'[pageTable'[r]].page.data
    BY Zenon DEF CleanMeansSaved
  <2>1. CASE r = p
    BY <1>4, <1>5, <2>1
  <2>2. CASE r # p
    <3>1. r \in DOMAIN a.table /\ r \in DOMAIN pageTable /\ pageTable'[r] = pageTable[r]
      BY <1>4, <2>2, Zenon
    <3>2. r \in 1..numPages /\ r \in 1..Len(d)
      BY <1>1, <3>1 DEF IInv, FramesPartition, TypeOK, PageIds
    <3>3. a.disk[r] = disk[r]
      BY <3>1, <3>2, Zenon DEF Good
    <3>4. frames'[pageTable'[r]] = frames[pageTable[r]]
      BY <1>4, <1>5, <3>1 DEF IInv, TypeOK
    <3> QED
      BY <1>2, <3>1, <3>3, <3>4, Zenon DEF IInv, CleanMeansSaved
  <2> QED
    BY <2>1, <2>2, Zenon
<1>10. IdsAllocated'
  <2>1. nextPageId' <= numPages' + 1
    BY Zenon DEF Good, numPages
  <2>2. ASSUME NEW r \in DOMAIN pageTable'
        PROVE  r < nextPageId'
    <3>1. r = p \/ (r \in DOMAIN pageTable /\ r \in Nat)
      BY <1>4 DEF IInv, TypeOK, PageIds
    <3> QED
      BY <3>1 DEF IInv, IdsAllocated, TypeOK
  <2> QED
    BY <2>1, <2>2, Zenon DEF IdsAllocated
<1> QED
  BY <1>6, <1>7, <1>8, <1>9, <1>10, Zenon DEF IInv

-----------------------------------------------------------------------------
\* A new pool: all frames are free.
LEMMA InitInv == Init => IInv
<1> SUFFICES ASSUME Init PROVE IInv
  BY Zenon
<1> USE PoolAssumption
<1>1. PICK n \in PageIds : disk \in [1..n -> {ZeroImage}]
  BY Zenon DEF Init
<1>2. n \in Nat /\ n >= 1 /\ n <= MaxPages
  BY DEF PageIds
<1>3. disk \in Seq(Image) /\ numPages = n
  <2>1. ZeroImage \in Image
    BY Zenon DEF ZeroImage, Image, Contents
  <2> QED
    BY <1>1, <1>2, <2>1 DEF numPages
<1>4. nextPageId \in 1..(MaxPages + 1) /\ nextPageId <= numPages + 1
  BY <1>2, <1>3 DEF Init
<1>5. DOMAIN pageTable = {}
  BY Zenon DEF Init
<1>6. freeList \in Seq(Frames) /\ Len(freeList) = PoolSize /\ \A i \in 1..PoolSize : freeList[i] = i - 1
  BY DEF Init, Frames
<1>7. TypeOK
  <2>1. frames \in [Frames -> Frame]
    <3>1. ResetImage \in Image
      BY Zenon DEF ResetImage, Image, Contents
    <3> QED
      BY <3>1 DEF Init, Frame, INVALID_PAGE_ID
  <2>2. clockHand \in Frames
    BY DEF Init, Frames
  <2>3. pin \in [Clients -> Pin \cup {Closed}]
    BY Zenon DEF Init
  <2>4. pageTable \in [DOMAIN pageTable -> Frames]
    BY <1>5, Zenon DEF Init
  <2> QED
    BY <1>3, <1>4, <1>5, <1>6, <2>1, <2>2, <2>3, <2>4, Zenon DEF TypeOK
<1>8. FramesPartition
  <2>1. \A i, j \in 1..Len(freeList) : freeList[i] = freeList[j] => i = j
    BY <1>6
  <2>2. \A f \in Frames : f + 1 \in 1..PoolSize /\ freeList[f + 1] = f
    BY <1>6 DEF Frames
  <2> QED
    BY <1>5, <1>6, <2>1, <2>2, Zenon DEF FramesPartition
<1>9. PinsProtect
  BY <1>5, Zenon DEF Init, PinsProtect, HasPin
<1>10. CleanMeansSaved /\ IdsAllocated
  BY <1>4, <1>5, Zenon DEF CleanMeansSaved, IdsAllocated
<1> QED
  BY <1>7, <1>8, <1>9, <1>10, Zenon DEF IInv

\* fetchPage of a resident page.
LEMMA FetchHitStep ==
  ASSUME IInv, NEW c \in Clients, NEW p, FetchHit(c, p)
  PROVE  IInv'
<1>1. p \in DOMAIN pageTable /\ p \in PageIds /\ ~HasPin(c)
  BY Zenon DEF FetchHit, IsResident, IInv, TypeOK
<1>2. PICK f \in Frames : f = pageTable[p]
  BY <1>1, Zenon DEF IInv, TypeOK
<1>3. /\ frames' = [frames EXCEPT ![f].pinCount = @ + 1]
      /\ pin' = [pin EXCEPT ![c] = [page |-> p, frame |-> f, wrote |-> FALSE]]
      /\ UNCHANGED <<disk, nextPageId, pageTable, freeList, clockHand>>
  BY <1>2, Zenon DEF FetchHit
<1>4. /\ pin' \in [Clients -> Pin \cup {Closed}]
      /\ pin'[c] = [page |-> p, frame |-> f, wrote |-> FALSE]
      /\ \A b \in Clients : b # c => pin'[b] = pin[b]
      /\ Cardinality(Holders(p)') = Cardinality(Holders(p)) + 1
      /\ \A r : r # p => Holders(r)' = Holders(r)
      /\ \A r : Writers(r)' = Writers(r)
  BY <1>1, <1>3, PinOpened, Zenon DEF IInv
<1>5. /\ frames' \in [Frames -> Frame]
      /\ frames'[f].pinCount = frames[f].pinCount + 1
      /\ \A g \in Frames : /\ frames'[g].pageId = frames[g].pageId
                           /\ frames'[g].isDirty = frames[g].isDirty
                           /\ frames'[g].page = frames[g].page
                           /\ g # f => frames'[g] = frames[g]
  <2>1. frames \in [Frames -> Frame]
    BY Zenon DEF IInv, TypeOK
  <2>2. /\ frames'[f] = [frames[f] EXCEPT !.pinCount = @ + 1]
        /\ \A g \in Frames : g # f => frames'[g] = frames[g]
        /\ DOMAIN frames' = Frames /\ frames' = [g \in Frames |-> frames'[g]]
    BY <1>3, <2>1, Zenon
  <2>3. /\ frames'[f] \in Frame
        /\ frames'[f].pinCount = frames[f].pinCount + 1
        /\ frames'[f].pageId = frames[f].pageId
        /\ frames'[f].isDirty = frames[f].isDirty
        /\ frames'[f].page = frames[f].page
    BY <2>1, <2>2 DEF Frame
  <2> QED
    BY <2>1, <2>2, <2>3, Zenon
<1>6. \A r \in DOMAIN pageTable : pageTable[r] \in Frames /\ (pageTable[r] = f => r = p)
  BY <1>1, <1>2, Zenon DEF IInv, TypeOK, FramesPartition
<1>7. TypeOK'
  BY <1>3, <1>4, <1>5, Zenon DEF IInv, TypeOK, numPages
<1>8. FramesPartition'
  BY <1>3, <1>5, <1>6 DEF IInv, FramesPartition, numPages
<1>9. PinsProtect'
  <2>1. ASSUME NEW b \in Clients, HasPin(b)'
        PROVE  IsResident(pin[b].page)' /\ pageTable'[pin'[b].page] = pin'[b].frame
    BY <1>1, <1>2, <1>3, <1>4, <2>1, Zenon DEF IInv, PinsProtect, HasPin, IsResident
  <2>2. ASSUME NEW r \in DOMAIN pageTable
        PROVE  frames'[pageTable[r]].pinCount = Cardinality(Holders(r)')
    <3>1. frames[pageTable[r]].pinCount = Cardinality(Holders(r))
      BY Zenon DEF IInv, PinsProtect
    <3>2. CASE r = p
      BY <1>2, <1>4, <1>5, <3>1, <3>2, Zenon
    <3>3. CASE r # p
      BY <1>4, <1>5, <1>6, <3>1, <3>3, Zenon
    <3> QED
      BY <3>2, <3>3, Zenon
  <2> QED
    BY <1>3, <2>1, <2>2, Zenon DEF PinsProtect
<1>10. CleanMeansSaved' /\ IdsAllocated'
  BY <1>3, <1>4, <1>5, <1>6 DEF IInv, CleanMeansSaved, IdsAllocated, numPages
<1> QED
  BY <1>7, <1>8, <1>9, <1>10, Zenon DEF IInv

\* fetchPage of a page that must be loaded.
LEMMA FetchMissStep ==
  ASSUME IInv, ~Probing, NEW c \in Clients, NEW p \in 1..(MaxPages + 1), FetchMiss(c, p)
  PROVE  IInv'
<1>1. /\ ~HasPin(c) /\ ~IsResident(p) /\ p <= numPages /\ MayFetch(p)
      /\ UNCHANGED nextPageId
  BY Zenon DEF FetchMiss
<1>2. PICK d : d = disk
  BY Zenon
<1>3. d \in Seq(Image) /\ Len(d) \in PageIds /\ Len(d) = numPages /\ p \in 1..Len(d) /\ p < nextPageId
  BY <1>1, <1>2 DEF IInv, TypeOK, numPages, MayFetch, PageIds
<1>4. PICK a \in Acquired(disk) :
        /\ disk' = a.disk
        /\ frames' = [frames EXCEPT ![a.frame] =
                        [pageId |-> p, isDirty |-> FALSE, pinCount |-> 1, page |-> a.disk[p]]]
        /\ pageTable' = Put(a.table, p, a.frame)
        /\ freeList' = a.free
        /\ clockHand' = a.hand
        /\ pin' = [pin EXCEPT ![c] = [page |-> p, frame |-> a.frame, wrote |-> FALSE]]
  BY Zenon DEF FetchMiss
<1>5. numPages \in Nat /\ nextPageId \in 1..(MaxPages + 1) /\ nextPageId <= Len(d) + 1
  BY <1>3 DEF IInv, TypeOK, PageIds, IdsAllocated
<1>6. Good(a, d)
  <2>1. Len(d) >= numPages /\ a \in Acquired(d) /\ \A r \in 1..numPages : d[r] = disk[r]
    BY <1>2, <1>3, <1>4, <1>5
  <2> QED
    BY <1>3, <2>1, AcquiredIsGood, Zenon
<1>7. PICK fr : fr = [pageId |-> p, isDirty |-> FALSE, pinCount |-> 1, page |-> a.disk[p]]
  BY Zenon
<1>8. fr \in Frame /\ fr.pageId = p /\ fr.pinCount = 1 /\ fr.page.data = a.disk[p].data
  <2>1. a.disk[p] \in Image
    BY <1>3, <1>6 DEF Good
  <2>2. p \in 0..MaxPages
    BY <1>3, PoolAssumption DEF PageIds
  <2> QED
    BY <1>7, <2>1, <2>2, Zenon DEF Frame
<1>9. /\ Len(d) >= numPages
      /\ \A r \in 1..numPages : d[r] = disk[r]
      /\ frames' = [frames EXCEPT ![a.frame] = fr]
      /\ nextPageId' \in 1..(MaxPages + 1) /\ nextPageId' >= nextPageId
      /\ nextPageId' <= Len(d) + 1 /\ p < nextPageId'
  BY <1>1, <1>2, <1>3, <1>4, <1>5, <1>7
<1> QED
  BY <1>1, <1>3, <1>4, <1>6, <1>8, <1>9, LoadStep, Zenon

\* The file that newPage works on has the new page, and all the old ones.
LEMMA ExtendedFacts ==
  ASSUME IInv, nextPageId <= MaxPages
  PROVE  /\ ExtendedFile \in Seq(Image)
         /\ Len(ExtendedFile) \in PageIds
         /\ Len(ExtendedFile) >= numPages
         /\ nextPageId \in 1..Len(ExtendedFile)
         /\ \A r \in 1..numPages : ExtendedFile[r] = disk[r]
         /\ numPages \in Nat /\ MaxPages \in Nat /\ nextPageId \in Nat
<1>1. /\ disk \in Seq(Image) /\ Len(disk) \in Nat /\ Len(disk) >= 1 /\ Len(disk) <= MaxPages
      /\ nextPageId \in Nat /\ nextPageId >= 1 /\ nextPageId <= Len(disk) + 1 /\ MaxPages \in Nat
  BY PoolAssumption DEF IInv, TypeOK, IdsAllocated, PageIds, numPages
<1>2. ZeroImage \in Image
  BY Zenon DEF ZeroImage, Image, Contents
<1>3. CASE nextPageId > numPages
  <2>1. ExtendedFile = Append(disk, ZeroImage)
    BY <1>3, Zenon DEF ExtendedFile
  <2> QED
    BY <1>1, <1>2, <1>3, <2>1 DEF numPages, PageIds
<1>4. CASE ~(nextPageId > numPages)
  <2>1. ExtendedFile = disk
    BY <1>4, Zenon DEF ExtendedFile
  <2> QED
    BY <1>1, <1>4, <2>1 DEF numPages, PageIds
<1> QED
  BY <1>3, <1>4, Zenon

\* newPage: the new id is not resident, since it was never allocated.
LEMMA NewPageStep ==
  ASSUME IInv, NEW c \in Clients, NewPage(c)
  PROVE  IInv'
<1>1. ~HasPin(c) /\ nextPageId <= MaxPages /\ nextPageId' = nextPageId + 1
  BY Zenon DEF NewPage
<1>2. PICK d : d = ExtendedFile
  BY Zenon
<1>3. PICK p : p = nextPageId
  BY Zenon
<1>4. /\ d \in Seq(Image) /\ Len(d) \in PageIds /\ Len(d) >= numPages /\ p \in 1..Len(d)
      /\ \A r \in 1..numPages : d[r] = disk[r]
      /\ p \in Nat /\ MaxPages \in Nat
  BY <1>1, <1>2, <1>3, ExtendedFacts, Zenon
<1>5. PICK a \in Acquired(ExtendedFile) :
        /\ disk' = a.disk
        /\ frames' = [frames EXCEPT ![a.frame] =
                        [pageId |-> nextPageId, isDirty |-> TRUE, pinCount |-> 1,
                         page |-> ResetImage]]
        /\ pageTable' = Put(a.table, nextPageId, a.frame)
        /\ freeList' = a.free
        /\ clockHand' = a.hand
        /\ pin' = [pin EXCEPT ![c] = [page |-> nextPageId, frame |-> a.frame, wrote |-> FALSE]]
  BY Zenon DEF NewPage
<1>6. PICK fr : fr = [pageId |-> p, isDirty |-> TRUE, pinCount |-> 1, page |-> ResetImage]
  BY Zenon
<1>7. fr \in Frame /\ fr.pageId = p /\ fr.pinCount = 1 /\ fr.isDirty
  <2>1. ResetImage \in Image
    BY Zenon DEF ResetImage, Image, Contents
  <2>2. p \in 0..MaxPages
    BY <1>1, <1>3, <1>4
  <2> QED
    BY <1>6, <2>1, <2>2, Zenon DEF Frame
<1>8. Good(a, d)
  BY <1>2, <1>4, <1>5, AcquiredIsGood, Zenon
<1>9. ~IsResident(p)
  BY <1>3, <1>4 DEF IInv, IdsAllocated, IsResident
<1>10. /\ nextPageId' \in 1..(MaxPages + 1) /\ nextPageId' >= nextPageId
       /\ nextPageId' <= Len(d) + 1 /\ p < nextPageId'
  BY <1>1, <1>3, <1>4 DEF PageIds
<1>11. /\ frames' = [frames EXCEPT ![a.frame] = fr]
       /\ pageTable' = Put(a.table, p, a.frame)
       /\ pin' = [pin EXCEPT ![c] = [page |-> p, frame |-> a.frame, wrote |-> FALSE]]
  BY <1>3, <1>5, <1>6, Zenon
<1> QED
  BY <1>1, <1>4, <1>5, <1>7, <1>8, <1>9, <1>10, <1>11, LoadStep

-----------------------------------------------------------------------------
\* Steps that change the file only in places the dirty frames stand for.
LEMMA FileStep ==
  ASSUME IInv, NEW d \in Seq(Image), Len(d) \in PageIds, Len(d) >= numPages,
         \A r \in 1..numPages : d[r] = disk[r],
         disk' \in Seq(Image), Len(disk') = Len(d),
         \A r \in 1..Len(d) :
           disk'[r] = d[r] \/ (r \in DOMAIN pageTable /\ frames[pageTable[r]].isDirty),
         clockHand' \in Frames, UNCHANGED <<frames, pageTable, freeList, pin>>,
         nextPageId' \in 1..(MaxPages + 1), nextPageId' >= nextPageId,
         nextPageId' <= Len(d) + 1
  PROVE  IInv'
<1>1. numPages' = Len(d) /\ numPages \in Nat /\ Len(d) \in Nat /\ nextPageId \in Nat
  BY PoolAssumption DEF numPages, IInv, TypeOK, PageIds
<1>2. \A r \in DOMAIN pageTable : r \in Nat /\ r \in 1..numPages /\ r \in 1..Len(d)
  BY <1>1 DEF IInv, TypeOK, PageIds, FramesPartition
<1>3. \A r : Holders(r)' = Holders(r) /\ Writers(r)' = Writers(r)
  BY Zenon DEF Holders, Writers, HasPin
<1>4. TypeOK'
  BY <1>1, Zenon DEF IInv, TypeOK
<1>5. FramesPartition'
  BY <1>1, <1>2 DEF IInv, FramesPartition
<1>6. PinsProtect'
  BY <1>3, Zenon DEF IInv, PinsProtect, HasPin, IsResident
<1>7. CleanMeansSaved'
  BY <1>2, <1>3 DEF IInv, CleanMeansSaved
<1>8. IdsAllocated'
  BY <1>1, <1>2 DEF IInv, IdsAllocated, TypeOK
<1> QED
  BY <1>4, <1>5, <1>6, <1>7, <1>8, Zenon DEF IInv

\* A victim that cannot be written stays where it is, still dirty.
LEMMA EvictionFailsStep ==
  ASSUME IInv, NEW d \in Seq(Image), Len(d) \in PageIds, Len(d) >= numPages,
         \A r \in 1..numPages : d[r] = disk[r], EvictionFails(d),
         nextPageId' \in 1..(MaxPages + 1), nextPageId' >= nextPageId,
         nextPageId' <= Len(d) + 1
  PROVE  /\ IInv'
         /\ Len(disk') = Len(d)
         /\ \A r \in 1..Len(d) : disk'[r] = d[r] \/ r \in DOMAIN pageTable
<1>1. PICK v \in FindVictim :
        /\ frames[v].isDirty
        /\ clockHand' = NextHand(v)
        /\ \/ disk' = d
           \/ disk' = [d EXCEPT ![frames[v].pageId] = TornImage]
  BY Zenon DEF EvictionFails
<1>2. v \in Frames /\ NextHand(v) \in Frames
  BY VictimFacts, Zenon DEF IInv
<1>3. freeList = <<>> /\ UNCHANGED <<frames, pageTable, freeList, pin>>
  BY Zenon DEF EvictionFails
<1>4. PICK q \in DOMAIN pageTable : pageTable[q] = v
  BY <1>2, <1>3 DEF IInv, FramesPartition
<1>5. frames[v].pageId = q
  BY <1>4, Zenon DEF IInv, FramesPartition
<1>6. TornImage \in Image
  BY Zenon DEF TornImage, Image, Contents
<1>7. /\ disk' \in Seq(Image) /\ Len(disk') = Len(d)
      /\ \A r \in 1..Len(d) :
           disk'[r] = d[r] \/ (r \in DOMAIN pageTable /\ frames[pageTable[r]].isDirty)
  BY <1>1, <1>4, <1>5, <1>6
<1>8. IInv'
  BY <1>1, <1>2, <1>3, <1>7, FileStep, Zenon
<1> QED
  BY <1>7, <1>8, Zenon

\* fetchPage gives up because the victim cannot be written.
LEMMA FetchEvictionFailsStep ==
  ASSUME IInv, NEW c, NEW p, FetchEvictionFails(c, p)
  PROVE  /\ IInv'
         /\ Len(disk') = numPages
         /\ \A r \in 1..numPages : disk'[r] = disk[r] \/ r \in DOMAIN pageTable
<1>1. PICK d : d = disk
  BY Zenon
<1>2. EvictionFails(d) /\ UNCHANGED nextPageId
  BY <1>1, Zenon DEF FetchEvictionFails
<1>3. /\ d \in Seq(Image) /\ Len(d) \in PageIds /\ Len(d) = numPages /\ Len(d) >= numPages
      /\ \A r \in 1..numPages : d[r] = disk[r]
      /\ nextPageId' \in 1..(MaxPages + 1) /\ nextPageId' >= nextPageId /\ nextPageId' <= Len(d) + 1
  BY <1>1, <1>2, PoolAssumption DEF IInv, TypeOK, numPages, PageIds, IdsAllocated
<1>4. /\ IInv' /\ Len(disk') = Len(d)
      /\ \A r \in 1..Len(d) : disk'[r] = d[r] \/ r \in DOMAIN pageTable
  BY <1>2, <1>3, EvictionFailsStep, Zenon
<1> QED
  BY <1>1, <1>3, <1>4, Zenon

\* newPage gives up after it has taken a page id.
LEMMA NewPageNoFrameStep ==
  ASSUME IInv, NEW c, NewPageNoFrame(c)
  PROVE  /\ IInv'
         /\ Len(disk') = Len(ExtendedFile)
         /\ \A r \in 1..Len(ExtendedFile) : disk'[r] = ExtendedFile[r] \/ r \in DOMAIN pageTable
<1>1. nextPageId <= MaxPages /\ nextPageId' = nextPageId + 1
  BY Zenon DEF NewPageNoFrame
<1>2. PICK d : d = ExtendedFile
  BY Zenon
<1>3. /\ d \in Seq(Image) /\ Len(d) \in PageIds /\ Len(d) >= numPages
      /\ \A r \in 1..numPages : d[r] = disk[r]
      /\ nextPageId' \in 1..(MaxPages + 1) /\ nextPageId' >= nextPageId /\ nextPageId' <= Len(d) + 1
  BY <1>1, <1>2, ExtendedFacts
<1>4. CASE disk' = d /\ UNCHANGED <<frames, pageTable, freeList, clockHand, pin>>
  <2>1. /\ disk' \in Seq(Image) /\ Len(disk') = Len(d) /\ clockHand' \in Frames
        /\ \A r \in 1..Len(d) : disk'[r] = d[r]
    BY <1>3, <1>4, Zenon DEF IInv, TypeOK
  <2>2. IInv'
    BY <1>3, <1>4, <2>1, FileStep, Zenon
  <2> QED
    BY <1>2, <2>1, <2>2, Zenon
<1>5. CASE EvictionFails(d)
  <2>1. /\ IInv' /\ Len(disk') = Len(d)
        /\ \A r \in 1..Len(d) : disk'[r] = d[r] \/ r \in DOMAIN pageTable
    BY <1>3, <1>5, EvictionFailsStep, Zenon
  <2> QED
    BY <1>2, <2>1, Zenon
<1> QED
  BY <1>2, <1>4, <1>5, Zenon DEF NewPageNoFrame

-----------------------------------------------------------------------------
\* Frame f is not in use: fl and tb are the free list and the page table without
\* it, and the pages that are not in tb any more were not pinned.
Unused(f, fl, tb) ==
  /\ f \in Frames
  /\ fl \in Seq(Frames)
  /\ DOMAIN tb \subseteq DOMAIN pageTable
  /\ tb \in [DOMAIN tb -> Frames]
  /\ \A r \in DOMAIN tb : tb[r] = pageTable[r] /\ tb[r] # f
  /\ \A i, j \in 1..Len(fl) : fl[i] = fl[j] => i = j
  /\ \A i \in 1..Len(fl) : fl[i] # f /\ \A r \in DOMAIN tb : fl[i] # tb[r]
  /\ \A g \in Frames : \/ g = f
                       \/ \E i \in 1..Len(fl) : fl[i] = g
                       \/ \E r \in DOMAIN tb : tb[r] = g
  /\ \A r \in DOMAIN pageTable \ DOMAIN tb : Holders(r) = {}

\* An unused frame is put back at the end of the free list, the end of
\* FetchReadFails and of DeletePage.
LEMMA FreedStep ==
  ASSUME IInv, NEW fl, NEW tb, NEW f, Unused(f, fl, tb),
         disk' \in Seq(Image), Len(disk') = Len(disk),
         \A r \in DOMAIN tb : disk'[r] = disk[r],
         frames' \in [Frames -> Frame], \A g \in Frames : g # f => frames'[g] = frames[g],
         pageTable' = tb, freeList' = Append(fl, f), clockHand' \in Frames,
         UNCHANGED <<nextPageId, pin>>
  PROVE  IInv'
<1> USE DEF Unused
<1>1. \A r : Holders(r)' = Holders(r) /\ Writers(r)' = Writers(r)
  BY Zenon DEF Holders, Writers, HasPin
<1>2. /\ freeList' \in Seq(Frames)
      /\ Len(fl) \in Nat
      /\ Len(freeList') = Len(fl) + 1
      /\ \A i \in 1..Len(fl) : freeList'[i] = fl[i]
      /\ freeList'[Len(fl) + 1] = f
  OBVIOUS
<1>3. \A r \in DOMAIN tb : /\ r \in DOMAIN pageTable
                          /\ tb[r] \in Frames
                          /\ frames'[tb[r]] = frames[pageTable[r]]
  BY Zenon
<1>4. TypeOK'
  BY <1>2, Zenon DEF IInv, TypeOK, numPages
<1>5. FramesPartition'
  <2>1. \A i, j \in 1..Len(freeList') : freeList'[i] = freeList'[j] => i = j
    <3>1. \A i \in 1..Len(freeList') : i \in 1..Len(fl) \/ i = Len(fl) + 1
      BY <1>2
    <3> QED
      BY <1>2, <3>1
  <2>2. ASSUME NEW r \in DOMAIN tb
        PROVE  /\ r <= numPages'
               /\ frames'[tb[r]].pageId = r
               /\ \A i \in 1..Len(freeList') : freeList'[i] # tb[r]
    <3>1. \A i \in 1..Len(freeList') : i \in 1..Len(fl) \/ i = Len(fl) + 1
      BY <1>2
    <3>2. \A i \in 1..Len(freeList') : freeList'[i] # tb[r]
      BY <1>2, <3>1
    <3> QED
      BY <1>3, <3>2 DEF IInv, FramesPartition, numPages
  <2>3. ASSUME NEW g \in Frames
        PROVE  \/ \E i \in 1..Len(freeList') : freeList'[i] = g
               \/ \E r \in DOMAIN tb : tb[r] = g
    <3>1. CASE g = f
      BY <1>2, <3>1
    <3>2. ASSUME NEW i \in 1..Len(fl), fl[i] = g
          PROVE  \E j \in 1..Len(freeList') : freeList'[j] = g
      BY <1>2, <3>2
    <3> QED
      BY <3>1, <3>2, Zenon
  <2> QED
    BY <2>1, <2>2, <2>3 DEF FramesPartition
<1>6. PinsProtect'
  <2>1. ASSUME NEW b \in Clients, HasPin(b)
        PROVE  pin[b].page \in DOMAIN tb /\ tb[pin[b].page] = pin[b].frame
    <3>1. pin[b].page \in DOMAIN pageTable /\ pageTable[pin[b].page] = pin[b].frame
      BY <2>1, Zenon DEF IInv, PinsProtect, IsResident
    <3>2. b \in Holders(pin[b].page)
      BY <2>1, Zenon DEF Holders
    <3>3. pin[b].page \in DOMAIN tb
      BY <3>1, <3>2, Zenon
    <3> QED
      BY <3>1, <3>3, Zenon
  <2>2. \A r \in DOMAIN tb : frames'[tb[r]].pinCount = Cardinality(Holders(r)')
    BY <1>1, <1>3, Zenon DEF IInv, PinsProtect
  <2> QED
    BY <2>1, <2>2, Zenon DEF PinsProtect, HasPin, IsResident
<1>7. CleanMeansSaved'
  BY <1>1, <1>3 DEF IInv, CleanMeansSaved
<1>8. IdsAllocated'
  BY Zenon DEF IInv, IdsAllocated, numPages
<1> QED
  BY <1>4, <1>5, <1>6, <1>7, <1>8, Zenon DEF IInv

\* fetchPage gives the frame back when the page cannot be read.
LEMMA FetchReadFailsStep ==
  ASSUME IInv, NEW c, NEW p, FetchReadFails(c, p)
  PROVE  IInv'
<1>1. PICK a \in Acquired(disk) :
        /\ disk' = a.disk
        /\ frames' = [frames EXCEPT ![a.frame].page = TornImage]
        /\ pageTable' = a.table
        /\ freeList' = Append(a.free, a.frame)
        /\ clockHand' = a.hand
  BY Zenon DEF FetchReadFails
<1>2. PICK d : d = disk
  BY Zenon
<1>3. /\ d \in Seq(Image) /\ numPages \in Nat /\ Len(d) = numPages
      /\ UNCHANGED <<nextPageId, pin>>
  BY <1>2 DEF IInv, TypeOK, numPages, PageIds, FetchReadFails
<1>4. Good(a, d)
  <2>1. Len(d) >= numPages /\ a \in Acquired(d) /\ \A r \in 1..numPages : d[r] = disk[r]
    BY <1>1, <1>2, <1>3
  <2> QED
    BY <1>3, <2>1, AcquiredIsGood, Zenon
<1>5. frames' \in [Frames -> Frame] /\ \A g \in Frames : g # a.frame => frames'[g] = frames[g]
  <2>1. a.frame \in Frames /\ frames \in [Frames -> Frame]
    BY <1>4, Zenon DEF Good, IInv, TypeOK
  <2>2. TornImage \in Image
    BY Zenon DEF TornImage, Image, Contents
  <2>3. [frames[a.frame] EXCEPT !.page = TornImage] \in Frame
    BY <2>1, <2>2, Zenon DEF Frame
  <2> QED
    BY <1>1, <2>1, <2>3, Zenon
<1>6. \A r \in DOMAIN a.table : disk'[r] = disk[r]
  <2>1. \A r \in DOMAIN a.table : r \in 1..Len(d) /\ r \in DOMAIN pageTable
    BY <1>3, <1>4 DEF Good, IInv, FramesPartition, TypeOK, PageIds
  <2> QED
    BY <1>1, <1>2, <1>4, <2>1, Zenon DEF Good
<1>7. Len(disk') = Len(disk) /\ disk' \in Seq(Image) /\ clockHand' \in Frames
  BY <1>1, <1>2, <1>4, Zenon DEF Good
<1>8. PICK fl, tb, f : fl = a.free /\ tb = a.table /\ f = a.frame
  BY Zenon
<1>9. Unused(f, fl, tb)
  BY <1>4, <1>8 DEF Good, Unused
<1>10. /\ pageTable' = tb /\ freeList' = Append(fl, f)
       /\ \A g \in Frames : g # f => frames'[g] = frames[g]
       /\ \A r \in DOMAIN tb : disk'[r] = disk[r]
  BY <1>1, <1>5, <1>6, <1>8, Zenon
<1> QED
  BY <1>3, <1>5, <1>7, <1>9, <1>10, FreedStep, Zenon

\* deletePage frees the frame of a page nobody has pinned.
LEMMA DeletePageStep ==
  ASSUME IInv, NEW p, DeletePage(p)
  PROVE  IInv' /\ Holders(p) = {} /\ p \in DOMAIN pageTable
<1>1. /\ p \in DOMAIN pageTable
      /\ frames[pageTable[p]].pinCount <= 0
      /\ pageTable' = Erase(pageTable, p)
      /\ frames' = [frames EXCEPT ![pageTable[p]] =
                      [pageId |-> INVALID_PAGE_ID, isDirty |-> FALSE, pinCount |-> 0,
                       page |-> ResetImage]]
      /\ freeList' = Append(freeList, pageTable[p])
      /\ UNCHANGED <<disk, nextPageId, clockHand, pin>>
  BY Zenon DEF DeletePage, IsResident
<1>2. PICK f \in Frames : f = pageTable[p]
  BY <1>1, Zenon DEF IInv, TypeOK
<1>3. Holders(p) = {}
  <2>1. frames[pageTable[p]].pinCount = Cardinality(Holders(p))
    BY <1>1, Zenon DEF IInv, PinsProtect
  <2> QED
    BY <1>1, <2>1, HoldersFinite
<1>4. PICK fl, tb : fl = freeList /\ tb = Erase(pageTable, p)
  BY Zenon
<1>5. /\ DOMAIN tb = DOMAIN pageTable \ {p}
      /\ \A r \in DOMAIN tb : tb[r] = pageTable[r]
      /\ tb \in [DOMAIN tb -> Frames]
  BY <1>4, Zenon DEF Erase, IInv, TypeOK
<1>6. \A r \in DOMAIN tb : tb[r] # f
  BY <1>1, <1>2, <1>5 DEF IInv, FramesPartition
<1>7. /\ fl \in Seq(Frames)
      /\ \A i, j \in 1..Len(fl) : fl[i] = fl[j] => i = j
      /\ \A i \in 1..Len(fl) : fl[i] # f /\ \A r \in DOMAIN tb : fl[i] # tb[r]
  BY <1>1, <1>2, <1>4, <1>5 DEF IInv, TypeOK, FramesPartition
<1>8. \A g \in Frames : \/ g = f
                        \/ \E i \in 1..Len(fl) : fl[i] = g
                        \/ \E r \in DOMAIN tb : tb[r] = g
  BY <1>1, <1>2, <1>4, <1>5 DEF IInv, FramesPartition
<1>9. frames' \in [Frames -> Frame] /\ \A g \in Frames : g # f => frames'[g] = frames[g]
  <2>1. ResetImage \in Image
    BY Zenon DEF ResetImage, Image, Contents
  <2>2. [pageId |-> INVALID_PAGE_ID, isDirty |-> FALSE, pinCount |-> 0, page |-> ResetImage] \in Frame
    BY <2>1, PoolAssumption DEF Frame, INVALID_PAGE_ID
  <2> QED
    BY <1>1, <1>2, <2>2, Zenon DEF IInv, TypeOK
<1>10. /\ disk' \in Seq(Image) /\ Len(disk') = Len(disk) /\ clockHand' \in Frames
       /\ \A r \in DOMAIN tb : disk'[r] = disk[r]
       /\ pageTable' = tb /\ freeList' = Append(fl, f)
       /\ UNCHANGED <<nextPageId, pin>>
  BY <1>1, <1>2, <1>4, Zenon DEF IInv, TypeOK
<1>11. Unused(f, fl, tb)
  BY <1>3, <1>5, <1>6, <1>7, <1>8, Zenon DEF Unused
<1>12. IInv'
  BY <1>9, <1>10, <1>11, FreedStep, Zenon
<1> QED
  BY <1>1, <1>3, <1>12, Zenon

-----------------------------------------------------------------------------
\* A client writes to its page: it is now a writer of that page.
LEMMA WriteStep ==
  ASSUME IInv, NEW c \in Clients, NEW d \in Data, Write(c, d)
  PROVE  IInv'
<1>1. /\ HasPin(c)
      /\ frames' = [frames EXCEPT ![pin[c].frame].page =
                      [data |-> d, checked |-> @.checked /\ @.data = d]]
      /\ pin' = [pin EXCEPT ![c].wrote = TRUE]
      /\ UNCHANGED <<disk, nextPageId, pageTable, freeList, clockHand>>
  BY Zenon DEF Write
<1>2. PICK p, f : p = pin[c].page /\ f = pin[c].frame
  BY Zenon
<1>3. p \in DOMAIN pageTable /\ pageTable[p] = f /\ f \in Frames /\ pin[c] \in Pin
  <2>1. pin[c] \in Pin /\ p \in DOMAIN pageTable /\ pageTable[p] = f
    BY <1>1, <1>2, Zenon DEF IInv, PinsProtect, IsResident, TypeOK, HasPin
  <2> QED
    BY <2>1, Zenon DEF IInv, TypeOK
<1>4. /\ pin' \in [Clients -> Pin \cup {Closed}]
      /\ pin'[c].page = pin[c].page /\ pin'[c].frame = pin[c].frame /\ pin'[c].wrote
      /\ HasPin(c)'
      /\ \A b \in Clients : b # c => pin'[b] = pin[b]
  <2>1. pin'[c] = [pin[c] EXCEPT !.wrote = TRUE] /\ \A b \in Clients : b # c => pin'[b] = pin[b]
    BY <1>1, Zenon DEF IInv, TypeOK
  <2>2. pin'[c] \in Pin /\ pin'[c].page = pin[c].page /\ pin'[c].frame = pin[c].frame /\ pin'[c].wrote
    BY <1>3, <2>1, Zenon DEF Pin
  <2>3. Closed \notin Pin
    <3>1. \A x \in Pin : x \in [page : Nat, frame : Nat, wrote : BOOLEAN]
      BY PoolAssumption DEF Pin, PageIds, Frames
    <3> QED
      BY <3>1, PoolAssumption, Zenon
  <2>4. HasPin(c)'
    BY <2>2, <2>3, Zenon DEF HasPin
  <2>5. pin' \in [Clients -> Pin \cup {Closed}]
    BY <1>1, <2>1, <2>2, Zenon DEF IInv, TypeOK
  <2> QED
    BY <2>1, <2>2, <2>4, <2>5, Zenon
<1>5. \A r : Holders(r)' = Holders(r)
  BY <1>1, <1>4 DEF Holders, HasPin
<1>6. c \in Writers(p)' /\ \A r : Writers(r) \subseteq Writers(r)'
  BY <1>1, <1>2, <1>4, Zenon DEF Holders, Writers, HasPin
<1>7. /\ frames' \in [Frames -> Frame]
      /\ frames'[f].pageId = frames[f].pageId
      /\ frames'[f].pinCount = frames[f].pinCount
      /\ \A g \in Frames : g # f => frames'[g] = frames[g]
  <2>1. frames \in [Frames -> Frame]
    BY Zenon DEF IInv, TypeOK
  <2>2. PICK im : im = [data |-> d, checked |-> frames[f].page.checked /\ frames[f].page.data = d]
    BY Zenon
  <2>3. im \in Image
    BY <1>3, <2>1, <2>2, Zenon DEF Frame, Image, Contents
  <2>4. frames' = [frames EXCEPT ![f].page = im]
    BY <1>1, <1>2, <1>3, <2>1, <2>2, Zenon
  <2>5. frames'[f] = [frames[f] EXCEPT !.page = im] /\ \A g \in Frames : g # f => frames'[g] = frames[g]
    BY <1>3, <2>1, <2>4, Zenon
  <2>6. frames'[f] \in Frame /\ frames'[f].pageId = frames[f].pageId /\ frames'[f].pinCount = frames[f].pinCount
    BY <1>3, <2>1, <2>3, <2>5 DEF Frame
  <2> QED
    BY <2>1, <2>4, <2>5, <2>6, Zenon
<1>8. \A r \in DOMAIN pageTable : pageTable[r] \in Frames /\ (pageTable[r] = f => r = p)
  BY <1>3, Zenon DEF IInv, TypeOK, FramesPartition
<1>9. TypeOK'
  BY <1>1, <1>4, <1>7, Zenon DEF IInv, TypeOK, numPages
<1>10. FramesPartition'
  BY <1>1, <1>7, <1>8 DEF IInv, FramesPartition, numPages
<1>11. PinsProtect'
  <2>1. \A b \in Clients : HasPin(b)' => HasPin(b) /\ pin'[b].page = pin[b].page /\ pin'[b].frame = pin[b].frame
    BY <1>1, <1>4, Zenon DEF HasPin
  <2>2. \A r \in DOMAIN pageTable : frames'[pageTable[r]].pinCount = frames[pageTable[r]].pinCount
    BY <1>7, <1>8, Zenon
  <2> QED
    BY <1>1, <1>5, <2>1, <2>2, Zenon DEF IInv, PinsProtect, IsResident
<1>12. CleanMeansSaved'
  <2> SUFFICES ASSUME NEW r \in DOMAIN pageTable
               PROVE  \/ frames'[pageTable[r]].isDirty
                      \/ Writers(r)' # {}
                      \/ disk[r].data = frames'[pageTable[r]].page.data
    BY <1>1, Zenon DEF CleanMeansSaved
  <2>1. CASE r = p
    BY <1>6, <2>1, Zenon
  <2>2. CASE r # p
    BY <1>6, <1>7, <1>8, <2>2, Zenon DEF IInv, CleanMeansSaved
  <2> QED
    BY <2>1, <2>2, Zenon
<1>13. IdsAllocated'
  BY <1>1, Zenon DEF IInv, IdsAllocated, numPages
<1> QED
  BY <1>9, <1>10, <1>11, <1>12, <1>13, Zenon DEF IInv

\* unpinPage: a writer leaves the page dirty.
LEMMA UnpinPageStep ==
  ASSUME IInv, NEW c \in Clients, NEW isDirty \in BOOLEAN, UnpinPage(c, isDirty)
  PROVE  IInv' /\ \A g \in Frames : frames'[g].page = frames[g].page
<1>1. HasPin(c) /\ (pin[c].wrote => isDirty) /\ pin' = [pin EXCEPT ![c] = Closed]
      /\ UNCHANGED <<disk, nextPageId, pageTable, freeList, clockHand>>
  BY Zenon DEF UnpinPage
<1>2. PICK p, f : p = pin[c].page /\ f = pageTable[p]
  BY Zenon
<1>3. /\ p \in DOMAIN pageTable /\ f \in Frames /\ p \in PageIds
      /\ frames[f].pinCount = Cardinality(Holders(p))
  BY <1>1, <1>2, Zenon DEF IInv, PinsProtect, IsResident, TypeOK
<1>4. /\ pin' \in [Clients -> Pin \cup {Closed}]
      /\ ~HasPin(c)'
      /\ \A b \in Clients : b # c => pin'[b] = pin[b]
      /\ Cardinality(Holders(p)) >= 1
      /\ Cardinality(Holders(p)') = Cardinality(Holders(p)) - 1
      /\ \A r : r # p => Holders(r)' = Holders(r)
      /\ \A r : Writers(r)' = Writers(r) \ {c}
  BY <1>1, <1>2, <1>3, PinClosed, Zenon DEF IInv
<1>5. frames[f].pinCount > 0 /\ Cardinality(Holders(p)) \in Nat
  BY <1>3, <1>4, HoldersFinite
<1>6. frames' = [frames EXCEPT ![f].pinCount = @ - 1, ![f].isDirty = @ \/ isDirty]
  BY <1>2, <1>3, <1>5, Zenon DEF UnpinPage, IsResident
<1>7. /\ frames' \in [Frames -> Frame]
      /\ frames'[f].pinCount = frames[f].pinCount - 1
      /\ (frames[f].isDirty \/ isDirty) => frames'[f].isDirty
      /\ \A g \in Frames : frames'[g].pageId = frames[g].pageId /\ frames'[g].page = frames[g].page
      /\ \A g \in Frames : g # f => frames'[g] = frames[g]
  <2>1. frames \in [Frames -> Frame]
    BY Zenon DEF IInv, TypeOK
  <2>2. PICK fr : fr = [frames[f] EXCEPT !.pinCount = @ - 1, !.isDirty = @ \/ isDirty]
    BY Zenon
  <2>3. frames'[f] = fr /\ \A g \in Frames : g # f => frames'[g] = frames[g]
    BY <1>3, <1>6, <2>1, <2>2, Zenon
  <2>4. /\ fr \in Frame /\ fr.pinCount = frames[f].pinCount - 1
        /\ fr.pageId = frames[f].pageId /\ fr.page = frames[f].page
        /\ (frames[f].isDirty \/ isDirty) => fr.isDirty
    <3>1. PICK k, bit : k = frames[f].pinCount - 1 /\ bit = (frames[f].isDirty \/ isDirty)
      BY Zenon
    <3>2. frames[f] \in Frame /\ k \in Nat /\ bit \in BOOLEAN
      BY <1>3, <1>5, <2>1, <3>1 DEF Frame
    <3>3. fr = [frames[f] EXCEPT !.pinCount = k, !.isDirty = bit]
      BY <2>2, <3>1, <3>2, Zenon DEF Frame
    <3>4. fr \in Frame /\ fr.pinCount = k /\ fr.isDirty = bit
          /\ fr.pageId = frames[f].pageId /\ fr.page = frames[f].page
      BY <3>2, <3>3, Zenon DEF Frame
    <3> QED
      BY <3>1, <3>4, Zenon
  <2>5. frames' \in [Frames -> Frame]
    BY <1>6, <2>1, <2>3, <2>4, Zenon
  <2> QED
    BY <2>3, <2>4, <2>5, Zenon
<1>8. \A r \in DOMAIN pageTable : pageTable[r] \in Frames /\ (pageTable[r] = f => r = p)
  BY <1>2, <1>3 DEF IInv, TypeOK, FramesPartition
<1>9. TypeOK'
  BY <1>1, <1>4, <1>7, Zenon DEF IInv, TypeOK, numPages
<1>10. FramesPartition'
  BY <1>1, <1>7, <1>8 DEF IInv, FramesPartition, numPages
<1>11. PinsProtect'
  <2>1. \A b \in Clients : HasPin(b)' => HasPin(b) /\ pin'[b] = pin[b]
    BY <1>4, Zenon DEF HasPin
  <2>2. ASSUME NEW r \in DOMAIN pageTable
        PROVE  frames'[pageTable[r]].pinCount = Cardinality(Holders(r)')
    <3>1. frames[pageTable[r]].pinCount = Cardinality(Holders(r))
      BY Zenon DEF IInv, PinsProtect
    <3>2. CASE r = p
      BY <1>2, <1>4, <1>7, <3>1, <3>2, Zenon
    <3>3. CASE r # p
      BY <1>4, <1>7, <1>8, <3>1, <3>3, Zenon
    <3> QED
      BY <3>2, <3>3, Zenon
  <2> QED
    BY <1>1, <2>1, <2>2, Zenon DEF IInv, PinsProtect, IsResident
<1>12. CleanMeansSaved'
  <2> SUFFICES ASSUME NEW r \in DOMAIN pageTable
               PROVE  \/ frames'[pageTable[r]].isDirty
                      \/ Writers(r)' # {}
                      \/ disk[r].data = frames'[pageTable[r]].page.data
    BY <1>1, Zenon DEF CleanMeansSaved
  <2>0. frames[pageTable[r]].isDirty \/ Writers(r) # {} \/ disk[r].data = frames[pageTable[r]].page.data
    BY Zenon DEF IInv, CleanMeansSaved
  <2>1. CASE r = p /\ c \in Writers(r)
    BY <1>1, <1>2, <1>7, <2>1, Zenon DEF Writers
  <2>2. CASE r = p /\ c \notin Writers(r)
    BY <1>2, <1>4, <1>7, <1>8, <2>0, <2>2
  <2>3. CASE r # p
    <3>1. c \notin Writers(r)
      BY <1>2, <2>3, Zenon DEF Writers, Holders
    <3> QED
      BY <1>4, <1>7, <1>8, <2>0, <2>3, <3>1, Zenon
  <2> QED
    BY <2>1, <2>2, <2>3, Zenon
<1>13. IdsAllocated'
  BY <1>1, Zenon DEF IInv, IdsAllocated, numPages
<1> QED
  BY <1>7, <1>9, <1>10, <1>11, <1>12, <1>13, Zenon DEF IInv

\* flushPage and flushAllPages: a page becomes clean when the file has its
\* contents, or while a writer, who will mark it dirty again, has it pinned.
LEMMA FlushStep ==
  ASSUME IInv, NEW ps \in SUBSET DOMAIN pageTable, NEW saved \in SUBSET ps,
         NEW torn \in SUBSET ps, Flush(ps, saved, torn)
  PROVE  /\ IInv'
         /\ Len(disk') = Len(disk)
         /\ \A r \in 1..numPages : r \notin DOMAIN pageTable => disk'[r] = disk[r]
         /\ \A g \in Frames : frames'[g].page.data = frames[g].page.data
<1>1. /\ \A p \in saved \cap torn : Writers(p) # {}
      /\ disk' = [p \in 1..numPages |->
                    IF p \in torn THEN TornImage
                    ELSE IF p \in saved THEN Checked(pageTable[p]) ELSE disk[p]]
      /\ frames' = [f \in Frames |->
                      IF \E p \in ps : pageTable[p] = f
                      THEN [frames[f] EXCEPT !.isDirty = ~(\E p \in saved : pageTable[p] = f),
                                             !.page = Checked(f)]
                      ELSE frames[f]]
      /\ UNCHANGED <<nextPageId, pageTable, freeList, clockHand, pin>>
  BY Zenon DEF Flush
<1>2. /\ frames \in [Frames -> Frame] /\ disk \in Seq(Image) /\ numPages \in Nat
      /\ \A p \in DOMAIN pageTable : pageTable[p] \in Frames /\ p \in 1..numPages
      /\ \A p, r \in DOMAIN pageTable : pageTable[p] = pageTable[r] => p = r
  BY DEF IInv, TypeOK, FramesPartition, PageIds, numPages
<1>3. \A f \in Frames : Checked(f) \in Image /\ Checked(f).data = frames[f].page.data
  BY <1>2, Zenon DEF Checked, Image, Frame
<1>4. disk' \in Seq(Image) /\ Len(disk') = Len(disk) /\ numPages' = numPages
  <2>1. TornImage \in Image
    BY Zenon DEF TornImage, Image, Contents
  <2>2. \A p \in 1..numPages : disk[p] \in Image
    BY <1>2 DEF numPages
  <2>3. disk' \in [1..numPages -> Image]
    BY <1>1, <1>2, <1>3, <2>1, <2>2, Zenon
  <2>4. disk' \in Seq(Image) /\ Len(disk') = numPages
    BY <1>2, <2>3
  <2> QED
    BY <2>4, Zenon DEF numPages
<1>5. ASSUME NEW f \in Frames
      PROVE  /\ frames'[f] \in Frame
             /\ frames'[f].pageId = frames[f].pageId
             /\ frames'[f].pinCount = frames[f].pinCount
             /\ frames'[f].page.data = frames[f].page.data
             /\ (frames[f].isDirty \/ \E p \in ps : pageTable[p] = f) =>
                  frames'[f].isDirty \/ \E p \in saved : pageTable[p] = f
  <2>1. CASE \E p \in ps : pageTable[p] = f
    <3>1. frames'[f] = [frames[f] EXCEPT !.isDirty = ~(\E p \in saved : pageTable[p] = f),
                                        !.page = Checked(f)]
      BY <1>1, <2>1, Zenon
    <3>2. frames[f] \in Frame
      BY <1>2, Zenon
    <3> QED
      BY <1>3, <3>1, <3>2, Zenon DEF Frame
  <2>2. CASE ~\E p \in ps : pageTable[p] = f
    BY <1>1, <1>2, <2>2, Zenon
  <2> QED
    BY <2>1, <2>2, Zenon
<1>6. frames' \in [Frames -> Frame]
  BY <1>1, <1>5, Zenon
<1>0. UNCHANGED <<nextPageId, pageTable, freeList, clockHand, pin>>
  BY <1>1, Zenon
<1>7. \A r : Holders(r)' = Holders(r) /\ Writers(r)' = Writers(r)
  BY <1>0, Zenon DEF Holders, Writers, HasPin
<1>8. TypeOK'
  BY <1>0, <1>4, <1>6, Zenon DEF IInv, TypeOK
<1>9. FramesPartition'
  <2>1. \A p \in DOMAIN pageTable : frames'[pageTable[p]].pageId = frames[pageTable[p]].pageId
    BY <1>2, <1>5, Zenon
  <2> QED
    BY <1>0, <1>4, <2>1 DEF IInv, FramesPartition
<1>10. PinsProtect'
  <2>1. \A p \in DOMAIN pageTable : frames'[pageTable[p]].pinCount = frames[pageTable[p]].pinCount
    BY <1>2, <1>5, Zenon
  <2> QED
    BY <1>0, <1>7, <2>1, Zenon DEF IInv, PinsProtect, HasPin, IsResident
<1>11. CleanMeansSaved'
  <2> SUFFICES ASSUME NEW r \in DOMAIN pageTable
               PROVE  \/ frames'[pageTable[r]].isDirty
                      \/ Writers(r) # {}
                      \/ disk'[r].data = frames'[pageTable[r]].page.data
    BY <1>0, <1>7, Zenon DEF CleanMeansSaved
  <2>1. CASE r \in saved
    <3>1. CASE r \in torn
      BY <1>1, <2>1, <3>1, Zenon
    <3>2. CASE r \notin torn
      BY <1>1, <1>2, <1>3, <1>5, <2>1, <3>2
    <3> QED
      BY <3>1, <3>2, Zenon
  <2>2. CASE r \notin saved
    <3>1. ~\E p \in saved : pageTable[p] = pageTable[r]
      BY <1>2, <2>2, Zenon
    <3>2. CASE r \in ps
      BY <1>2, <1>5, <3>1, <3>2, Zenon
    <3>3. CASE r \notin ps
      <4>1. disk'[r] = disk[r]
        BY <1>1, <1>2, <3>3, Zenon
      <4> QED
        BY <1>2, <1>5, <3>1, <4>1 DEF IInv, CleanMeansSaved
    <3> QED
      BY <3>2, <3>3, Zenon
  <2> QED
    BY <2>1, <2>2, Zenon
<1>12. IdsAllocated'
  BY <1>0, <1>4, Zenon DEF IInv, IdsAllocated
<1>13. \A r \in 1..numPages : r \notin DOMAIN pageTable => disk'[r] = disk[r]
  BY <1>1, Zenon
<1> QED
  BY <1>4, <1>5, <1>8, <1>9, <1>10, <1>11, <1>12, <1>13, Zenon DEF IInv

-----------------------------------------------------------------------------
\* Every step preserves the invariant.
LEMMA NextInv == IInv /\ ~Probing /\ [Next]_vars => IInv'
<1> SUFFICES ASSUME IInv, ~Probing, [Next]_vars PROVE IInv'
  BY Zenon
<1>1. ASSUME NEW c \in Clients, NEW p \in 1..(MaxPages + 1),
             FetchHit(c, p) \/ FetchMiss(c, p) \/ FetchReadFails(c, p) \/ FetchEvictionFails(c, p)
      PROVE  IInv'
  BY <1>1, FetchHitStep, FetchMissStep, FetchReadFailsStep, FetchEvictionFailsStep, Zenon
<1>2. ASSUME NEW c \in Clients, NewPage(c) \/ NewPageNoFrame(c)
      PROVE  IInv'
  BY <1>2, NewPageStep, NewPageNoFrameStep, Zenon
<1>3. ASSUME NEW c \in Clients, NEW d \in Data, Write(c, d)
      PROVE  IInv'
  BY <1>3, WriteStep, Zenon
<1>4. ASSUME NEW c \in Clients, NEW isDirty \in BOOLEAN, UnpinPage(c, isDirty)
      PROVE  IInv'
  BY <1>4, UnpinPageStep, Zenon
<1>5. ASSUME NEW p, FlushPage(p)
      PROVE  IInv'
  <2>1. {p} \in SUBSET DOMAIN pageTable
    BY <1>5, Zenon DEF FlushPage, DirtyPages
  <2>2. PICK ps : ps = {p}
    BY Zenon
  <2>3. PICK saved \in SUBSET ps, torn \in SUBSET ps : Flush(ps, saved, torn)
    BY <1>5, <2>2, Zenon DEF FlushPage
  <2> QED
    BY <2>1, <2>2, <2>3, FlushStep, Zenon
<1>6. ASSUME NEW p, DeletePage(p)
      PROVE  IInv'
  BY <1>6, DeletePageStep, Zenon
<1>7. ASSUME FlushAllPages
      PROVE  IInv'
  <2>1. PICK ps : ps = DirtyPages
    BY Zenon
  <2>2. ps \in SUBSET DOMAIN pageTable
    BY <2>1, Zenon DEF DirtyPages
  <2>3. PICK saved \in SUBSET ps, torn \in SUBSET ps : Flush(ps, saved, torn)
    BY <1>7, <2>1, Zenon DEF FlushAllPages
  <2> QED
    BY <2>2, <2>3, FlushStep, Zenon
<1>8. CASE UNCHANGED vars
  <2>1. \A r : Holders(r)' = Holders(r) /\ Writers(r)' = Writers(r)
    BY <1>8, Zenon DEF vars, Holders, Writers, HasPin
  <2>2. TypeOK' /\ FramesPartition' /\ IdsAllocated'
    BY <1>8 DEF vars, IInv, TypeOK, FramesPartition, IdsAllocated, numPages
  <2>3. PinsProtect' /\ CleanMeansSaved'
    BY <1>8, <2>1, Zenon DEF vars, IInv, PinsProtect, CleanMeansSaved, HasPin, IsResident
  <2> QED
    BY <2>2, <2>3, Zenon DEF IInv
<1> QED
  BY <1>1, <1>2, <1>3, <1>4, <1>5, <1>6, <1>7, <1>8, Zenon DEF Next

\* The inductive invariant holds as long as clients fetch only page ids they
\* got from newPage (~Probing): the three results below are parts of it.
THEOREM PoolInvariance == ~Probing /\ Spec => []IInv
<1> SUFFICES ASSUME ~Probing PROVE Spec => []IInv
  BY Zenon
<1>1. IInv /\ [Next]_vars => IInv'
  BY NextInv, Zenon
<1> QED
  BY <1>1, InitInv, PTL DEF Spec

\* The variables of the pool keep their types: page ids within the file, frame
\* numbers within the pool, pin counts never negative.
THEOREM PoolTypeCorrect == ~Probing /\ Spec => []TypeOK
<1>1. IInv => TypeOK
  BY Zenon DEF IInv
<1> QED
  BY <1>1, PoolInvariance, PTL

\* fetchPage, newPage and deletePage never lose a frame or give one to two
\* pages, on any of their error paths.
THEOREM NoFrameLost == ~Probing /\ Spec => []FramesPartition
<1>1. IInv => FramesPartition
  BY Zenon DEF IInv
<1> QED
  BY <1>1, PoolInvariance, PTL

\* A page that a client has pinned is never evicted, deleted or moved, and pin
\* counts are exact.
THEOREM PinnedStay == ~Probing /\ Spec => []PinsProtect
<1>1. IInv => PinsProtect
  BY Zenon DEF IInv
<1> QED
  BY <1>1, PoolInvariance, PTL

\* Evicting a clean frame loses nothing.
THEOREM CleanSaved == ~Probing /\ Spec => []CleanMeansSaved
<1>1. IInv => CleanMeansSaved
  BY Zenon DEF IInv
<1> QED
  BY <1>1, PoolInvariance, PTL

-----------------------------------------------------------------------------
\* BufferPool implements PageStore.  Loading, creating, writing, unpinning and
\* deleting a page are steps of the store; misses, evictions, flushes and I/O
\* failures are invisible.


\* What the mapped variables are in a state of the pool.
Mapped ==
  /\ LatestPages \in Seq(Contents)
  /\ Len(LatestPages) = numPages
  /\ \A p \in 1..numPages : LatestPages[p] = Latest(p)
  /\ Views \in [Clients -> {Views[c] : c \in Clients}]
  /\ \A c \in Clients :
       /\ HasPin(c) => /\ pin[c].page \in 1..numPages
                       /\ Views[c] = [page |-> pin[c].page, data |-> Latest(pin[c].page)]
                       /\ Views[c] # Closed
       /\ ~HasPin(c) => Views[c] = Closed

\* The mapped variables are what they should be in every state of the pool ...
LEMMA MappedHolds == IInv => Mapped
<1> SUFFICES ASSUME IInv PROVE Mapped
  BY Zenon
<1>1. /\ numPages \in Nat /\ numPages = Len(disk) /\ disk \in Seq(Image)
      /\ frames \in [Frames -> Frame]
      /\ \A r \in DOMAIN pageTable : pageTable[r] \in Frames /\ r \in 1..numPages
  BY DEF IInv, TypeOK, PageIds, numPages, FramesPartition
<1>2. \A p \in 1..numPages : Latest(p) \in Contents
  <2>1. \A f \in Frames : frames[f].page.data \in Contents
    BY <1>1, Zenon DEF Frame, Image
  <2>2. \A p \in 1..numPages : disk[p] \in Image
    BY <1>1
  <2>3. \A p \in 1..numPages : disk[p].data \in Contents
    BY <2>2, Zenon DEF Image
  <2> QED
    BY <1>1, <2>1, <2>3, Zenon DEF Latest, IsResident
<1>3. /\ LatestPages \in Seq(Contents) /\ Len(LatestPages) = numPages
      /\ \A p \in 1..numPages : LatestPages[p] = Latest(p)
  <2>1. LatestPages \in [1..numPages -> Contents] /\ \A p \in 1..numPages : LatestPages[p] = Latest(p)
    BY <1>2, Zenon DEF LatestPages
  <2> QED
    BY <1>1, <2>1
<1>4. ASSUME NEW c \in Clients, HasPin(c)
      PROVE  /\ pin[c].page \in 1..numPages
             /\ Views[c] = [page |-> pin[c].page, data |-> Latest(pin[c].page)]
             /\ Views[c] # Closed
  <2>1. PICK p : p = pin[c].page
    BY Zenon
  <2>2. p \in DOMAIN pageTable /\ pageTable[p] = pin[c].frame
    BY <1>4, <2>1, Zenon DEF IInv, PinsProtect, IsResident
  <2>3. Latest(p) = frames[pin[c].frame].page.data
    BY <2>2, Zenon DEF Latest, IsResident
  <2>4. Views[c] = [page |-> p, data |-> Latest(p)]
    BY <1>4, <2>1, <2>3, Zenon DEF Views
  <2>5. p \in 1..numPages /\ p \in Nat /\ Latest(p) \in Data \cup {Zero, Reset, Torn}
    BY <1>1, <1>2, <2>2 DEF Contents
  <2>6. Views[c] \in [page : Nat, data : Data \cup {Zero, Reset, Torn}]
    BY <2>4, <2>5
  <2>7. Views[c] # Closed
    BY <2>6, PoolAssumption, Zenon
  <2> QED
    BY <2>1, <2>4, <2>5, <2>7, Zenon
<1>5. \A c \in Clients : ~HasPin(c) => Views[c] = Closed
  BY Zenon DEF Views
<1>6. Views \in [Clients -> {Views[c] : c \in Clients}]
  BY Zenon DEF Views
<1> QED
  BY <1>3, <1>4, <1>5, <1>6, Zenon DEF Mapped

\* ... and in the next one.
LEMMA MappedNext == IInv' => Mapped'
BY MappedHolds, PTL

\* A step that changes no page and no pin is invisible.
LEMMA Invisible ==
  ASSUME Mapped, Mapped', numPages' = numPages, pin' = pin,
         \A p \in 1..numPages : Latest(p)' = Latest(p)
  PROVE  LatestPages' = LatestPages /\ Views' = Views
<1>1. LatestPages' = LatestPages
  BY Zenon DEF LatestPages
<1>2. ASSUME NEW c \in Clients
      PROVE  Views'[c] = Views[c]
  <2>1. CASE HasPin(c)
    <3>1. PICK p \in 1..numPages : p = pin[c].page
      BY <2>1, Zenon DEF Mapped
    <3>2. Views[c] = [page |-> p, data |-> Latest(p)]
      BY <2>1, <3>1, Zenon DEF Mapped
    <3>3. Views'[c] = [page |-> p, data |-> Latest(p)']
      BY <2>1, <3>1, Zenon DEF Mapped, HasPin
    <3> QED
      BY <3>1, <3>2, <3>3, Zenon
  <2>2. CASE ~HasPin(c)
    BY <2>2, Zenon DEF Mapped, HasPin
  <2> QED
    BY <2>1, <2>2, Zenon
<1> QED
  BY <1>1, <1>2 DEF Mapped

\* Pinning page p, whose contents do not change, is opening it in the store.
LEMMA Opened ==
  ASSUME Mapped, Mapped', NEW c \in Clients, ~HasPin(c), NEW p \in 1..numPages, NEW f,
         HasPin(c)', pin'[c] = [page |-> p, frame |-> f, wrote |-> FALSE],
         \A b \in Clients : b # c => pin'[b] = pin[b],
         numPages' = numPages, \A r \in 1..numPages : Latest(r)' = Latest(r),
         nextPageId' = nextPageId
  PROVE  Store!Open(c, p)
<1>1. LatestPages' = LatestPages
  BY Zenon DEF LatestPages
<1>2. Views'[c] = [page |-> p, data |-> LatestPages[p]]
  BY DEF Mapped
<1>3. ASSUME NEW b \in Clients, b # c
      PROVE  Views'[b] = Views[b]
  <2>1. CASE HasPin(b)
    <3>1. PICK r \in 1..numPages : r = pin[b].page
      BY <2>1, Zenon DEF Mapped
    <3>2. Views[b] = [page |-> r, data |-> Latest(r)]
      BY <2>1, <3>1, Zenon DEF Mapped
    <3>3. Views'[b] = [page |-> r, data |-> Latest(r)']
      BY <1>3, <2>1, <3>1 DEF Mapped, HasPin
    <3> QED
      BY <3>1, <3>2, <3>3, Zenon
  <2>2. CASE ~HasPin(b)
    BY <1>3, <2>2, Zenon DEF Mapped, HasPin
  <2> QED
    BY <2>1, <2>2, Zenon
<1>4. Views' = [Views EXCEPT ![c] = [page |-> p, data |-> LatestPages[p]]]
  BY <1>2, <1>3 DEF Mapped
<1>5. Views[c] = Closed
  BY Zenon DEF Mapped
<1> QED
  BY <1>1, <1>4, <1>5, Zenon DEF Store!Open, Store!IsOpen

\* What loading page p into an acquired frame does to the contents of the pages:
\* p gets the contents of the new frame, no other page changes.
OnlyChanged(p, x, n) ==
  /\ numPages' = n
  /\ Latest(p)' = x
  /\ \A r \in 1..numPages : r # p => Latest(r)' = Latest(r)

\* Loading a page into a frame, with or without an eviction, leaves the latest
\* contents of all other pages as they are.
LEMMA LoadedPages ==
  ASSUME IInv, NEW d \in Seq(Image), Len(d) >= numPages,
         \A r \in 1..numPages : d[r] = disk[r], NEW a, Good(a, d),
         NEW p, ~IsResident(p), NEW fr,
         disk' = a.disk, frames' = [frames EXCEPT ![a.frame] = fr],
         pageTable' = Put(a.table, p, a.frame)
  PROVE  OnlyChanged(p, fr.page.data, Len(d))
<1>1. numPages' = Len(d) /\ a.frame \in Frames /\ numPages \in Nat
  BY DEF Good, numPages, IInv, TypeOK, PageIds
<1>2. /\ DOMAIN pageTable' = DOMAIN a.table \cup {p}
      /\ pageTable'[p] = a.frame
      /\ \A r \in DOMAIN a.table : r # p => pageTable'[r] = a.table[r]
  BY Zenon DEF Put
<1>3. frames'[a.frame] = fr /\ \A f \in Frames : f # a.frame => frames'[f] = frames[f]
  BY <1>1, Zenon DEF IInv, TypeOK
<1>4. Latest(p)' = fr.page.data
  BY <1>2, <1>3, Zenon DEF Latest, IsResident
<1>5. ASSUME NEW r \in 1..numPages, r # p
      PROVE  Latest(r)' = Latest(r)
  <2>0. r \in 1..Len(d)
    BY <1>1
  <2>1. CASE r \in DOMAIN a.table
    <3>1. a.table[r] = pageTable[r] /\ a.table[r] \in Frames /\ a.table[r] # a.frame /\ r \in DOMAIN pageTable
      BY <2>1, Zenon DEF Good
    <3> QED
      BY <1>2, <1>3, <1>5, <2>1, <3>1 DEF Latest, IsResident
  <2>2. CASE r \in DOMAIN pageTable /\ r \notin DOMAIN a.table
    <3>1. a.disk[r].data = frames[pageTable[r]].page.data
      BY <2>2, Zenon DEF Good
    <3> QED
      BY <1>2, <1>5, <2>2, <3>1, Zenon DEF Latest, IsResident
  <2>3. CASE r \notin DOMAIN pageTable
    <3>1. a.disk[r] = d[r] /\ r \notin DOMAIN a.table
      BY <2>0, <2>3, Zenon DEF Good
    <3> QED
      BY <1>2, <1>5, <2>3, <3>1, Zenon DEF Latest, IsResident
  <2> QED
    BY <2>1, <2>2, <2>3, Zenon
<1> QED
  BY <1>1, <1>4, <1>5, Zenon DEF OnlyChanged

-----------------------------------------------------------------------------
\* fetchPage of a resident page opens it.
LEMMA FetchHitOpens ==
  ASSUME IInv, IInv', Mapped, Mapped', NEW c \in Clients, NEW p, FetchHit(c, p)
  PROVE  p \in 1..numPages /\ Store!Open(c, p)
<1>1. /\ p \in DOMAIN pageTable /\ ~HasPin(c) /\ p \in PageIds
      /\ UNCHANGED <<disk, nextPageId, pageTable, freeList, clockHand>>
  BY Zenon DEF FetchHit, IsResident, IInv, TypeOK
<1>2. PICK f \in Frames : f = pageTable[p]
  BY <1>1, Zenon DEF IInv, TypeOK
<1>3. p \in 1..numPages
  BY <1>1 DEF IInv, FramesPartition, TypeOK, PageIds
<1>4. \A g \in Frames : frames'[g].page = frames[g].page
  BY <1>2, Zenon DEF FetchHit, IInv, TypeOK, Frame
<1>5. numPages' = numPages /\ \A r \in 1..numPages : Latest(r)' = Latest(r)
  <2>1. \A r \in DOMAIN pageTable : pageTable[r] \in Frames
    BY Zenon DEF IInv, TypeOK
  <2> QED
    BY <1>1, <1>4, <2>1, Zenon DEF Latest, IsResident, numPages
<1>6. pin' = [pin EXCEPT ![c] = [page |-> p, frame |-> f, wrote |-> FALSE]]
  BY <1>2, Zenon DEF FetchHit
<1>7. /\ HasPin(c)' /\ pin'[c] = [page |-> p, frame |-> f, wrote |-> FALSE]
      /\ \A b \in Clients : b # c => pin'[b] = pin[b]
  BY <1>1, <1>6, PinOpened, Zenon DEF IInv
<1>8. Store!Open(c, p)
  BY <1>1, <1>3, <1>5, <1>7, Opened, Zenon
<1> QED
  BY <1>3, <1>8, Zenon

\* fetchPage of a page that must be loaded opens it with its latest contents.
LEMMA FetchMissOpens ==
  ASSUME IInv, Mapped, Mapped', NEW c \in Clients, NEW p \in 1..(MaxPages + 1), FetchMiss(c, p)
  PROVE  p \in 1..numPages /\ Store!Open(c, p)
<1>1. /\ ~HasPin(c) /\ ~IsResident(p) /\ p <= numPages
      /\ UNCHANGED nextPageId
  BY Zenon DEF FetchMiss
<1>2. PICK d : d = disk
  BY Zenon
<1>3. /\ d \in Seq(Image) /\ Len(d) = numPages /\ numPages \in Nat
      /\ p \in 1..numPages /\ p \in PageIds
  BY <1>1, <1>2, PoolAssumption DEF IInv, TypeOK, numPages, PageIds
<1>4. PICK a \in Acquired(disk) :
        /\ disk' = a.disk
        /\ frames' = [frames EXCEPT ![a.frame] =
                        [pageId |-> p, isDirty |-> FALSE, pinCount |-> 1, page |-> a.disk[p]]]
        /\ pageTable' = Put(a.table, p, a.frame)
        /\ pin' = [pin EXCEPT ![c] = [page |-> p, frame |-> a.frame, wrote |-> FALSE]]
  BY Zenon DEF FetchMiss
<1>5. Len(d) >= numPages /\ a \in Acquired(d) /\ \A r \in 1..numPages : d[r] = disk[r]
  BY <1>2, <1>3, <1>4
<1>6. Good(a, d)
  BY <1>3, <1>5, AcquiredIsGood, Zenon
<1>7. PICK fr : fr = [pageId |-> p, isDirty |-> FALSE, pinCount |-> 1, page |-> a.disk[p]]
  BY Zenon
<1>8. /\ numPages' = Len(d)
      /\ Latest(p)' = fr.page.data
      /\ \A r \in 1..numPages : r # p => Latest(r)' = Latest(r)
  <2>1. OnlyChanged(p, fr.page.data, Len(d))
    BY <1>1, <1>3, <1>4, <1>5, <1>6, <1>7, LoadedPages, Zenon
  <2> QED
    BY <2>1, Zenon DEF OnlyChanged
<1>9. Latest(p)' = Latest(p)
  <2>1. a.disk[p] = d[p] /\ d[p] = disk[p]
    BY <1>1, <1>3, <1>5, <1>6, Zenon DEF Good, IsResident
  <2> QED
    BY <1>1, <1>7, <1>8, <2>1, Zenon DEF Latest
<1>10. /\ HasPin(c)' /\ pin'[c] = [page |-> p, frame |-> a.frame, wrote |-> FALSE]
       /\ \A b \in Clients : b # c => pin'[b] = pin[b]
  <2>1. a.frame \in Frames
    BY <1>6, Zenon DEF Good
  <2> QED
    BY <1>1, <1>3, <1>4, <2>1, PinOpened, Zenon DEF IInv
<1>11. Store!Open(c, p)
  BY <1>1, <1>3, <1>8, <1>9, <1>10, Opened, Zenon
<1> QED
  BY <1>3, <1>11, Zenon

\* A failed read is invisible, although a page may have been evicted.
LEMMA FetchReadFailsInvisible ==
  ASSUME IInv, Mapped, Mapped', NEW c, NEW p, FetchReadFails(c, p)
  PROVE  LatestPages' = LatestPages /\ Views' = Views /\ nextPageId' = nextPageId
<1>1. PICK a \in Acquired(disk) :
        /\ disk' = a.disk
        /\ frames' = [frames EXCEPT ![a.frame].page = TornImage]
        /\ pageTable' = a.table
  BY Zenon DEF FetchReadFails
<1>2. PICK d : d = disk
  BY Zenon
<1>3. /\ d \in Seq(Image) /\ numPages \in Nat /\ Len(d) = numPages
      /\ UNCHANGED <<nextPageId, pin>>
  BY <1>2 DEF IInv, TypeOK, numPages, PageIds, FetchReadFails
<1>4. Good(a, d)
  <2>1. Len(d) >= numPages /\ a \in Acquired(d) /\ \A r \in 1..numPages : d[r] = disk[r]
    BY <1>1, <1>2, <1>3
  <2> QED
    BY <1>3, <2>1, AcquiredIsGood, Zenon
<1>5. numPages' = numPages
  BY <1>1, <1>3, <1>4, Zenon DEF Good, numPages
<1>6. \A f \in Frames : f # a.frame => frames'[f] = frames[f]
  BY <1>1, Zenon DEF IInv, TypeOK
<1>7. ASSUME NEW r \in 1..numPages
      PROVE  Latest(r)' = Latest(r)
  <2>1. CASE r \in DOMAIN a.table
    <3>1. a.table[r] = pageTable[r] /\ a.table[r] \in Frames /\ a.table[r] # a.frame /\ r \in DOMAIN pageTable
      BY <1>4, <2>1, Zenon DEF Good
    <3> QED
      BY <1>1, <1>6, <2>1, <3>1 DEF Latest, IsResident
  <2>2. CASE r \in DOMAIN pageTable /\ r \notin DOMAIN a.table
    <3>1. a.disk[r].data = frames[pageTable[r]].page.data
      BY <1>4, <2>2, Zenon DEF Good
    <3> QED
      BY <1>1, <2>2, <3>1, Zenon DEF Latest, IsResident
  <2>3. CASE r \notin DOMAIN pageTable
    <3>1. a.disk[r] = d[r] /\ r \notin DOMAIN a.table
      BY <1>3, <1>4, <2>3, Zenon DEF Good
    <3> QED
      BY <1>1, <1>2, <2>3, <3>1, Zenon DEF Latest, IsResident
  <2> QED
    BY <2>1, <2>2, <2>3, Zenon
<1> QED
  BY <1>3, <1>5, <1>7, Invisible, Zenon

\* newPage creates a page.
LEMMA NewPageCreates ==
  ASSUME IInv, Mapped, Mapped', NEW c \in Clients, NewPage(c)
  PROVE  Store!Create(c)
<1>1. ~HasPin(c) /\ nextPageId <= MaxPages /\ nextPageId' = nextPageId + 1
  BY Zenon DEF NewPage
<1>2. PICK d, p : d = ExtendedFile /\ p = nextPageId
  BY Zenon
<1>3. /\ d \in Seq(Image) /\ Len(d) \in PageIds /\ Len(d) >= numPages /\ p \in 1..Len(d)
      /\ \A r \in 1..numPages : d[r] = disk[r]
      /\ p \in Nat /\ MaxPages \in Nat /\ numPages \in Nat
  BY <1>1, <1>2, ExtendedFacts, Zenon
<1>4. PICK a \in Acquired(ExtendedFile) :
        /\ disk' = a.disk
        /\ frames' = [frames EXCEPT ![a.frame] =
                        [pageId |-> nextPageId, isDirty |-> TRUE, pinCount |-> 1,
                         page |-> ResetImage]]
        /\ pageTable' = Put(a.table, nextPageId, a.frame)
        /\ pin' = [pin EXCEPT ![c] = [page |-> nextPageId, frame |-> a.frame, wrote |-> FALSE]]
  BY Zenon DEF NewPage
<1>5. Good(a, d)
  BY <1>2, <1>3, <1>4, AcquiredIsGood, Zenon
<1>6. PICK fr : fr = [pageId |-> p, isDirty |-> TRUE, pinCount |-> 1, page |-> ResetImage]
  BY Zenon
<1>7. ~IsResident(p)
  BY <1>2, <1>3 DEF IInv, IdsAllocated, IsResident
<1>8. /\ frames' = [frames EXCEPT ![a.frame] = fr]
      /\ pageTable' = Put(a.table, p, a.frame)
      /\ pin' = [pin EXCEPT ![c] = [page |-> p, frame |-> a.frame, wrote |-> FALSE]]
  BY <1>2, <1>4, <1>6, Zenon
<1>9. /\ numPages' = Len(d)
      /\ Latest(p)' = Reset
      /\ \A r \in 1..numPages : r # p => Latest(r)' = Latest(r)
  <2>1. OnlyChanged(p, fr.page.data, Len(d))
    BY <1>3, <1>4, <1>5, <1>7, <1>8, LoadedPages, Zenon
  <2> QED
    BY <1>6, <2>1, Zenon DEF ResetImage, OnlyChanged
<1>10. IF p > numPages THEN Len(d) = numPages + 1 /\ p = numPages + 1 ELSE Len(d) = numPages
  BY <1>2, <1>3 DEF ExtendedFile, IInv, TypeOK, IdsAllocated, numPages
<1>11. LatestPages' = [Store!Allocated EXCEPT ![p] = Reset]
  <2>1. /\ LatestPages' \in Seq(Contents) /\ Len(LatestPages') = Len(d)
        /\ \A r \in 1..Len(d) : LatestPages'[r] = Latest(r)'
    BY <1>9, Zenon DEF Mapped
  <2>2. /\ LatestPages \in Seq(Contents) /\ Len(LatestPages) = numPages
        /\ \A r \in 1..numPages : LatestPages[r] = Latest(r)
    BY Zenon DEF Mapped
  <2>3. PICK old, new : old = LatestPages /\ new = LatestPages'
    BY Zenon
  <2>4. \A r \in 1..numPages : r # p => new[r] = old[r]
    BY <1>3, <1>9, <2>1, <2>2, <2>3
  <2>5. new[p] = Reset
    BY <1>3, <1>9, <2>1, <2>3, Zenon
  <2>6. CASE p > numPages
    <3>1. Store!Allocated = Append(old, Zero)
      BY <1>2, <2>2, <2>3, <2>6, Zenon DEF Store!Allocated
    <3>2. [Append(old, Zero) EXCEPT ![p] = Reset] = new
      <4>1. p = numPages + 1 /\ Len(new) = numPages + 1 /\ Len(old) = numPages
        BY <1>10, <2>1, <2>2, <2>3, <2>6, Zenon
      <4>2. PICK ext : ext = Append(old, Zero)
        BY Zenon
      <4>3. Zero \in Contents /\ new \in Seq(Contents) /\ old \in Seq(Contents)
        BY <2>1, <2>2, <2>3, Zenon DEF Contents
      <4>4. ext \in Seq(Contents) /\ Len(ext) = numPages + 1 /\ \A r \in 1..numPages : ext[r] = old[r]
        BY <1>3, <4>1, <4>2, <4>3
      <4>5. \A r \in 1..(numPages + 1) : [ext EXCEPT ![p] = Reset][r] = new[r]
        BY <1>3, <2>4, <2>5, <4>1, <4>4
      <4>6. DOMAIN new = 1..(numPages + 1) /\ DOMAIN ext = 1..(numPages + 1)
        BY <4>1, <4>3, <4>4
      <4>7. [ext EXCEPT ![p] = Reset] = new
        BY <4>3, <4>5, <4>6
      <4> QED
        BY <4>2, <4>7, Zenon
    <3> QED
      BY <2>3, <3>1, <3>2, Zenon
  <2>7. CASE ~(p > numPages)
    <3>1. Store!Allocated = old
      BY <1>2, <2>2, <2>3, <2>7, Zenon DEF Store!Allocated
    <3>2. [old EXCEPT ![p] = Reset] = new
      BY <1>3, <1>10, <2>1, <2>2, <2>3, <2>4, <2>5, <2>7
    <3> QED
      BY <2>3, <3>1, <3>2, Zenon
  <2> QED
    BY <2>6, <2>7, Zenon
<1>12. /\ HasPin(c)' /\ pin'[c] = [page |-> p, frame |-> a.frame, wrote |-> FALSE]
       /\ \A b \in Clients : b # c => pin'[b] = pin[b]
  <2>1. a.frame \in Frames /\ p \in PageIds
    BY <1>3, <1>5 DEF Good, PageIds
  <2> QED
    BY <1>1, <1>8, <2>1, PinOpened, Zenon DEF IInv
<1>13. Views'[c] = [page |-> p, data |-> Reset]
  BY <1>9, <1>12 DEF Mapped
<1>14. ASSUME NEW b \in Clients, b # c
       PROVE  Views'[b] = Views[b]
  <2>1. CASE HasPin(b)
    <3>1. PICK r \in 1..numPages : r = pin[b].page
      BY <2>1, Zenon DEF Mapped
    <3>2. r # p
      BY <1>7, <2>1, <3>1, Zenon DEF IInv, PinsProtect
    <3>3. Views[b] = [page |-> r, data |-> Latest(r)]
      BY <2>1, <3>1, Zenon DEF Mapped
    <3>4. Views'[b] = [page |-> r, data |-> Latest(r)']
      BY <1>12, <1>14, <2>1, <3>1, Zenon DEF Mapped, HasPin
    <3> QED
      BY <1>9, <3>2, <3>3, <3>4, Zenon
  <2>2. CASE ~HasPin(b)
    BY <1>12, <1>14, <2>2, Zenon DEF Mapped, HasPin
  <2> QED
    BY <2>1, <2>2, Zenon
<1>15. Views' = [Views EXCEPT ![c] = [page |-> p, data |-> Reset]]
  BY <1>13, <1>14, Zenon DEF Mapped
<1>16. Views[c] = Closed
  BY <1>1, Zenon DEF Mapped
<1> QED
  BY <1>1, <1>2, <1>11, <1>15, <1>16, Zenon DEF Store!Create, Store!IsOpen

\* Clients whose pins, and the pages they show, did not change see the same.
LEMMA SameView ==
  ASSUME Mapped, Mapped', NEW b \in Clients, pin'[b] = pin[b],
         HasPin(b) => Latest(pin[b].page) = LatestPages'[pin[b].page],
         numPages' >= numPages, numPages \in Nat, numPages' \in Nat
  PROVE  Views'[b] = Views[b]
<1>1. CASE HasPin(b)
  <2>1. PICK r \in 1..numPages : r = pin[b].page
    BY <1>1, Zenon DEF Mapped
  <2>2. Views[b] = [page |-> r, data |-> Latest(r)]
    BY <1>1, <2>1, Zenon DEF Mapped
  <2>3. Views'[b] = [page |-> r, data |-> Latest(r)'] /\ r \in 1..numPages'
    BY <1>1, <2>1, Zenon DEF Mapped, HasPin
  <2>4. LatestPages'[r] = Latest(r)'
    BY <2>3, Zenon DEF Mapped
  <2> QED
    BY <1>1, <2>1, <2>2, <2>3, <2>4, Zenon
<1>2. CASE ~HasPin(b)
  BY <1>2, Zenon DEF Mapped, HasPin
<1> QED
  BY <1>1, <1>2, Zenon

\* newPage without a frame loses a page id.
LEMMA NewPageNoFrameLeaks ==
  ASSUME IInv, Mapped, Mapped', NEW c, NewPageNoFrame(c)
  PROVE  Store!Leak
<1>1. /\ nextPageId <= MaxPages /\ nextPageId' = nextPageId + 1
      /\ UNCHANGED <<frames, pageTable, pin>>
  BY Zenon DEF NewPageNoFrame, EvictionFails
<1>2. PICK d, p, n : d = ExtendedFile /\ p = nextPageId /\ n = numPages
  BY Zenon
<1>3. /\ d \in Seq(Image) /\ Len(d) >= n /\ Len(d) \in Nat
      /\ \A r \in 1..n : d[r] = disk[r]
      /\ p \in Nat /\ n \in Nat
  BY <1>1, <1>2, ExtendedFacts DEF PageIds
<1>4. /\ Len(disk') = Len(d)
      /\ \A r \in 1..Len(d) : disk'[r] = d[r] \/ r \in DOMAIN pageTable
  BY <1>2, NewPageNoFrameStep, Zenon
<1>5. /\ p > n => Len(d) = n + 1 /\ d[n + 1] = ZeroImage
      /\ ~(p > n) => Len(d) = n
  BY <1>2, <1>3 DEF ExtendedFile, IInv, TypeOK, numPages
<1>6. numPages' = Len(d) /\ \A r \in DOMAIN pageTable : r \in 1..n
  BY <1>2, <1>4 DEF numPages, IInv, FramesPartition, TypeOK, PageIds
<1>7. \A r \in 1..n : Latest(r)' = Latest(r)
  BY <1>1, <1>3, <1>4 DEF Latest, IsResident
<1>8. p > n => Latest(n + 1)' = Zero
  <2>1. n + 1 \notin DOMAIN pageTable
    BY <1>3, <1>6
  <2>2. p > n => disk'[n + 1] = ZeroImage
    BY <1>3, <1>4, <1>5, <2>1
  <2> QED
    BY <1>1, <2>1, <2>2 DEF Latest, IsResident, ZeroImage
<1>9. PICK old, new : old = LatestPages /\ new = LatestPages'
  BY Zenon
<1>10. /\ new \in Seq(Contents) /\ Len(new) = Len(d) /\ \A r \in 1..Len(d) : new[r] = Latest(r)'
       /\ old \in Seq(Contents) /\ Len(old) = n /\ \A r \in 1..n : old[r] = Latest(r)
  BY <1>2, <1>6, <1>9, Zenon DEF Mapped
<1>11. \A r \in 1..n : new[r] = old[r]
  BY <1>3, <1>7, <1>10
<1>12. new = Store!Allocated
  <2>1. CASE p > n
    <3>1. Store!Allocated = Append(old, Zero)
      BY <1>2, <1>9, <1>10, <2>1, Zenon DEF Store!Allocated
    <3>2. Len(new) = n + 1 /\ new[n + 1] = Zero
      BY <1>3, <1>5, <1>8, <1>10, <2>1
    <3>3. PICK ext : ext = Append(old, Zero)
      BY Zenon
    <3>4. /\ ext \in Seq(Contents) /\ Len(ext) = n + 1 /\ ext[n + 1] = Zero
          /\ \A r \in 1..n : ext[r] = old[r]
      BY <1>3, <1>10, <3>3 DEF Contents
    <3>5. \A r \in 1..(n + 1) : ext[r] = new[r]
      BY <1>3, <1>11, <3>2, <3>4
    <3>6. ext = new
      BY <1>10, <3>2, <3>4, <3>5
    <3> QED
      BY <3>1, <3>3, <3>6, Zenon
  <2>2. CASE ~(p > n)
    <3>1. Store!Allocated = old
      BY <1>2, <1>9, <1>10, <2>2, Zenon DEF Store!Allocated
    <3>2. old = new
      BY <1>5, <1>10, <1>11, <2>2
    <3> QED
      BY <3>1, <3>2, Zenon
  <2> QED
    BY <2>1, <2>2, Zenon
<1>13. Views' = Views
  <2>1. ASSUME NEW b \in Clients
        PROVE  Views'[b] = Views[b]
    <3>1. HasPin(b) => pin[b].page \in 1..n
      BY <1>2, Zenon DEF Mapped
    <3>2. HasPin(b) => Latest(pin[b].page) = new[pin[b].page]
      BY <1>10, <1>11, <3>1, Zenon
    <3> QED
      BY <1>1, <1>2, <1>3, <1>6, <1>9, <3>2, SameView, Zenon
  <2> QED
    BY <2>1 DEF Mapped
<1> QED
  BY <1>1, <1>9, <1>12, <1>13, Zenon DEF Store!Leak

\* A write changes one page, for everyone who has it open.
LEMMA WriteWrites ==
  ASSUME IInv, Mapped, Mapped', NEW c \in Clients, NEW d \in Data, Write(c, d)
  PROVE  Store!Write(c, d)
<1>1. /\ HasPin(c)
      /\ frames' = [frames EXCEPT ![pin[c].frame].page =
                      [data |-> d, checked |-> @.checked /\ @.data = d]]
      /\ pin' = [pin EXCEPT ![c].wrote = TRUE]
      /\ UNCHANGED <<disk, nextPageId, pageTable, freeList, clockHand>>
  BY Zenon DEF Write
<1>2. PICK p, f : p = pin[c].page /\ f = pin[c].frame
  BY Zenon
<1>3. /\ p \in DOMAIN pageTable /\ pageTable[p] = f /\ f \in Frames /\ p \in 1..numPages
      /\ frames \in [Frames -> Frame]
      /\ \A r \in DOMAIN pageTable : pageTable[r] \in Frames /\ (pageTable[r] = f => r = p)
  <2>1. p \in DOMAIN pageTable /\ pageTable[p] = f
    BY <1>1, <1>2, Zenon DEF IInv, PinsProtect, IsResident
  <2> QED
    BY <2>1 DEF IInv, TypeOK, FramesPartition, PageIds
<1>4. frames'[f].page.data = d /\ \A g \in Frames : g # f => frames'[g] = frames[g]
  <2>1. PICK im : im = [data |-> d, checked |-> frames[f].page.checked /\ frames[f].page.data = d]
    BY Zenon
  <2>2. frames' = [frames EXCEPT ![f].page = im]
    BY <1>1, <1>2, <1>3, <2>1, Zenon
  <2>3. frames'[f] = [frames[f] EXCEPT !.page = im] /\ \A g \in Frames : g # f => frames'[g] = frames[g]
    BY <1>3, <2>2, Zenon
  <2>4. frames'[f].page = im
    BY <1>3, <2>3 DEF Frame
  <2> QED
    BY <2>1, <2>3, <2>4
<1>5. /\ numPages' = numPages
      /\ Latest(p)' = d
      /\ \A r \in 1..numPages : r # p => Latest(r)' = Latest(r)
  <2>1. UNCHANGED <<disk, pageTable>>
    BY <1>1, Zenon
  <2>2. \A r \in DOMAIN pageTable : r # p => frames'[pageTable[r]] = frames[pageTable[r]]
    BY <1>3, <1>4, Zenon
  <2>3. Latest(p)' = d /\ numPages' = numPages
    BY <1>3, <1>4, <2>1, Zenon DEF Latest, IsResident, numPages
  <2> QED
    BY <2>1, <2>2, <2>3, Zenon DEF Latest, IsResident
<1>6. \A b \in Clients : /\ HasPin(b)' <=> HasPin(b)
                         /\ HasPin(b) => pin'[b].page = pin[b].page
  <2>1. \A b \in Clients : b # c => pin'[b] = pin[b]
    BY <1>1, Zenon DEF IInv, TypeOK
  <2>2. pin[c] \in Pin
    BY <1>1, Zenon DEF IInv, TypeOK, HasPin
  <2>3. pin'[c] = [pin[c] EXCEPT !.wrote = TRUE]
    BY <1>1, Zenon DEF IInv, TypeOK
  <2>4. pin'[c].page = pin[c].page /\ pin'[c] \in Pin
    BY <2>2, <2>3, Zenon DEF Pin
  <2>5. Closed \notin Pin
    <3>1. \A x \in Pin : x \in [page : Nat, frame : Nat, wrote : BOOLEAN]
      BY PoolAssumption DEF Pin, PageIds, Frames
    <3> QED
      BY <3>1, PoolAssumption, Zenon
  <2> QED
    BY <1>1, <2>1, <2>4, <2>5, Zenon DEF HasPin
<1>7. Views[c].page = p /\ Views[c] # Closed
  BY <1>1, <1>2 DEF Mapped
<1>8. LatestPages' = [LatestPages EXCEPT ![p] = d]
  BY <1>3, <1>5, Zenon DEF LatestPages
<1>9. ASSUME NEW b \in Clients
      PROVE  Views'[b] = IF Views[b] # Closed /\ Views[b].page = p
                         THEN [page |-> p, data |-> d] ELSE Views[b]
  <2>1. CASE HasPin(b)
    <3>1. PICK r \in 1..numPages : r = pin[b].page
      BY <2>1, Zenon DEF Mapped
    <3>2. Views[b] = [page |-> r, data |-> Latest(r)] /\ Views[b] # Closed
      BY <2>1, <3>1, Zenon DEF Mapped
    <3>3. Views'[b] = [page |-> r, data |-> Latest(r)']
      BY <1>6, <2>1, <3>1, Zenon DEF Mapped
    <3> QED
      BY <1>5, <3>2, <3>3
  <2>2. CASE ~HasPin(b)
    BY <1>6, <2>2, Zenon DEF Mapped
  <2> QED
    BY <2>1, <2>2, Zenon
<1>10. Views' = Store!Shown(p, d)
  BY <1>9, Zenon DEF Store!Shown, Store!IsOpen, Mapped
<1> QED
  BY <1>1, <1>7, <1>8, <1>10, Zenon DEF Store!Write, Store!IsOpen

\* unpinPage closes the page.
LEMMA UnpinPageCloses ==
  ASSUME IInv, Mapped, Mapped', NEW c \in Clients, NEW isDirty \in BOOLEAN, UnpinPage(c, isDirty)
  PROVE  Store!Close(c)
<1>1. /\ HasPin(c) /\ pin' = [pin EXCEPT ![c] = Closed]
      /\ UNCHANGED <<disk, nextPageId, pageTable, freeList, clockHand>>
  BY Zenon DEF UnpinPage
<1>2. \A r \in DOMAIN pageTable : pageTable[r] \in Frames
  BY Zenon DEF IInv, TypeOK
<1>3. \A g \in Frames : frames'[g].page = frames[g].page
  BY UnpinPageStep, Zenon
<1>4. numPages' = numPages /\ numPages \in Nat /\ \A r \in 1..numPages : Latest(r)' = Latest(r)
  BY <1>1, <1>2, <1>3 DEF Latest, IsResident, numPages, IInv, TypeOK
<1>5. LatestPages' = LatestPages
  BY <1>4, Zenon DEF LatestPages
<1>6. Views[c] # Closed /\ Views'[c] = Closed
  <2>1. ~HasPin(c)'
    BY <1>1, Zenon DEF HasPin, IInv, TypeOK
  <2> QED
    BY <1>1, <2>1, Zenon DEF Mapped
<1>7. ASSUME NEW b \in Clients, b # c
      PROVE  Views'[b] = Views[b]
  <2>1. pin'[b] = pin[b]
    BY <1>1, <1>7, Zenon DEF IInv, TypeOK
  <2>2. HasPin(b) => Latest(pin[b].page) = LatestPages'[pin[b].page]
    BY <1>5, Zenon DEF Mapped
  <2> QED
    BY <1>4, <2>1, <2>2, SameView
<1>8. Views' = [Views EXCEPT ![c] = Closed]
  BY <1>6, <1>7, Zenon DEF Mapped
<1> QED
  BY <1>1, <1>5, <1>6, <1>8, Zenon DEF Store!Close, Store!IsOpen

\* A flush is invisible.
LEMMA FlushInvisible ==
  ASSUME IInv, Mapped, Mapped', NEW ps \in SUBSET DOMAIN pageTable, NEW saved \in SUBSET ps,
         NEW torn \in SUBSET ps, Flush(ps, saved, torn)
  PROVE  LatestPages' = LatestPages /\ Views' = Views /\ nextPageId' = nextPageId
<1>1. UNCHANGED <<nextPageId, pageTable, pin>>
  BY Zenon DEF Flush
<1>2. /\ Len(disk') = Len(disk)
      /\ \A r \in 1..numPages : r \notin DOMAIN pageTable => disk'[r] = disk[r]
      /\ \A g \in Frames : frames'[g].page.data = frames[g].page.data
  BY FlushStep, Zenon
<1>3. \A r \in DOMAIN pageTable : pageTable[r] \in Frames
  BY Zenon DEF IInv, TypeOK
<1>4. numPages' = numPages /\ \A r \in 1..numPages : Latest(r)' = Latest(r)
  BY <1>1, <1>2, <1>3, Zenon DEF Latest, IsResident, numPages
<1> QED
  BY <1>1, <1>4, Invisible, Zenon

\* deletePage deletes a page that nobody has open.
LEMMA DeletePageDeletes ==
  ASSUME IInv, Mapped, Mapped', NEW p, DeletePage(p)
  PROVE  p \in 1..numPages /\ Store!Delete(p)
<1>1. /\ pageTable' = Erase(pageTable, p)
      /\ frames' = [frames EXCEPT ![pageTable[p]] =
                      [pageId |-> INVALID_PAGE_ID, isDirty |-> FALSE, pinCount |-> 0,
                       page |-> ResetImage]]
      /\ UNCHANGED <<disk, nextPageId, pin>>
  BY Zenon DEF DeletePage
<1>2. Holders(p) = {} /\ p \in DOMAIN pageTable
  BY DeletePageStep, Zenon
<1>3. /\ p \in 1..numPages /\ numPages' = numPages /\ numPages \in Nat
      /\ frames \in [Frames -> Frame]
      /\ \A r \in DOMAIN pageTable : pageTable[r] \in Frames /\ (pageTable[r] = pageTable[p] => r = p)
  BY <1>1, <1>2 DEF IInv, TypeOK, FramesPartition, PageIds, numPages
<1>4. DOMAIN pageTable' = DOMAIN pageTable \ {p} /\ \A r \in DOMAIN pageTable' : pageTable'[r] = pageTable[r]
  BY <1>1, Zenon DEF Erase
<1>5. \A r \in DOMAIN pageTable' : frames'[pageTable[r]] = frames[pageTable[r]]
  BY <1>1, <1>3, <1>4, Zenon
<1>6. \A r \in 1..numPages : r # p => Latest(r)' = Latest(r)
  BY <1>1, <1>4, <1>5 DEF Latest, IsResident
<1>7. PICK x : x = Latest(p)'
  BY Zenon
<1>8. x \in Store!Contents /\ LatestPages' = [LatestPages EXCEPT ![p] = x]
  <2>1. x \in Contents
    BY <1>3, <1>7 DEF Mapped
  <2>2. LatestPages' = [LatestPages EXCEPT ![p] = x]
    BY <1>3, <1>6, <1>7, Zenon DEF LatestPages
  <2> QED
    BY <2>1, <2>2, Zenon DEF Contents, Store!Contents
<1>9. \A b \in Clients : HasPin(b) => pin[b].page # p
  BY <1>2, Zenon DEF Holders
<1>10. \A b \in Clients : Views[b] # Closed => Views[b].page # p
  <2>1. ASSUME NEW b \in Clients, HasPin(b)
        PROVE  Views[b].page # p
    <3>1. Views[b] = [page |-> pin[b].page, data |-> Latest(pin[b].page)]
      BY <2>1, Zenon DEF Mapped
    <3>2. Views[b].page = pin[b].page
      BY <3>1
    <3> QED
      BY <1>9, <2>1, <3>2, Zenon
  <2> QED
    BY <2>1, Zenon DEF Mapped
<1>11. ASSUME NEW b \in Clients
       PROVE  Views'[b] = Views[b]
  <2>1. HasPin(b) => pin[b].page \in 1..numPages /\ pin[b].page # p
    BY <1>9, Zenon DEF Mapped
  <2>2. \A r \in 1..numPages : r # p => LatestPages'[r] = Latest(r)
    BY <1>3, <1>6, Zenon DEF Mapped
  <2>3. HasPin(b) => Latest(pin[b].page) = LatestPages'[pin[b].page]
    BY <2>1, <2>2, Zenon
  <2> QED
    BY <1>1, <1>3, <2>3, SameView
<1>12. Views' = Views
  BY <1>11 DEF Mapped
<1>13. Store!Delete(p)
  BY <1>1, <1>8, <1>10, <1>12, Zenon DEF Store!Delete, Store!IsOpen
<1> QED
  BY <1>3, <1>13, Zenon

-----------------------------------------------------------------------------
\* The pool starts as a page store.
LEMMA StoreInitially == Init => Store!StoreInit
<1> SUFFICES ASSUME Init PROVE Store!StoreInit
  BY Zenon
<1>1. IInv /\ Mapped
  BY InitInv, MappedHolds, Zenon
<1>2. \A c \in Clients : ~HasPin(c)
  BY Zenon DEF Init, HasPin
<1>3. Views = [c \in Clients |-> Closed]
  BY <1>2, Zenon DEF Views
<1>4. LatestPages \in Seq(Store!Contents)
  BY <1>1, Zenon DEF Mapped, Contents, Store!Contents
<1>5. nextPageId \in {Len(LatestPages), Len(LatestPages) + 1}
  <2>1. Len(LatestPages) = numPages
    BY <1>1, Zenon DEF Mapped
  <2> QED
    BY <2>1, Zenon DEF Init
<1> QED
  BY <1>3, <1>4, <1>5, Zenon DEF Store!StoreInit

\* Every step of the pool is a step of the page store, or invisible.
LEMMA StoreStep ==
  ASSUME IInv, IInv', [Next]_vars
  PROVE  [Store!StoreNext]_(Store!storeVars)
<1>1. Mapped /\ Mapped'
  BY MappedHolds, MappedNext, Zenon
<1>2. Len(LatestPages) = numPages
  BY <1>1, Zenon DEF Mapped
<1>3. ASSUME LatestPages' = LatestPages, Views' = Views, nextPageId' = nextPageId
      PROVE  UNCHANGED Store!storeVars
  BY <1>3, Zenon DEF Store!storeVars
<1>4. ASSUME NEW c \in Clients, NEW p \in 1..(MaxPages + 1), FetchHit(c, p) \/ FetchMiss(c, p)
      PROVE  Store!StoreNext
  <2>1. p \in 1..numPages /\ Store!Open(c, p)
    BY <1>1, <1>4, FetchHitOpens, FetchMissOpens, Zenon
  <2> QED
    BY <1>2, <2>1, Zenon DEF Store!StoreNext
<1>5. ASSUME NEW c, NEW p, FetchReadFails(c, p)
      PROVE  UNCHANGED Store!storeVars
  BY <1>1, <1>3, <1>5, FetchReadFailsInvisible, Zenon
<1>6. ASSUME NEW c, NEW p, FetchEvictionFails(c, p)
      PROVE  UNCHANGED Store!storeVars
  <2>1. /\ Len(disk') = numPages
        /\ \A r \in 1..numPages : disk'[r] = disk[r] \/ r \in DOMAIN pageTable
    BY <1>6, FetchEvictionFailsStep, Zenon
  <2>2. UNCHANGED <<frames, pageTable, pin, nextPageId>>
    BY <1>6, Zenon DEF FetchEvictionFails, EvictionFails
  <2>3. numPages' = numPages /\ \A r \in 1..numPages : Latest(r)' = Latest(r)
    BY <2>1, <2>2, Zenon DEF Latest, IsResident, numPages
  <2> QED
    BY <1>1, <1>3, <2>2, <2>3, Invisible, Zenon
<1>7. ASSUME NEW c \in Clients, NewPage(c)
      PROVE  Store!StoreNext
  BY <1>1, <1>7, NewPageCreates, Zenon DEF Store!StoreNext
<1>8. ASSUME NEW c \in Clients, NewPageNoFrame(c)
      PROVE  Store!StoreNext
  BY <1>1, <1>8, NewPageNoFrameLeaks, Zenon DEF Store!StoreNext
<1>9. ASSUME NEW c \in Clients, NEW d \in Data, Write(c, d)
      PROVE  Store!StoreNext
  BY <1>1, <1>9, WriteWrites, Zenon DEF Store!StoreNext
<1>10. ASSUME NEW c \in Clients, NEW isDirty \in BOOLEAN, UnpinPage(c, isDirty)
       PROVE  Store!StoreNext
  BY <1>1, <1>10, UnpinPageCloses, Zenon DEF Store!StoreNext
<1>11. ASSUME NEW p, FlushPage(p)
       PROVE  UNCHANGED Store!storeVars
  <2>1. {p} \in SUBSET DOMAIN pageTable
    BY <1>11, Zenon DEF FlushPage, DirtyPages
  <2>2. PICK ps : ps = {p}
    BY Zenon
  <2>3. PICK saved \in SUBSET ps, torn \in SUBSET ps : Flush(ps, saved, torn)
    BY <1>11, <2>2, Zenon DEF FlushPage
  <2> QED
    BY <1>1, <1>3, <2>1, <2>2, <2>3, FlushInvisible, Zenon
<1>12. ASSUME NEW p, DeletePage(p)
       PROVE  Store!StoreNext
  <2>1. p \in 1..Len(LatestPages) /\ Store!Delete(p)
    BY <1>1, <1>2, <1>12, DeletePageDeletes, Zenon
  <2> QED
    BY <2>1, Zenon DEF Store!StoreNext
<1>13. ASSUME FlushAllPages
       PROVE  UNCHANGED Store!storeVars
  <2>1. PICK ps : ps = DirtyPages
    BY Zenon
  <2>2. ps \in SUBSET DOMAIN pageTable
    BY <2>1, Zenon DEF DirtyPages
  <2>3. PICK saved \in SUBSET ps, torn \in SUBSET ps : Flush(ps, saved, torn)
    BY <1>13, <2>1, Zenon DEF FlushAllPages
  <2> QED
    BY <1>1, <1>3, <2>2, <2>3, FlushInvisible, Zenon
<1>14. CASE UNCHANGED vars
  <2>1. UNCHANGED <<disk, nextPageId, frames, pageTable, pin>>
    BY <1>14, Zenon DEF vars
  <2>2. numPages' = numPages /\ \A r \in 1..numPages : Latest(r)' = Latest(r)
    BY <2>1, Zenon DEF Latest, IsResident, numPages
  <2> QED
    BY <1>1, <1>3, <2>1, <2>2, Invisible, Zenon
<1> QED
  BY <1>4, <1>5, <1>6, <1>7, <1>8, <1>9, <1>10, <1>11, <1>12, <1>13, <1>14 DEF Next

\* The buffer pool implements the page store: for every pool size and whatever
\* fails, a client sees the latest contents of its page.
THEOREM PoolImplementsStore == ~Probing /\ Spec => ImplementsPageStore
<1> SUFFICES ASSUME ~Probing PROVE Spec => ImplementsPageStore
  BY Zenon
<1>1. IInv /\ IInv' /\ [Next]_vars => [Store!StoreNext]_(Store!storeVars)
  BY StoreStep, Zenon
<1>2. Spec => []IInv
  BY PoolInvariance, Zenon
<1> QED
  BY <1>1, <1>2, StoreInitially, PTL DEF Spec, ImplementsPageStore, Store!StoreSpec
=============================================================================
