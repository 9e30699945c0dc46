----------------------------- MODULE BufferPool -----------------------------
(***************************************************************************)
(* The buffer pool (src/src/storage/buffer_pool_manager.cpp) over the page *)
(* file (src/src/storage/disk_manager.cpp), used by several clients.       *)
(*                                                                         *)
(* Every method holds mutex_ from start to end, so a call is one action.   *)
(* A client writes to a page through the pointer that fetchPage or newPage *)
(* returned, without the mutex: Write is an action of its own, and it      *)
(* writes to that frame whatever page the frame holds by then.             *)
(*                                                                         *)
(* Reads and writes of the file may fail.  A failed write may leave a part *)
(* of the page on disk, a failed read may leave a part of it in the frame: *)
(* both are Torn.  lastAccessTime and the hit and miss counters are not    *)
(* modelled: nothing reads them but getStats.  evictPage has no caller.    *)
(***************************************************************************)
EXTENDS Integers, FiniteSets, Sequences

CONSTANTS
  PoolSize,   \* number of frames
  MaxPages,   \* bound: the file grows to at most this many pages
  Clients,    \* users of the pool, each with at most one page pinned
  Data,       \* what a client may write into a page
  Zero,       \* a page the file was extended with
  Reset,      \* a page after Page::reset
  Torn,       \* a page that was only partly read or written
  Closed,     \* a client that has no page pinned
  Probing     \* clients may fetch a page id before it is allocated

ASSUME PoolAssumption ==
  /\ PoolSize \in Nat \ {0}
  /\ MaxPages \in Nat \ {0}
  /\ IsFiniteSet(Clients)
  /\ Probing \in BOOLEAN
  /\ Closed \notin [page : Nat, frame : Nat, wrote : BOOLEAN]
  /\ Closed \notin [page : Nat, data : Data \cup {Zero, Reset, Torn}]

VARIABLES
  disk,       \* the pages 1, 2, ... of the file: contents and stored checksum
  nextPageId, \* nextPageId_ of the disk manager
  frames,     \* frames_: page id, dirty flag, pin count and the page itself
  pageTable,  \* pageTable_: resident page -> frame
  freeList,   \* freeList_
  clockHand,  \* clockHand_
  pin         \* each client's pinned page, its frame, and whether it wrote to it

vars == <<disk, nextPageId, frames, pageTable, freeList, clockHand, pin>>

-----------------------------------------------------------------------------
INVALID_PAGE_ID == 0

Frames == 0..(PoolSize - 1)

PageIds == 1..MaxPages

Contents == Data \cup {Zero, Reset, Torn}

\* The contents of a page, and whether its checksum field matches them.
Image == [data : Contents, checked : BOOLEAN]

ZeroImage == [data |-> Zero, checked |-> TRUE]
ResetImage == [data |-> Reset, checked |-> FALSE]
TornImage == [data |-> Torn, checked |-> FALSE]

Frame == [pageId : 0..MaxPages, isDirty : BOOLEAN, pinCount : Nat, page : Image]

Pin == [page : PageIds, frame : Frames, wrote : BOOLEAN]

Put(f, k, v) == [x \in DOMAIN f \cup {k} |-> IF x = k THEN v ELSE f[x]]
Erase(f, k) == [x \in DOMAIN f \ {k} |-> f[x]]

numPages == Len(disk)

IsResident(p) == p \in DOMAIN pageTable

HasPin(c) == pin[c] # Closed

Holders(p) == {c \in Clients : HasPin(c) /\ pin[c].page = p}

Writers(p) == {c \in Holders(p) : pin[c].wrote}

\* The page ids a client has: ids that newPage has returned, and ids beyond the
\* file (stale links).  CatalogDbBackend::systemTablesExist also asks for page 1
\* before it is allocated.
MayFetch(p) == Probing \/ p < nextPageId \/ p > numPages

\* A new file has one page (the header page, in the place of page 1) and page
\* id 1 is still to be allocated; a file that is opened again has some pages,
\* all of them allocated.  Zero stands for whatever they contain.
Init ==
  /\ disk \in UNION {[1..n -> {ZeroImage}] : n \in PageIds}
  /\ nextPageId \in {numPages + 1} \cup (IF numPages = 1 THEN {1} ELSE {})
  /\ frames = [f \in Frames |-> [pageId |-> INVALID_PAGE_ID, isDirty |-> FALSE,
                                 pinCount |-> 0, page |-> ResetImage]]
  /\ pageTable = [p \in {} |-> 0]
  /\ freeList = [i \in 1..PoolSize |-> i - 1]
  /\ clockHand = 0
  /\ pin = [c \in Clients |-> Closed]

-----------------------------------------------------------------------------
\* Mutant: pinned pages are evicted as well.
Evictable_Pinned(f) == frames[f].pageId # INVALID_PAGE_ID

\* findVictim: the clock hand passes every frame once without choosing, then
\* stops at the first frame that holds an unpinned page.  The result is empty
\* when every page is pinned (-1), and then the hand is back where it was.
Evictable(f) == frames[f].pinCount <= 0 /\ frames[f].pageId # INVALID_PAGE_ID

Scanned(n) == (clockHand + n) % PoolSize

Accepted == {n \in PoolSize..(2 * PoolSize - 1) : Evictable(Scanned(n))}

FindVictim == {Scanned(n) : n \in {m \in Accepted : \A k \in Accepted : m <= k}}

NextHand(f) == (f + 1) % PoolSize

\* Mutant: the victim keeps its entry in the page table.
Acquired_KeepsEntry(d) ==
  IF freeList # <<>>
  THEN {[frame |-> Head(freeList), free |-> Tail(freeList), table |-> pageTable,
         disk |-> d, hand |-> clockHand]}
  ELSE {[frame |-> v, free |-> <<>>, table |-> pageTable, disk |-> d,
         hand |-> NextHand(v)] : v \in FindVictim}

\* Mutant: a dirty victim is not written to the file.
Acquired_NoWriteBack(d) ==
  IF freeList # <<>>
  THEN {[frame |-> Head(freeList), free |-> Tail(freeList), table |-> pageTable,
         disk |-> d, hand |-> clockHand]}
  ELSE {[frame |-> v, free |-> <<>>, table |-> Erase(pageTable, frames[v].pageId),
         disk |-> d, hand |-> NextHand(v)] : v \in FindVictim}

\* The frame that fetchPage and newPage load a page into: the head of the free
\* list, or a victim, which is written to the file d if it is dirty (the
\* checksum is not updated) and leaves the page table.
Acquired(d) ==
  IF freeList # <<>>
  THEN {[frame |-> Head(freeList), free |-> Tail(freeList), table |-> pageTable,
         disk |-> d, hand |-> clockHand]}
  ELSE {[frame |-> v, free |-> <<>>, table |-> Erase(pageTable, frames[v].pageId),
         disk |-> IF frames[v].isDirty
                  THEN [d EXCEPT ![frames[v].pageId] = frames[v].page]
                  ELSE d,
         hand |-> NextHand(v)] : v \in FindVictim}

\* The victim cannot be written: the caller gives up, the victim stays, the
\* hand has moved on.
EvictionFails(d) ==
  /\ freeList = <<>>
  /\ \E v \in FindVictim :
       /\ frames[v].isDirty
       /\ clockHand' = NextHand(v)
       /\ \/ disk' = d
          \/ disk' = [d EXCEPT ![frames[v].pageId] = TornImage]
  /\ UNCHANGED <<frames, pageTable, freeList, pin>>

-----------------------------------------------------------------------------
\* fetchPage: a hit; a miss that loads the page; a miss whose read fails, after
\* the victim has been evicted; a miss whose victim cannot be written.

FetchHit(c, p) ==
  /\ ~HasPin(c)
  /\ MayFetch(p)
  /\ IsResident(p)
  /\ frames' = [frames EXCEPT ![pageTable[p]].pinCount = @ + 1]
  /\ pin' = [pin EXCEPT ![c] = [page |-> p, frame |-> pageTable[p], wrote |-> FALSE]]
  /\ UNCHANGED <<disk, nextPageId, pageTable, freeList, clockHand>>

FetchMiss(c, p) ==
  /\ ~HasPin(c)
  /\ MayFetch(p)
  /\ ~IsResident(p)
  /\ p <= numPages
  /\ \E a \in Acquired(disk) :
       /\ disk' = a.disk
       /\ frames' = [frames EXCEPT ![a.frame] =
                       [pageId |-> p, isDirty |-> FALSE, pinCount |-> 1, page |-> a.disk[p]]]
       /\ pageTable' = Put(a.table, p, a.frame)
       /\ freeList' = a.free
       /\ clockHand' = a.hand
       /\ pin' = [pin EXCEPT ![c] = [page |-> p, frame |-> a.frame, wrote |-> FALSE]]
  /\ UNCHANGED nextPageId

\* The frame goes back to the free list with the page id and the dirty flag of
\* the page it held before; what it contains is never looked at again.
FetchReadFails(c, p) ==
  /\ ~HasPin(c)
  /\ MayFetch(p)
  /\ ~IsResident(p)
  /\ \E a \in Acquired(disk) :
       /\ disk' = a.disk
       /\ frames' = [frames EXCEPT ![a.frame].page = TornImage]
       /\ pageTable' = a.table
       /\ freeList' = Append(a.free, a.frame)
       /\ clockHand' = a.hand
  /\ UNCHANGED <<nextPageId, pin>>

FetchEvictionFails(c, p) ==
  /\ ~HasPin(c)
  /\ MayFetch(p)
  /\ ~IsResident(p)
  /\ EvictionFails(disk)
  /\ UNCHANGED nextPageId

\* newPage: the page id is taken and the file extended by a zeroed page first
\* (allocatePage, extendFile); it stays taken when no frame can be had, since
\* deallocatePage does nothing.
ExtendedFile ==
  IF nextPageId > numPages THEN Append(disk, ZeroImage) ELSE disk

NewPage(c) ==
  /\ ~HasPin(c)
  /\ nextPageId <= MaxPages
  /\ nextPageId' = nextPageId + 1
  /\ \E a \in Acquired(ExtendedFile) :
       /\ disk' = a.disk
       /\ frames' = [frames EXCEPT ![a.frame] =
                       [pageId |-> nextPageId, isDirty |-> TRUE, pinCount |-> 1,
                        page |-> ResetImage]]
       /\ pageTable' = Put(a.table, nextPageId, a.frame)
       /\ freeList' = a.free
       /\ clockHand' = a.hand
       /\ pin' = [pin EXCEPT ![c] = [page |-> nextPageId, frame |-> a.frame, wrote |-> FALSE]]

NewPageNoFrame(c) ==
  /\ ~HasPin(c)
  /\ nextPageId <= MaxPages
  /\ nextPageId' = nextPageId + 1
  /\ \/ /\ Acquired(ExtendedFile) = {}
        /\ disk' = ExtendedFile
        /\ UNCHANGED <<frames, pageTable, freeList, clockHand, pin>>
     \/ EvictionFails(ExtendedFile)

-----------------------------------------------------------------------------
\* A client changes its page through the pointer it got.
Write(c, d) ==
  /\ HasPin(c)
  /\ frames' = [frames EXCEPT ![pin[c].frame].page = [data |-> d, checked |-> @.checked /\ @.data = d]]
  /\ pin' = [pin EXCEPT ![c].wrote = TRUE]
  /\ UNCHANGED <<disk, nextPageId, pageTable, freeList, clockHand>>

\* Mutant: the last unpin decides whether the page is dirty.
UnpinPage_SetsDirty(c, isDirty) ==
  /\ HasPin(c)
  /\ pin[c].wrote => isDirty
  /\ frames' = [frames EXCEPT ![pageTable[pin[c].page]].pinCount = @ - 1,
                              ![pageTable[pin[c].page]].isDirty = isDirty]
  /\ pin' = [pin EXCEPT ![c] = Closed]
  /\ UNCHANGED <<disk, nextPageId, pageTable, freeList, clockHand>>

\* unpinPage: the frame is looked up by the page id.  A client that wrote to
\* the page says so; others may say so as well.
UnpinPage(c, isDirty) ==
  /\ HasPin(c)
  /\ pin[c].wrote => isDirty
  /\ LET p == pin[c].page
         f == pageTable[p]
     IN  IF IsResident(p) /\ frames[f].pinCount > 0
         THEN frames' = [frames EXCEPT ![f].pinCount = @ - 1, ![f].isDirty = @ \/ isDirty]
         ELSE frames' = frames
  /\ pin' = [pin EXCEPT ![c] = Closed]
  /\ UNCHANGED <<disk, nextPageId, pageTable, freeList, clockHand>>

-----------------------------------------------------------------------------
\* The dirty resident pages, which flushAllPages writes, with the checksum
\* updated before the write.
DirtyPages == {p \in DOMAIN pageTable : frames[pageTable[p]].isDirty}

Checked(f) == [data |-> frames[f].page.data, checked |-> TRUE]

\* flushPage for the one page in ps, flushAllPages for all dirty pages: the
\* pages in saved are written and become clean, the others fail and stay
\* dirty.  A write that fails, or that runs while a client changes the page,
\* may leave a torn page.
Flush(ps, saved, torn) ==
  /\ \A p \in saved \cap torn : Writers(p) # {}
  /\ disk' = [p \in 1..numPages |->
                IF p \in torn THEN TornImage
                ELSE IF p \in saved THEN Checked(pageTable[p]) ELSE disk[p]]
  /\ frames' = [f \in Frames |->
                  IF \E p \in ps : pageTable[p] = f
                  THEN [frames[f] EXCEPT !.isDirty = ~(\E p \in saved : pageTable[p] = f),
                                         !.page = Checked(f)]
                  ELSE frames[f]]
  /\ UNCHANGED <<nextPageId, pageTable, freeList, clockHand, pin>>

FlushPage(p) ==
  /\ p \in DirtyPages
  /\ \E saved, torn \in SUBSET {p} : Flush({p}, saved, torn)

FlushAllPages ==
  /\ DirtyPages # {}
  /\ \E saved, torn \in SUBSET DirtyPages : Flush(DirtyPages, saved, torn)

\* deletePage: refused when the page is pinned; a page that is not resident
\* needs no change, since deallocatePage does nothing.
DeletePage(p) ==
  /\ IsResident(p)
  /\ frames[pageTable[p]].pinCount <= 0
  /\ pageTable' = Erase(pageTable, p)
  /\ frames' = [frames EXCEPT ![pageTable[p]] =
                  [pageId |-> INVALID_PAGE_ID, isDirty |-> FALSE, pinCount |-> 0,
                   page |-> ResetImage]]
  /\ freeList' = Append(freeList, pageTable[p])
  /\ UNCHANGED <<disk, nextPageId, clockHand, pin>>

-----------------------------------------------------------------------------
Next ==
  \/ \E c \in Clients, p \in 1..(MaxPages + 1) :
       \/ FetchHit(c, p)
       \/ FetchMiss(c, p)
       \/ FetchReadFails(c, p)
       \/ FetchEvictionFails(c, p)
  \/ \E c \in Clients : NewPage(c) \/ NewPageNoFrame(c)
  \/ \E c \in Clients, d \in Data : Write(c, d)
  \/ \E c \in Clients, isDirty \in BOOLEAN : UnpinPage(c, isDirty)
  \/ \E p \in PageIds : FlushPage(p) \/ DeletePage(p)
  \/ FlushAllPages

Spec == Init /\ [][Next]_vars

-----------------------------------------------------------------------------
TypeOK ==
  /\ disk \in Seq(Image)
  /\ numPages \in PageIds
  /\ nextPageId \in 1..(MaxPages + 1)
  /\ frames \in [Frames -> Frame]
  /\ DOMAIN pageTable \subseteq PageIds
  /\ pageTable \in [DOMAIN pageTable -> Frames]
  /\ freeList \in Seq(Frames)
  /\ clockHand \in Frames
  /\ pin \in [Clients -> Pin \cup {Closed}]

\* No frame is lost or used twice: every frame is either once on the free list
\* or holds exactly one resident page, which it names, and every resident page
\* is in the file.  A failed read or write in the middle of fetchPage or
\* newPage must give the frame back.
FramesPartition ==
  /\ \A i, j \in 1..Len(freeList) : freeList[i] = freeList[j] => i = j
  /\ \A p \in DOMAIN pageTable :
       /\ p <= numPages
       /\ frames[pageTable[p]].pageId = p
       /\ \A i \in 1..Len(freeList) : freeList[i] # pageTable[p]
  /\ \A f \in Frames :
       \/ \E i \in 1..Len(freeList) : freeList[i] = f
       \/ \E p \in DOMAIN pageTable : pageTable[p] = f

\* A page stays in its frame while a client has it pinned, and the pin count of
\* every frame is the number of clients that use it: the pointer a client holds
\* is never the memory of another page.
PinsProtect ==
  /\ \A c \in Clients : HasPin(c) =>
       IsResident(pin[c].page) /\ pageTable[pin[c].page] = pin[c].frame
  /\ \A p \in DOMAIN pageTable :
       frames[pageTable[p]].pinCount = Cardinality(Holders(p))

\* A resident page that differs from the file is marked dirty, or a client that
\* wrote to it still has it pinned and will mark it: evicting a clean page and
\* flushing the dirty ones loses nothing, also when a flush comes between a
\* client's write and its unpin.
CleanMeansSaved ==
  \A p \in DOMAIN pageTable :
    \/ frames[pageTable[p]].isDirty
    \/ Writers(p) # {}
    \/ disk[p].data = frames[pageTable[p]].page.data

-----------------------------------------------------------------------------
\* The latest contents of a page are in its frame, or else in the file.
Latest(p) == IF IsResident(p) THEN frames[pageTable[p]].page.data ELSE disk[p].data

LatestPages == [p \in 1..numPages |-> Latest(p)]

\* What the pointer of a client shows.
Views ==
  [c \in Clients |->
     IF HasPin(c)
     THEN [page |-> pin[c].page, data |-> frames[pin[c].frame].page.data]
     ELSE Closed]

Store == INSTANCE PageStore WITH store <- LatestPages, next <- nextPageId, view <- Views

\* The pool is a transparent cache: hits, misses, evictions, flushes and I/O
\* failures are invisible, a client always sees the latest contents of its
\* page, and a page changes only when a client that pinned it writes.
ImplementsPageStore == Store!StoreSpec
=============================================================================
