------------------------------ MODULE PageStore ------------------------------
(***************************************************************************)
(* What the buffer pool promises its clients                               *)
(* (include/qindb/buffer_pool_manager.h): a file of pages in which an open *)
(* page shows its latest contents to everyone who has it open, and changes *)
(* only when one of them writes it, whatever is fetched, evicted, flushed  *)
(* or fails in between.  BufferPool implements this specification.         *)
(***************************************************************************)
EXTENDS Integers, Sequences

CONSTANTS
  Clients,   \* each holds at most one open page at a time
  Data,      \* what a client may write
  Zero,      \* a page the file was extended with
  Reset,     \* a page after Page::reset
  Torn,      \* a page that was only partly written
  Closed     \* the view of a client that has no page open

VARIABLES
  store,     \* the latest contents of the pages 1, 2, ... of the file
  next,      \* the page id the next allocation returns
  view       \* what each client has open: the page and the contents it sees

storeVars == <<store, next, view>>

Contents == Data \cup {Zero, Reset, Torn}

IsOpen(c) == view[c] # Closed

\* The views after the contents of page p have changed to d.
Shown(p, d) ==
  [c \in Clients |-> IF IsOpen(c) /\ view[c].page = p THEN [page |-> p, data |-> d] ELSE view[c]]

StoreInit ==
  /\ store \in Seq(Contents)
  /\ next \in {Len(store), Len(store) + 1}
  /\ view = [c \in Clients |-> Closed]

Open(c, p) ==
  /\ ~IsOpen(c)
  /\ view' = [view EXCEPT ![c] = [page |-> p, data |-> store[p]]]
  /\ UNCHANGED <<store, next>>

Close(c) ==
  /\ IsOpen(c)
  /\ view' = [view EXCEPT ![c] = Closed]
  /\ UNCHANGED <<store, next>>

Write(c, d) ==
  /\ IsOpen(c)
  /\ store' = [store EXCEPT ![view[c].page] = d]
  /\ view' = Shown(view[c].page, d)
  /\ UNCHANGED next

\* The next page id is taken; when the file must grow it gets a zeroed page.
Allocated == IF next > Len(store) THEN Append(store, Zero) ELSE store

Create(c) ==
  /\ ~IsOpen(c)
  /\ next' = next + 1
  /\ store' = [Allocated EXCEPT ![next] = Reset]
  /\ view' = [view EXCEPT ![c] = [page |-> next, data |-> Reset]]

\* The page is allocated but no frame is free for it: its id is lost.
Leak ==
  /\ next' = next + 1
  /\ store' = Allocated
  /\ UNCHANGED view

\* The contents of a deleted page mean nothing any more.
Delete(p) ==
  /\ \A c \in Clients : IsOpen(c) => view[c].page # p
  /\ \E d \in Contents : store' = [store EXCEPT ![p] = d]
  /\ UNCHANGED <<next, view>>

StoreNext ==
  \/ \E c \in Clients : Close(c) \/ Create(c)
  \/ \E c \in Clients, p \in 1..Len(store) : Open(c, p)
  \/ \E c \in Clients, d \in Data : Write(c, d)
  \/ \E p \in 1..Len(store) : Delete(p)
  \/ Leak

StoreSpec == StoreInit /\ [][StoreNext]_storeVars
=============================================================================
