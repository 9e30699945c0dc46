-------------------------- MODULE GenericBPlusTree --------------------------
(***************************************************************************)
(* The B+ tree of src/src/index/generic_bplustree.cpp as operators on a    *)
(* tree: a record of its pages, its root, the result of the last operation *)
(* and the fault that operation ran into.  Every method of the class holds *)
(* mutex_ from start to end, so a method is one operator.                  *)
(*                                                                         *)
(* A key is a stored value of module KeyTypes.  A leaf page holds keys and *)
(* row ids, an internal page separators and one child more than it has     *)
(* separators (firstChild is kids[1]).  newPage and fetchPage succeed (a   *)
(* pool without a free frame is a matter of module BufferPool); a new page *)
(* takes the smallest id not in use, a renaming of the ids on disk.        *)
(*                                                                         *)
(* fault names what the code only logs: a merge that does not find the     *)
(* separator it wants to delete, a parent page with no room for the        *)
(* separator of a split, a borrowed entry that does not fit, a merge of an *)
(* empty leaf, a key that can be written and not read.  Pages freed by a   *)
(* merge may be read again after the first of these, so the tree is not    *)
(* followed beyond a fault.                                                *)
(***************************************************************************)
EXTENDS Integers, Sequences, SequencesExt, FiniteSets, FiniteSetsExt, KeyTypes

CONSTANTS
  maxKeysPerPage, \* maxKeysPerPage_
  PageSpace       \* PAGE_SIZE - sizeof(BPlusTreePageHeader)

ASSUME TreeAssumption == maxKeysPerPage \in Nat /\ maxKeysPerPage >= 3 /\ PageSpace \in Nat

NoPage == 0 \* INVALID_PAGE_ID

MaxKeyBytes == 4096 \* the longest key the readers accept

\* The constructor: a root that is an empty leaf.
EmptyLeaf == [leaf |-> TRUE, keys |-> <<>>, kids |-> <<>>,
              parent |-> NoPage, next |-> NoPage, prev |-> NoPage]

EmptyTree(type) ==
  [type |-> type, pages |-> (1 :> EmptyLeaf), root |-> 1, ok |-> TRUE, fault |-> "none"]

-----------------------------------------------------------------------------
Refuse(t) == [t EXCEPT !.ok = FALSE]
Faulty(t, f) == [t EXCEPT !.fault = f]
WithPage(t, p, n) == [t EXCEPT !.pages = (p :> n) @@ @]
Fresh(t) == Min((1..(Cardinality(DOMAIN t.pages) + 1)) \ DOMAIN t.pages)

\* setParentPageId for some pages, and unlinking a page that is deleted.
SetParent(t, ps, p) ==
  [t EXCEPT !.pages = [q \in DOMAIN @ |-> IF q \in ps THEN [@[q] EXCEPT !.parent = p] ELSE @[q]]]
SetPrev(t, p, q) ==
  IF p = NoPage THEN t ELSE [t EXCEPT !.pages[p].prev = q]
DeletePage(t, p) ==
  [t EXCEPT !.pages = [q \in DOMAIN @ \ {p} |-> @[q]]]

\* The bytes that writeLeafEntries and writeInternalEntries need: a count, the
\* first child, and per entry a length, the key, and a row id or a page id.
KeyBytes(t, keys) == SumFunction([i \in DOMAIN keys |-> SerializedSize(t.type, keys[i])])

LeafFits(t, keys) == 2 + KeyBytes(t, keys) + 10 * Len(keys) <= PageSpace
InternalFits(t, keys) == 6 + KeyBytes(t, keys) + 6 * Len(keys) <= PageSpace

\* readLeafEntries and readInternalEntries give up at a key that is too long.
Readable(t, keys) == \A i \in DOMAIN keys : SerializedSize(t.type, keys[i]) <= MaxKeyBytes

compareKeys(t, a, b) == compareSerialized(t.type, a, b)

\* findKeyPositionInLeaf, counted from 0.
Below(t, keys, k) == Cardinality({i \in DOMAIN keys : compareKeys(t, keys[i], k) < 0})

\* findChildPosition: the separators up to and including the key.
ChildPosition(t, keys, k) == Cardinality({i \in DOMAIN keys : compareKeys(t, keys[i], k) <= 0})

RECURSIVE Descend(_, _, _)
Descend(t, p, k) ==
  IF t.pages[p].leaf THEN p
  ELSE Descend(t, t.pages[p].kids[ChildPosition(t, t.pages[p].keys, k) + 1], k)

FindLeafPage(t, k) == Descend(t, t.root, k)

-----------------------------------------------------------------------------
\* search: the row id stored for a key, as a set of at most one.
TreeSearch(t, k) ==
  LET n == t.pages[FindLeafPage(t, k)]
      pos == Below(t, n.keys, k) + 1
  IN IF Readable(t, n.keys) /\ pos <= Len(n.keys) /\ compareKeys(t, n.keys[pos], k) = 0 THEN {n.kids[pos]} ELSE {}

\* Mutant: the walk ends with the leaf it starts in when that has a result.
Walk_OneLeaf(t, p, lo, hi) ==
  LET n == t.pages[p]
  IN SelectSeq([i \in DOMAIN n.keys |-> <<n.keys[i], n.kids[i]>>],
               LAMBDA e : compareKeys(t, e[1], lo) >= 0 /\ compareKeys(t, e[1], hi) <= 0)

\* rangeSearch: from the leaf of the smallest key along the next links, up to
\* the first key beyond the largest one or a leaf that cannot be read.
RECURSIVE Walk(_, _, _, _)
Walk(t, p, lo, hi) ==
  IF p = NoPage THEN <<>>
  ELSE LET n == t.pages[p]
           found == SelectSeq([i \in DOMAIN n.keys |-> <<n.keys[i], n.kids[i]>>],
                              LAMBDA e : compareKeys(t, e[1], lo) >= 0 /\ compareKeys(t, e[1], hi) <= 0)
       IN IF ~Readable(t, n.keys) THEN <<>>
          ELSE IF \E i \in DOMAIN n.keys : compareKeys(t, n.keys[i], hi) > 0 THEN found
          ELSE found \o Walk(t, n.next, lo, hi)

TreeRangeSearch(t, lo, hi) == Walk(t, FindLeafPage(t, lo), lo, hi)

-----------------------------------------------------------------------------
\* createNewRoot: the two halves become the children of a new root.
CreateNewRoot(t, left, key, right) ==
  LET r == Fresh(t)
      n == [EmptyLeaf EXCEPT !.leaf = FALSE, !.keys = <<key>>, !.kids = <<left, right>>]
  IN [SetParent(WithPage(t, r, n), {left, right}, r) EXCEPT !.root = r]

\* splitInternalNode: the middle separator moves up, what follows it moves to a
\* new page, whose children learn their new parent.
SplitInternalNode(t, p) ==
  LET n == t.pages[p]
      q == Fresh(t)
      mid == Len(n.keys) \div 2
      left == [n EXCEPT !.keys = SubSeq(n.keys, 1, mid), !.kids = SubSeq(n.kids, 1, mid + 1)]
      right == [n EXCEPT !.keys = SubSeq(n.keys, mid + 2, Len(n.keys)),
                         !.kids = SubSeq(n.kids, mid + 2, Len(n.kids))]
  IN [tree |-> SetParent(WithPage(WithPage(t, q, right), p, left), Range(right.kids), q),
      right |-> q, key |-> n.keys[mid + 1]]

\* insertIntoParent: a page that cannot hold one separator more leaves the new
\* child out of the tree; one that has too many separators is split in turn.
RECURSIVE InsertIntoParent(_, _, _, _)
InsertIntoParent(t, p, key, right) ==
  LET n == t.pages[p]
      pos == ChildPosition(t, n.keys, key)
      keys == InsertAt(n.keys, pos + 1, key)
      t1 == WithPage(t, p, [n EXCEPT !.keys = keys, !.kids = InsertAt(@, pos + 2, right)])
      split == SplitInternalNode(t1, p)
  IN IF ~InternalFits(t, keys) THEN Refuse(Faulty(t, "parentFull"))
     ELSE IF Len(keys) <= maxKeysPerPage THEN t1
     ELSE IF n.parent = NoPage THEN CreateNewRoot(split.tree, p, split.key, split.right)
     ELSE InsertIntoParent(split.tree, n.parent, split.key, split.right)

\* Mutant: the new leaf is not linked in behind the old one.
SplitLeafNode_StaleNext(t, p) ==
  LET n == t.pages[p]
      q == Fresh(t)
      mid == Len(n.keys) \div 2
      left == [n EXCEPT !.keys = SubSeq(@, 1, mid), !.kids = SubSeq(@, 1, mid)]
      right == [n EXCEPT !.keys = SubSeq(@, mid + 1, Len(@)), !.kids = SubSeq(@, mid + 1, Len(@)),
                         !.prev = p]
  IN [tree |-> SetPrev(WithPage(WithPage(t, q, right), p, left), n.next, q),
      right |-> q, key |-> right.keys[1]]

\* splitLeafNode: the upper half moves to a new leaf between this and the next.
SplitLeafNode(t, p) ==
  LET n == t.pages[p]
      q == Fresh(t)
      mid == Len(n.keys) \div 2
      left == [n EXCEPT !.keys = SubSeq(@, 1, mid), !.kids = SubSeq(@, 1, mid), !.next = q]
      right == [n EXCEPT !.keys = SubSeq(@, mid + 1, Len(@)), !.kids = SubSeq(@, mid + 1, Len(@)),
                         !.prev = p]
  IN [tree |-> SetPrev(WithPage(WithPage(t, q, right), p, left), n.next, q),
      right |-> q, key |-> right.keys[1]]

\* insertIntoLeaf: an existing key gets the new row id; a leaf too long for its
\* page is not written; one with too many keys is written and split.
InsertIntoLeaf(t, p, k, v) ==
  LET n == t.pages[p]
      pos == Below(t, n.keys, k) + 1
      keys == InsertAt(n.keys, pos, k)
      t1 == WithPage(t, p, [n EXCEPT !.keys = keys, !.kids = InsertAt(@, pos, v)])
      split == SplitLeafNode(t1, p)
  IN IF pos <= Len(n.keys) /\ compareKeys(t, n.keys[pos], k) = 0 THEN [t EXCEPT !.pages[p].kids[pos] = v]
     ELSE IF ~LeafFits(t, keys) THEN Refuse(t)
     ELSE IF ~Readable(t, keys) THEN Faulty(t1, "keySize")
     ELSE IF Len(keys) <= maxKeysPerPage THEN t1
     ELSE IF n.parent = NoPage THEN CreateNewRoot(split.tree, p, split.key, split.right)
     ELSE InsertIntoParent(split.tree, n.parent, split.key, split.right)

\* insert, on a tree without a fault.
TreeInsert(t, k, v) == InsertIntoLeaf([t EXCEPT !.ok = TRUE], FindLeafPage(t, k), k, v)

-----------------------------------------------------------------------------
MinKeys == (maxKeysPerPage + 1) \div 2 \* getMinKeys, for leaves

\* isUnderflow of a leaf: the root may be empty.
IsUnderflow(n) == n.parent # NoPage /\ Len(n.keys) < MinKeys

WriteEntries(t, p, keys, kids) ==
  [t EXCEPT !.pages[p].keys = keys, !.pages[p].kids = kids]

\* The separator before child i + 1 becomes a key; one for which the page has no
\* room stays what it was, and the borrowing has happened all the same.
SetSeparator(t, p, i, key) ==
  LET keys == [t.pages[p].keys EXCEPT ![i] = key]
  IN IF InternalFits(t, keys) THEN [t EXCEPT !.pages[p].keys = keys] ELSE Faulty(t, "separator")

\* borrowFromLeftSiblingLeaf: the last entry of the left sibling moves here and
\* becomes the separator.  The sibling is written first: when this leaf cannot
\* take the entry it is in neither.
BorrowFromLeft(t, p, s, i) ==
  LET n == t.pages[p]
      l == t.pages[s]
      keys == <<Last(l.keys)>> \o n.keys
      t1 == WriteEntries(t, s, Front(l.keys), Front(l.kids))
      t2 == WriteEntries(t1, p, keys, <<Last(l.kids)>> \o n.kids)
  IN IF ~LeafFits(t, keys) THEN Faulty(t1, "borrowLost")
     ELSE SetSeparator(t2, n.parent, i - 1, keys[1])

\* Mutant: the separator becomes the key that moved.
BorrowFromRight_MovedKey(t, p, s, i) ==
  LET n == t.pages[p]
      r == t.pages[s]
      keys == n.keys \o <<r.keys[1]>>
      t1 == WriteEntries(t, s, Tail(r.keys), Tail(r.kids))
      t2 == WriteEntries(t1, p, keys, n.kids \o <<r.kids[1]>>)
  IN IF ~LeafFits(t, keys) THEN Faulty(t1, "borrowLost")
     ELSE SetSeparator(t2, n.parent, i, r.keys[1])

\* borrowFromRightSiblingLeaf: the first entry of the right sibling moves here,
\* and the sibling's new first key becomes the separator.
BorrowFromRight(t, p, s, i) ==
  LET n == t.pages[p]
      r == t.pages[s]
      keys == n.keys \o <<r.keys[1]>>
      t1 == WriteEntries(t, s, Tail(r.keys), Tail(r.kids))
      t2 == WriteEntries(t1, p, keys, n.kids \o <<r.kids[1]>>)
  IN IF ~LeafFits(t, keys) THEN Faulty(t1, "borrowLost")
     ELSE SetSeparator(t2, n.parent, i, r.keys[2])

\* deleteKeyFromInternal: the separator equal to the key and the child after it
\* go.  No separator is equal to it when the leaf's first key was removed
\* before: the warning of the merges.
DeleteKeyFromInternal(t, p, key) ==
  LET n == t.pages[p]
      at == {i \in DOMAIN n.keys : compareKeys(t, n.keys[i], key) = 0}
      i == Min(at)
  IN IF at = {} THEN Faulty(t, "separator")
     ELSE WriteEntries(t, p, RemoveAt(n.keys, i), RemoveAt(n.kids, i + 1))

\* mergeWithLeftSiblingLeaf and mergeWithRightSiblingLeaf: the right one of the
\* two leaves is appended to the left one and deleted.  The separator is found
\* by its first key, which a leaf left empty by an earlier failure has not.
MergeLeaves(t, l, r) ==
  LET left == t.pages[l]
      right == t.pages[r]
      t1 == WriteEntries(t, l, left.keys \o right.keys, left.kids \o right.kids)
      t2 == SetPrev([t1 EXCEPT !.pages[l].next = right.next], right.next, l)
  IN IF right.keys = <<>> THEN Faulty(t2, "emptyLeaf")
     ELSE DeletePage(DeleteKeyFromInternal(t2, right.parent, right.keys[1]), r)

\* handleUnderflow of a leaf: borrow from the left, then from the right sibling,
\* else merge with the left one, or with the right one when there is no left.
\* Leaves whose entries do not fit in one page stay as they are.  A parent that
\* underflows in turn is handled with the same functions, which refuse internal
\* pages: internal pages are never rebalanced.
HandleUnderflow(t, p) ==
  LET n == t.pages[p]
      kids == t.pages[n.parent].kids
      i == CHOOSE j \in DOMAIN kids : kids[j] = p
      hasLeft == i > 1
      hasRight == i < Len(kids)
      Spare(s) == Len(t.pages[s].keys) > MinKeys
      Fit(a, b) == LeafFits(t, t.pages[a].keys \o t.pages[b].keys)
  IN IF hasLeft /\ Spare(kids[i - 1]) THEN BorrowFromLeft(t, p, kids[i - 1], i)
     ELSE IF hasRight /\ Spare(kids[i + 1]) THEN BorrowFromRight(t, p, kids[i + 1], i)
     ELSE IF hasLeft /\ Fit(kids[i - 1], p) THEN MergeLeaves(t, kids[i - 1], p)
     ELSE IF ~hasLeft /\ hasRight /\ Fit(p, kids[i + 1]) THEN MergeLeaves(t, p, kids[i + 1])
     ELSE t

\* updateRootIfEmpty: an internal root without separators gives way to its child.
UpdateRootIfEmpty(t) ==
  LET n == t.pages[t.root]
  IN IF n.leaf \/ n.keys # <<>> THEN t
     ELSE DeletePage(SetParent([t EXCEPT !.root = n.kids[1]], {n.kids[1]}, NoPage), t.root)

\* remove, on a tree without a fault.
TreeRemove(t, k) ==
  LET p == FindLeafPage(t, k)
      n == t.pages[p]
      pos == Below(t, n.keys, k) + 1
      t1 == WriteEntries([t EXCEPT !.ok = TRUE], p, RemoveAt(n.keys, pos), RemoveAt(n.kids, pos))
  IN IF pos > Len(n.keys) \/ compareKeys(t, n.keys[pos], k) # 0 THEN Refuse(t)
     ELSE UpdateRootIfEmpty(IF IsUnderflow(t1.pages[p]) THEN HandleUnderflow(t1, p) ELSE t1)

-----------------------------------------------------------------------------
\* The entries met along the next links from the leftmost leaf.
RECURSIVE Leftmost(_, _)
Leftmost(t, p) == IF t.pages[p].leaf THEN p ELSE Leftmost(t, t.pages[p].kids[1])

RECURSIVE Chain(_, _)
Chain(t, p) ==
  IF p = NoPage THEN <<>>
  ELSE LET n == t.pages[p]
       IN [i \in DOMAIN n.keys |-> <<n.keys[i], n.kids[i]>>] \o Chain(t, n.next)

LeafList(t) == Chain(t, Leftmost(t, t.root))

=============================================================================
