----------------------------- MODULE HashIndex -----------------------------
(***************************************************************************)
(* The hash index of src/src/index/hash_index.cpp and its bucket pages     *)
(* (hash_bucket_page.cpp), as operators on a record of the directory, the  *)
(* result of the last operation and the fault it ran into.  The directory  *)
(* maps a bucket to its chain of pages, a page being the sequence of its   *)
(* entries <<key, row id>>.  A bucket whose directory entry is not its     *)
(* page any more is Lost.  A call that comes to it goes on in whatever     *)
(* page the number names, another bucket's, a table's or none, and         *)
(* insert and remove change that page: the call has strayed, and what it   *)
(* does from there is not followed.  Every method holds mutex_ throughout. *)
(***************************************************************************)
EXTENDS Integers, Sequences, FiniteSets, FiniteSetsExt, KeyTypes

CONSTANTS
  Buckets,       \* the bucket numbers, below numBuckets_
  BucketOf(_, _) \* hash: the bucket of a key of a type

AnyRow == 0      \* INVALID_ROW_ID: remove an entry whatever its row id
MaxEntrySpace == 8192 - 32 \* MAX_ENTRY_SPACE
Lost == << << <<"lost">> >> >> \* no chain of entries

\* The four bytes of the page checksum are, in the directory page, the entry of
\* this bucket.
ChecksumBucket == 28 \div 4

\* The directory is created with the first bucket that is asked for: an absent
\* bucket has no pages.
EmptyHash(type) ==
  [type |-> type, dir |-> [b \in Buckets |-> <<>>], ok |-> TRUE, fault |-> "none"]

EntrySize(type, k) == 16 + SerializedSize(type, k)

\* HashBucketPage::isFull.
IsFull(type, page, k) ==
  SumFunction([i \in DOMAIN page |-> EntrySize(type, page[i][1])]) + EntrySize(type, k)
    > MaxEntrySpace

\* HashBucketPage::searchAll: the positions of a key on a page.
Positions(page, k) == {i \in DOMAIN page : page[i][1] = k}

\* The same over a chain: the places <<page, position>> of a key, and the entry at
\* a place.
Places(chain, k) ==
  {p \in UNION {{i} \X DOMAIN chain[i] : i \in DOMAIN chain} : chain[p[1]][p[2]][1] = k}

EntryAt(chain, p) == chain[p[1]][p[2]]

\* The one met first along the chain.
FirstPlace(places) ==
  CHOOSE p \in places : \A q \in places : p[1] < q[1] \/ (p[1] = q[1] /\ p[2] <= q[2])

\* getBucketPageId creates a bucket that is absent.
BucketChain(h, b) == IF h.dir[b] = <<>> THEN << <<>> >> ELSE h.dir[b]

\* Another chain for a bucket, and the result of the operation.
WithChain(h, b, chain, ok) == [h EXCEPT !.ok = ok, !.dir = [h.dir EXCEPT ![b] = chain]]

\* The number in the directory is not followed any further.
Strayed(h) == [h EXCEPT !.ok = FALSE, !.fault = "strayed"]

-----------------------------------------------------------------------------
\* HashBucketPage::insert succeeds: no entry of that key on the page, and room.
PageTakes(type, page, k) == Positions(page, k) = {} /\ ~IsFull(type, page, k)

\* insert: into the first page of the chain that takes the entry, or into a new
\* one at its end.  No page takes an entry longer than a page: the loop creates
\* pages for as long as it gets them.
HashInsert(h, k, v) ==
  LET key == Written(h.type, k)
      b == BucketOf(h.type, key)
      chain == BucketChain(h, b)
      at == {i \in DOMAIN chain : PageTakes(h.type, chain[i], key)}
  IN IF h.dir[b] = Lost THEN Strayed(h)
     ELSE IF IsFull(h.type, <<>>, key) THEN [h EXCEPT !.ok = FALSE, !.fault = "endless"]
     ELSE WithChain(h, b, IF at = {} THEN Append(chain, << <<key, v>> >>)
                          ELSE [chain EXCEPT ![Min(at)] = Append(@, <<key, v>>)], TRUE)

\* Mutant: the search ends at the first page of the chain.
HashSearchAll_OnePage(h, k) ==
  LET chain == h.dir[BucketOf(h.type, Written(h.type, k))]
  IN IF chain = Lost THEN {} ELSE {p \in Places(chain, Written(h.type, k)) : p[1] = 1}

\* searchAll: where in the chain the key is found, a row id at each place.
HashSearchAll(h, k) ==
  LET chain == h.dir[BucketOf(h.type, Written(h.type, k))]
  IN IF chain = Lost THEN {} ELSE Places(chain, Written(h.type, k))

\* The row id at a place.
RowAt(h, k, p) == EntryAt(h.dir[BucketOf(h.type, Written(h.type, k))], p)[2]

\* search: the row id at the first of them, as a set of at most one.
HashSearch(h, k) ==
  LET all == HashSearchAll(h, k) IN IF all = {} THEN {} ELSE {RowAt(h, k, FirstPlace(all))}

\* search and searchAll create the bucket they look for.
HashLookup(h, k) ==
  LET b == BucketOf(h.type, Written(h.type, k))
  IN IF h.dir[b] = Lost THEN Strayed(h)
     ELSE WithChain(h, b, BucketChain(h, b), HashSearchAll(h, k) # {})

\* HashBucketPage::remove: the entries behind the one that goes move up.
Shortened(page, i) == SubSeq(page, 1, i - 1) \o SubSeq(page, i + 1, Len(page))

\* remove: the first entry of the chain with the key, and with the row id when
\* one is given.  An empty page stays.
HashRemove(h, k, v) ==
  LET key == Written(h.type, k)
      b == BucketOf(h.type, key)
      chain == BucketChain(h, b)
      hits == {p \in Places(chain, key) : v \in {AnyRow, EntryAt(chain, p)[2]}}
      hit == FirstPlace(hits)
  IN IF h.dir[b] = Lost THEN Strayed(h)
     ELSE IF hits = {} THEN WithChain(h, b, chain, FALSE)
     ELSE WithChain(h, b, [chain EXCEPT ![hit[1]] = Shortened(@, hit[2])], TRUE)

-----------------------------------------------------------------------------
\* BufferPoolManager writes the directory page: Page::updateChecksum stores the
\* sum of all the other bytes of the page over the entry of one bucket.  It is 0,
\* the mark of an absent bucket, when no other bucket exists.
FlushDirectory(h) ==
  WithChain(h, ChecksumBucket,
    IF \E b \in Buckets \ {ChecksumBucket} : h.dir[b] # <<>> THEN Lost ELSE <<>>, h.ok)
=============================================================================
