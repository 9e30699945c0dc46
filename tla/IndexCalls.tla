----------------------------- MODULE IndexCalls -----------------------------
(***************************************************************************)
(* One index of the kinds CREATE INDEX knows, under any order of the calls *)
(* that change it, beside a record of what it was told (expected).         *)
(*                                                                         *)
(* A tree starts with some keys inserted in a given order, so that a few   *)
(* operations reach splits, borrowing and merges of a tree of up to three  *)
(* levels.  InvertedIndex::update releases the mutex between removing and  *)
(* inserting: it is two steps of the thread that calls it.                 *)
(*                                                                         *)
(* What a tree is, and what inserting and removing make of it, are         *)
(* operators: those of module GenericBPlusTree.                            *)
(***************************************************************************)
EXTENDS HashIndex, InvertedIndex

CONSTANTS
  NewTree(_),          \* an empty tree for keys of a type,
  InsertInto(_, _, _), \* a tree with one more entry,
  RemoveFrom(_, _),    \* and without the entry of a key
  TreeKeys,  \* for each type of a tree index, its keys, in the order they are first inserted
  HashKeys,  \* for each type of a hash index, its keys
  RowIds,    \* the row ids of the hash index
  Documents, \* the documents of the full-text index
  Texts,     \* their texts
  Threads,   \* the callers of update
  MaxOps     \* for each kind of index, how many operations follow

\* The hash of a key, modulo the number of buckets.
ASSUME HashAssumption ==
  \A type \in DOMAIN HashKeys : \A k \in HashKeys[type] :
    BucketOf(type, Written(type, k)) \in Buckets

\* The calls refuse INVALID_ROW_ID.
ASSUME RowIdAssumption == AnyRow \notin RowIds \cup Documents

VARIABLES
  kind,     \* "btree", "hash" or "fulltext"
  tree, hash, text,
  updating, \* per thread, the document and the text between the steps of update
  expected, \* history: the entries, or per document the text, that the calls asked for
  leftover, \* history: keys of which a removal of all entries left some
  flushed,  \* history: the directory page of the hash index was written
  ops

hashHistory == <<leftover, flushed>>

vars == <<kind, tree, hash, text, updating, expected, hashHistory, ops>>

-----------------------------------------------------------------------------
\* The tree with the first n keys.
Built(type, n) ==
  LET built[i \in 0..n] ==
        IF i = 0 THEN NewTree(type)
        ELSE InsertInto(built[i - 1], Written(type, TreeKeys[type][i]), 1)
  IN  built[n]

IdleThreads == [h \in Threads |-> <<>>]

Init ==
  /\ ops = 0
  /\ text = EmptyText
  /\ updating = IdleThreads
  /\ leftover = {} /\ flushed = FALSE
  /\ \/ /\ kind = "btree"
        /\ \E type \in DOMAIN TreeKeys : \E n \in 0..Len(TreeKeys[type]) :
             /\ tree = Built(type, n)
             /\ tree.fault = "none" /\ tree.ok
             /\ expected = [d \in {Denotes(type, TreeKeys[type][i]) : i \in 1..n} |-> 1]
        /\ hash = EmptyHash("INT")
     \/ /\ kind = "hash"
        /\ \E type \in DOMAIN HashKeys : hash = EmptyHash(type)
        /\ tree = NewTree("INT")
        /\ expected = <<>>
     \/ /\ kind = "fulltext"
        /\ hash = EmptyHash("INT")
        /\ tree = NewTree("INT")
        /\ expected = <<>>

Operation(k) == kind = k /\ ops < MaxOps[k] /\ ops' = ops + 1 /\ UNCHANGED kind

-----------------------------------------------------------------------------
AllTreeKeys == UNION {Range(TreeKeys[type]) : type \in DOMAIN TreeKeys}
AllHashKeys == UNION {HashKeys[type] : type \in DOMAIN HashKeys}

\* GenericBPlusTree::insert, each time with another row id.
InsertKey(k) ==
  /\ Operation("btree")
  /\ tree.fault = "none" /\ k \in Range(TreeKeys[tree.type])
  /\ tree' = InsertInto(tree, Written(tree.type, k), ops + 2)
  /\ expected' = IF tree'.ok THEN With(expected, Denotes(tree.type, k), ops + 2) ELSE expected
  /\ UNCHANGED <<hash, text, updating, hashHistory>>

\* GenericBPlusTree::remove.
RemoveKey(k) ==
  /\ Operation("btree")
  /\ tree.fault = "none" /\ k \in Range(TreeKeys[tree.type])
  /\ tree' = RemoveFrom(tree, Written(tree.type, k))
  /\ expected' = IF tree'.ok THEN Without(expected, Denotes(tree.type, k)) ELSE expected
  /\ UNCHANGED <<hash, text, updating, hashHistory>>

-----------------------------------------------------------------------------
Count(e) == IF e \in DOMAIN expected THEN expected[e] ELSE 0

\* HashIndex::insert.
InsertEntry(k, v) ==
  /\ Operation("hash")
  /\ hash.fault = "none" /\ k \in HashKeys[hash.type]
  /\ hash' = HashInsert(hash, k, v)
  /\ LET e == <<Written(hash.type, k), v>>
     IN expected' = IF hash'.ok THEN With(expected, e, Count(e) + 1) ELSE expected
  /\ UNCHANGED <<tree, text, updating, hashHistory>>

\* One less of an entry, and none of any entry of a key.
Reduced(e) == IF Count(e) = 0 THEN expected ELSE [expected EXCEPT ![e] = @ - 1]

Forgotten(key) == [e \in DOMAIN expected |-> IF e[1] = key THEN 0 ELSE expected[e]]

\* HashIndex::remove, of one row id of a key, or without a row id, which asks for
\* all entries of the key (hash_index.h:71) and removes the first.
RemoveEntry(k, v) ==
  LET key == Written(hash.type, k)
  IN
  /\ Operation("hash")
  /\ hash.fault = "none" /\ k \in HashKeys[hash.type]
  /\ hash' = HashRemove(hash, k, v)
  /\ expected' = IF ~hash'.ok THEN expected
                 ELSE IF v = AnyRow THEN Forgotten(key) ELSE Reduced(<<key, v>>)
  /\ leftover' = IF hash'.ok /\ v = AnyRow /\ HashSearchAll(hash', k) # {}
                 THEN leftover \cup {key} ELSE leftover
  /\ UNCHANGED <<tree, text, updating, flushed>>

\* HashIndex::search and searchAll.
LookUp(k) ==
  /\ Operation("hash")
  /\ hash.fault = "none" /\ k \in HashKeys[hash.type]
  /\ hash' = HashLookup(hash, k)
  /\ UNCHANGED <<tree, text, updating, expected, hashHistory>>

\* BufferPoolManager writes the directory page.
Flush ==
  /\ Operation("hash")
  /\ hash.fault # "strayed"
  /\ \E b \in Buckets : hash.dir[b] # <<>>
  /\ hash' = FlushDirectory(hash)
  /\ flushed' = TRUE
  /\ UNCHANGED <<tree, text, updating, expected, leftover>>

-----------------------------------------------------------------------------
\* InvertedIndex::insert.
InsertDocument(d, t) ==
  /\ Operation("fulltext")
  /\ text' = TextInsert(text, d, t)
  /\ expected' = IF text'.ok THEN With(expected, d, t) ELSE expected
  /\ UNCHANGED <<tree, hash, updating, hashHistory>>

\* InvertedIndex::remove.
RemoveDocument(d) ==
  /\ Operation("fulltext")
  /\ text' = TextRemove(text, d)
  /\ expected' = IF text'.ok THEN Without(expected, d) ELSE expected
  /\ UNCHANGED <<tree, hash, updating, hashHistory>>

\* InvertedIndex::update up to the removal of the document, and on from there.
BeginUpdate(h, d, t) ==
  /\ Operation("fulltext")
  /\ updating[h] = <<>>
  /\ updating' = [updating EXCEPT ![h] = <<d, t>>]
  /\ text' = TextRemove(text, d)
  /\ expected' = IF text'.ok THEN Without(expected, d) ELSE expected
  /\ UNCHANGED <<tree, hash, hashHistory>>

EndUpdate(h) ==
  /\ kind = "fulltext"
  /\ updating[h] # <<>>
  /\ updating' = [updating EXCEPT ![h] = <<>>]
  /\ text' = TextInsert(text, updating[h][1], updating[h][2])
  /\ expected' = IF text'.ok THEN With(expected, updating[h][1], updating[h][2]) ELSE expected
  /\ UNCHANGED <<kind, tree, hash, hashHistory, ops>>

Next ==
  \/ \E k \in AllTreeKeys : InsertKey(k)
  \/ \E k \in AllTreeKeys : RemoveKey(k)
  \/ \E k \in AllHashKeys, v \in RowIds : InsertEntry(k, v)
  \/ \E k \in AllHashKeys, v \in RowIds \cup {AnyRow} : RemoveEntry(k, v)
  \/ \E k \in AllHashKeys : LookUp(k)
  \/ Flush
  \/ \E d \in Documents, t \in Texts : InsertDocument(d, t)
  \/ \E d \in Documents : RemoveDocument(d)
  \/ \E h \in Threads, d \in Documents, t \in Texts : BeginUpdate(h, d, t)
  \/ \E h \in Threads : EndUpdate(h)

Spec == Init /\ [][Next]_vars

-----------------------------------------------------------------------------

\* A key of the hash index is found with every row id inserted for it and not
\* removed, as often as it was inserted, and with no other.  There are two
\* exceptions.  A removal without a row id leaves all entries of the key but one,
\* against hash_index.h:71: then they are found besides those inserted since.  Once
\* the directory page was written, nothing is said of the bucket under its checksum;
\* and when a call comes to that bucket and strays into another page
\* (hash_index.cpp:379), nothing is said any more.
HashFindsAllRows ==
  kind = "hash" /\ hash.fault # "strayed" =>
    \A k \in HashKeys[hash.type], v \in RowIds :
      LET key == Written(hash.type, k)
          found == Cardinality({p \in HashSearchAll(hash, k) : RowAt(hash, k, p) = v})
      IN \/ flushed /\ BucketOf(hash.type, key) = ChecksumBucket
         \/ IF key \in leftover THEN found >= Count(<<key, v>>) ELSE found = Count(<<key, v>>)

\* The posting lists are those of the texts that the documents have: an update
\* that another one overtakes leaves no word of either text behind.
PostingsMatchTexts ==
  kind = "fulltext" =>
    LET Tokens(d) == tokenizeWithDuplicates(expected[d])
        known == {d \in DOMAIN expected : Tokens(d) # <<>>}
    IN /\ DOMAIN text.docLengths = known
       /\ text.totalDocuments = Cardinality(known)
       /\ \A d \in known : DocumentTerms(text, d) =
            [term \in Range(Tokens(d)) |-> Occurrences(term, Tokens(d))]
       /\ \A term \in DOMAIN text.index :
            DocumentFrequency(text, term) = Cardinality({d \in known : term \in Range(Tokens(d))})

\* MATCH finds a document exactly when it has one of the words (searchOr), or
\* all of them (searchAnd), of the text that is looked for.
SearchesAgree ==
  kind = "fulltext" =>
    \A q \in Texts :
      LET Has(d, term) == d \in DOMAIN expected /\ term \in tokenize(expected[d])
      IN /\ SearchOr(text, tokenize(q)) = {d \in Documents : \E term \in tokenize(q) : Has(d, term)}
         /\ tokenize(q) # {} => SearchAnd(text, tokenize(q)) =
              {d \in Documents : \A term \in tokenize(q) : Has(d, term)}
=============================================================================
