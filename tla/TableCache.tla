----------------------------- MODULE TableCache -----------------------------
(***************************************************************************)
(* The cache of small tables (src/src/cache/table_cache.cpp) as a value:   *)
(* its entries by database and table name, and the memory it believes to   *)
(* use.  An entry has the fields records (rows with their headers), loaded *)
(* and size.  As in QueryCache, a load that evicts returns the set of      *)
(* possible caches.                                                        *)
(***************************************************************************)
EXTENDS Integers, Sequences, Functions

CONSTANTS
  maxTotalMemory,  \* memory the cache may use
  TableSize,       \* memory that the pages of a table are estimated to take
  RowSize          \* memory that a row is estimated to take

ASSUME TableCacheAssumption == {maxTotalMemory, TableSize, RowSize} \subseteq Nat \ {0}

NoTables == [entries |-> << >>, memory |-> 0]

CachedKeys(c) == DOMAIN c.entries

isTableCached(c, key) == key \in CachedKeys(c)

\* estimateMemorySize: nothing for an empty table, and otherwise a part for the
\* container, which is left out, and one for each row.
MemorySize(records) == RowSize * Len(records)

SizesOf(c, keys) == SumFunctionOnSet([k \in CachedKeys(c) |-> c.entries[k].size], keys)

Dropped(c, gone) ==
  [entries |-> Restrict(c.entries, CachedKeys(c) \ gone), memory |-> c.memory - SizesOf(c, gone)]

\* evictLRU takes the tables in the order in which they were loaded, until there
\* is room for a table or nothing is left.
evictForTable(c) ==
  LET fits(gone) == c.memory - SizesOf(c, gone) + TableSize <= maxTotalMemory
      evictions == {gone \in SUBSET CachedKeys(c) :
        \A k \in gone, j \in CachedKeys(c) \ gone : c.entries[k].loaded <= c.entries[j].loaded}
  IN  {Dropped(c, gone) : gone \in {g \in evictions :
         /\ g = CachedKeys(c) \/ fits(g)
         /\ g # {} => \E k \in g : /\ \A j \in g : c.entries[j].loaded <= c.entries[k].loaded
                                   /\ ~fits(g \ {k})}}

\* The sum of the memory still counts an entry that is replaced.
Loaded(c, key, records, now) ==
  LET entry == [records |-> records, loaded |-> now, size |-> MemorySize(records)]
  IN  [entries |-> [k \in CachedKeys(c) \cup {key} |-> IF k = key THEN entry ELSE c.entries[k]],
       memory  |-> c.memory + entry.size]

loadTable(c, key, records, now) ==
  {Loaded(e, key, records, now) : e \in evictForTable(c)}

\* Mutant: the entry stays.
Invalidated_Kept(c, key) == c

Invalidated(c, key) == IF isTableCached(c, key) THEN Dropped(c, {key}) ELSE c

=============================================================================
