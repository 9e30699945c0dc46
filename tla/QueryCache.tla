----------------------------- MODULE QueryCache -----------------------------
(***************************************************************************)
(* The cache of SELECT results (src/src/cache/query_cache.cpp) as a value: *)
(* its entries by key, for each table name the keys to be invalidated with *)
(* it, the memory it believes to use, and whether it is enabled.  An entry *)
(* has the fields result, tables (names), size, created and accessed.      *)
(* Two entries may have been used in the same millisecond: an operation    *)
(* that evicts returns the set of possible caches.  Counters of hits and   *)
(* misses are left out.                                                    *)
(***************************************************************************)
EXTENDS Integers, FiniteSets, Functions

CONSTANTS
  TableNames,     \* the names that statements give to tables
  maxEntries,     \* entries the cache may hold
  maxMemory,      \* memory it may use
  ttl             \* age after which an entry has expired

ASSUME QueryCacheAssumption == {maxEntries, maxMemory, ttl} \subseteq Nat \ {0}

NoQueries == [entries |-> << >>, byTable |-> [t \in TableNames |-> {}],
              memory |-> 0, enabled |-> TRUE]

EntryKeys(c) == DOMAIN c.entries

\* The memory of some of the entries.
SizeOf(c, keys) == SumFunctionOnSet([k \in EntryKeys(c) |-> c.entries[k].size], keys)

\* Entries leave the cache, the map of tables and the sum of the memory.
Forget(c, gone) ==
  [entries |-> Restrict(c.entries, EntryKeys(c) \ gone),
   byTable |-> [t \in TableNames |->
                  c.byTable[t] \ {k \in gone : t \in c.entries[k].tables}],
   memory  |-> c.memory - SizeOf(c, gone),
   enabled |-> c.enabled]

isExpired(entry, now) == now - entry.created > ttl

Hit(c, key, now) ==
  c.enabled /\ key \in EntryKeys(c) /\ ~isExpired(c.entries[key], now)

\* The cache that get leaves: the entry it returns is the most recent one, and an
\* expired entry is gone.
AfterGet(c, key, now) ==
  CASE Hit(c, key, now) -> [c EXCEPT !.entries[key].accessed = now]
    [] c.enabled /\ key \in EntryKeys(c) /\ isExpired(c.entries[key], now) -> Forget(c, {key})
    [] OTHER -> c

\* evictLRU, called again and again, takes the entries in the order of their last
\* use: those that are gone are no more recent than those that are left.
Evictions(c) ==
  {gone \in SUBSET EntryKeys(c) :
     \A k \in gone, j \in EntryKeys(c) \ gone : c.entries[k].accessed <= c.entries[j].accessed}

LastEvicted(c, gone) ==
  {k \in gone : \A j \in gone : c.entries[j].accessed <= c.entries[k].accessed}

\* Mutant: what an evicted entry frees counts twice.
evictToFreeMemory_Half(c, required) ==
  {Forget(c, gone) : gone \in {g \in Evictions(c) :
     /\ g = EntryKeys(c) \/ 2 * SizeOf(c, g) >= required
     /\ g # {} => \E k \in LastEvicted(c, g) : 2 * SizeOf(c, g \ {k}) < required}}

\* Until what is required is free or nothing is left.
evictToFreeMemory(c, required) ==
  {Forget(c, gone) : gone \in {g \in Evictions(c) :
     /\ g = EntryKeys(c) \/ SizeOf(c, g) >= required
     /\ g # {} => \E k \in LastEvicted(c, g) : SizeOf(c, g \ {k}) < required}}

\* Until there is room for one more entry.
evictToCount(c) ==
  LET count == Cardinality(EntryKeys(c))
  IN  IF count < maxEntries THEN {c}
      ELSE {Forget(c, gone) : gone \in {g \in Evictions(c) : Cardinality(g) = count + 1 - maxEntries}}

Extended(c, key, entry) ==
  [entries |-> [k \in EntryKeys(c) \cup {key} |-> IF k = key THEN entry ELSE c.entries[k]],
   byTable |-> [t \in TableNames |->
                  IF t \in entry.tables THEN c.byTable[t] \cup {key} ELSE c.byTable[t]],
   memory  |-> c.memory + entry.size,
   enabled |-> c.enabled]

\* An entry that exists is replaced, and the map of tables stays as it is.
Replaced(c, key, entry) ==
  [entries |-> [c.entries EXCEPT ![key] = entry],
   byTable |-> c.byTable,
   memory  |-> c.memory - c.entries[key].size + entry.size,
   enabled |-> c.enabled]

\* A result of more than half of the memory is not kept.
Takes(c, entry) == c.enabled /\ entry.size \in 0..(maxMemory \div 2)

AfterPut(c, key, entry) ==
  CASE ~Takes(c, entry) -> {c}
    [] Takes(c, entry) /\ key \in EntryKeys(c) -> {Replaced(c, key, entry)}
    [] Takes(c, entry) /\ key \notin EntryKeys(c) ->
         LET freed == IF c.memory + entry.size > maxMemory
                      THEN evictToFreeMemory(c, entry.size) ELSE {c}
         IN  {Extended(e, key, entry) : e \in UNION {evictToCount(f) : f \in freed}}

\* Mutant: the entries stay until they expire.
WithoutTable_Kept(c, table) == [c EXCEPT !.byTable[table] = {}]

\* invalidateTable.
WithoutTable(c, table) ==
  LET doomed == c.byTable[table]
  IN  [entries |-> Restrict(c.entries, EntryKeys(c) \ doomed),
       byTable |-> [t \in TableNames |-> c.byTable[t] \ doomed],
       memory  |-> c.memory - SizeOf(c, doomed \cap EntryKeys(c)),
       enabled |-> c.enabled]

\* clear.
Cleared(c) == [NoQueries EXCEPT !.enabled = c.enabled]

=============================================================================
