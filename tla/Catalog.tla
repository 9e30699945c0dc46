------------------------------- MODULE Catalog -------------------------------
(***************************************************************************)
(* The catalog of one database (src/catalog/catalog.cpp): the tables, the  *)
(* indexes in a map of their own and again in the list of their table, and *)
(* the two forms it is stored in, a JSON file and three system pages       *)
(* (src/catalog/catalog_db_backend.cpp).                                   *)
(*                                                                         *)
(* A table is its first page, the number of its columns and its list of    *)
(* indexes; names stand for their lower-case forms, under which the code   *)
(* looks them up.  An index is its name and its table.                     *)
(***************************************************************************)
EXTENDS Integers, FiniteSets, FiniteSetsExt, Functions

CONSTANTS
  TableTuples,    \* definitions that fit on each of the three system pages
  ColumnTuples,
  IndexTuples

ASSUME CatalogAssumption == {TableTuples, ColumnTuples, IndexTuples} \subseteq Nat

NoDefs == [n \in {} |-> {}]

EmptyCatalog == [tables |-> NoDefs, indexes |-> NoDefs]

TableDef(page, columns) == [page |-> page, columns |-> columns, indexes |-> {}]

IndexDef(name, table) == [name |-> name, table |-> table]

tableExists(c, t) == t \in DOMAIN c.tables

indexExists(c, i) == i \in DOMAIN c.indexes

\* A map with one more entry, or a replaced one.
With(map, key, value) == [k \in DOMAIN map \cup {key} |-> IF k = key THEN value ELSE map[k]]

Without(map, keys) == Restrict(map, DOMAIN map \ keys)

createTable(c, t, def) == [c EXCEPT !.tables = With(@, t, def)]

\* Mutant: the indexes of the table stay in the map.
dropTable_KeepIndexes(c, t) == [c EXCEPT !.tables = Without(@, {t})]

dropTable(c, t) ==
  [tables |-> Without(c.tables, {t}),
   indexes |-> Without(c.indexes, {i \in DOMAIN c.indexes : c.indexes[i].table = t})]

createIndex(c, i, t) ==
  [tables |-> [c.tables EXCEPT ![t].indexes = @ \cup {IndexDef(i, t)}],
   indexes |-> With(c.indexes, i, IndexDef(i, t))]

dropIndex(c, i) ==
  LET t == c.indexes[i].table
  IN  [tables |-> IF t \in DOMAIN c.tables
                  THEN [c.tables EXCEPT ![t].indexes = {d \in @ : d.name # i}]
                  ELSE c.tables,
       indexes |-> Without(c.indexes, {i})]

\* The map of indexes and the lists of the tables hold the same definitions.
IndexesAgree(c) ==
  /\ Range(c.indexes) = UNION {c.tables[t].indexes : t \in DOMAIN c.tables}
  /\ \A i \in DOMAIN c.indexes : c.indexes[i].name = i
  /\ \A t \in DOMAIN c.tables : \A d \in c.tables[t].indexes : d.table = t

-----------------------------------------------------------------------------
\* catalog.json: the tables with their lists.
ToJson(c) == c.tables

FromJson(json) ==
  LET listed == UNION {json[t].indexes : t \in DOMAIN json}
  IN  [tables |-> json,
       indexes |-> [i \in {d.name : d \in listed} |-> CHOOSE d \in listed : d.name = i]]

-----------------------------------------------------------------------------
\* The system pages: the tables, as many columns of each as were written, and the
\* indexes.
NoPages == [tables |-> NoDefs, columns |-> NoDefs, indexes |-> NoDefs]

\* The columns of some of the tables, together.
Columns(c, T) == SumFunctionOnSet([t \in DOMAIN c.tables |-> c.tables[t].columns], T)

\* saveCatalog: the pages are cleared, then every table is written with its
\* columns, in any order, then every index; the first tuple that does not fit ends
\* it.  Written are the tables T, of cut as many columns as fit, and the indexes I.
Written(c, T, cut, I) ==
  [tables |-> [t \in T \cup cut |-> c.tables[t].page],
   columns |-> [t \in T \cup cut |->
                  IF t \in T THEN c.tables[t].columns ELSE ColumnTuples - Columns(c, T)],
   indexes |-> Restrict(c.indexes, I)]

TablesFit(c, T) == Cardinality(T) <= TableTuples /\ Columns(c, T) <= ColumnTuples

Fits(c) == TablesFit(c, DOMAIN c.tables) /\ Cardinality(DOMAIN c.indexes) <= IndexTuples

\* The page of the tables, of the columns or of the indexes is full.
WrittenPartly(c) ==
  LET all == DOMAIN c.tables
      before == {T \in SUBSET all : T # all /\ TablesFit(c, T)}
  IN  {Written(c, T, {}, {}) : T \in {T \in before : Cardinality(T) = TableTuples}}
      \cup UNION {{Written(c, T, {t}, {}) : t \in {t \in all \ T : ~TablesFit(c, T \cup {t})}} :
                    T \in {T \in before : Cardinality(T) < TableTuples}}
      \cup {Written(c, all, {}, I) : I \in {I \in kSubset(IndexTuples, DOMAIN c.indexes) : TablesFit(c, all)}}

saveCatalog(c) ==
  IF Fits(c) THEN {[ok |-> TRUE, pages |-> Written(c, DOMAIN c.tables, {}, DOMAIN c.indexes)]}
  ELSE {[ok |-> FALSE, pages |-> pages] : pages \in WrittenPartly(c)}

\* loadCatalog: columns of unknown tables are skipped; an index of an unknown table
\* is in the map all the same.
loadCatalog(pages) ==
  [tables |-> [t \in DOMAIN pages.tables |->
     [page |-> pages.tables[t],
      columns |-> IF t \in DOMAIN pages.columns THEN pages.columns[t] ELSE 0,
      indexes |-> {d \in Range(pages.indexes) : d.table = t}]],
   indexes |-> pages.indexes]

=============================================================================
