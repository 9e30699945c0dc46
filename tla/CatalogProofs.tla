---------------------------- MODULE CatalogProofs ----------------------------
(***************************************************************************)
(* What the operations on a catalog and on the database manager keep, as   *)
(* operations on values: catalogs of any size stay in agreement and are    *)
(* read back as they were saved, and every operation of the manager keeps  *)
(* the tables of its databases, in memory and on disk.                     *)
(***************************************************************************)
EXTENDS DatabaseManager, FiniteSetTheorems, WellFoundedInduction, TLAPS

\* A function.
IsMap(f) == f = [x \in DOMAIN f |-> f[x]]

\* The maps of a catalog, and the definitions of its tables.
IsCatalog(c) ==
  /\ c = [tables |-> c.tables, indexes |-> c.indexes]
  /\ IsMap(c.tables) /\ IsMap(c.indexes)
  /\ \A t \in DOMAIN c.tables :
       c.tables[t] = [page |-> c.tables[t].page, columns |-> c.tables[t].columns,
                      indexes |-> c.tables[t].indexes]

\* What a catalog in memory has to be.
Good(c) == IsCatalog(c) /\ IndexesAgree(c)

\* The definitions in the lists of the tables.
Listed(tables) == UNION {tables[t].indexes : t \in DOMAIN tables}

\* The agreement of both places, entry by entry.
LEMMA AgreementIs ==
  ASSUME NEW c
  PROVE  IndexesAgree(c) <=>
           /\ \A i \in DOMAIN c.indexes :
                /\ c.indexes[i].name = i
                /\ \E t \in DOMAIN c.tables : c.indexes[i] \in c.tables[t].indexes
           /\ \A t \in DOMAIN c.tables : \A d \in c.tables[t].indexes :
                /\ d.table = t
                /\ \E i \in DOMAIN c.indexes : c.indexes[i] = d
<1> DEFINE mapped == Range(c.indexes)
           listed == Listed(c.tables)
<1>1. \A d : d \in mapped <=> \E i \in DOMAIN c.indexes : c.indexes[i] = d
  BY Zenon DEF Range
<1>2. \A d : d \in listed <=> \E t \in DOMAIN c.tables : d \in c.tables[t].indexes
  BY Zenon DEF Listed
<1>3. IndexesAgree(c) <=>
        /\ mapped = listed
        /\ \A i \in DOMAIN c.indexes : c.indexes[i].name = i
        /\ \A t \in DOMAIN c.tables : \A d \in c.tables[t].indexes : d.table = t
  BY Zenon DEF IndexesAgree, Listed
<1> HIDE DEF mapped, listed
<1>4. mapped = listed <=> \A d : d \in mapped <=> d \in listed
  BY Zenon
<1> QED
  BY <1>1, <1>2, <1>3, <1>4

\* A definition in the list of a table is the one the map has under its name.
LEMMA ListedIsMapped ==
  ASSUME NEW c, Good(c), NEW t \in DOMAIN c.tables, NEW d \in c.tables[t].indexes
  PROVE  d.name \in DOMAIN c.indexes /\ c.indexes[d.name] = d /\ d.table = t
BY AgreementIs DEF Good

\* An index of the map is in the list of the table it names.
LEMMA MappedIsListed ==
  ASSUME NEW c, Good(c), NEW i \in DOMAIN c.indexes
  PROVE  /\ c.indexes[i].name = i
         /\ c.indexes[i].table \in DOMAIN c.tables
         /\ c.indexes[i] \in c.tables[c.indexes[i].table].indexes
BY AgreementIs DEF Good

\* Catalog::createTable.
LEMMA CreateTableKeeps ==
  ASSUME NEW c, Good(c), NEW t, ~tableExists(c, t), NEW page, NEW columns
  PROVE  Good(createTable(c, t, TableDef(page, columns)))
<1>1. PICK def : def = TableDef(page, columns)
  BY Zenon
<1>2. PICK n : n = createTable(c, t, def)
  BY Zenon
<1>3. n.tables = With(c.tables, t, def) /\ n.indexes = c.indexes /\ n = [tables |-> n.tables, indexes |-> n.indexes]
  BY <1>2, Zenon DEF Good, IsCatalog, createTable
<1>4. def = [page |-> def.page, columns |-> def.columns, indexes |-> def.indexes] /\ def.indexes = {}
  BY <1>1, Zenon DEF TableDef
<1>5. /\ IsMap(n.tables) /\ DOMAIN n.tables = DOMAIN c.tables \cup {t} /\ n.tables[t] = def
      /\ \A u \in DOMAIN c.tables : n.tables[u] = c.tables[u]
  BY <1>3, Zenon DEF tableExists, With, IsMap
<1>6. IsCatalog(n)
  BY <1>3, <1>4, <1>5, Zenon DEF Good, IsCatalog
<1>7. IndexesAgree(n)
  <2>1. ASSUME NEW i \in DOMAIN n.indexes
        PROVE  /\ n.indexes[i].name = i
               /\ \E u \in DOMAIN n.tables : n.indexes[i] \in n.tables[u].indexes
    BY <1>3, <1>5, <2>1, MappedIsListed
  <2>2. ASSUME NEW u \in DOMAIN n.tables, NEW d \in n.tables[u].indexes
        PROVE  d.table = u /\ \E i \in DOMAIN n.indexes : n.indexes[i] = d
    <3>1. u \in DOMAIN c.tables /\ d \in c.tables[u].indexes
      BY <1>3, <1>4, <1>5, <2>2, Zenon
    <3> QED
      BY <1>3, <3>1, ListedIsMapped
  <2> QED
    BY <2>1, <2>2, AgreementIs, Zenon
<1> QED
  BY <1>1, <1>2, <1>6, <1>7, Zenon DEF Good

\* Catalog::dropTable.
LEMMA DropTableKeeps ==
  ASSUME NEW c, Good(c), NEW t
  PROVE  Good(dropTable(c, t))
<1>1. PICK n : n = dropTable(c, t)
  BY Zenon
<1>2. /\ n = [tables |-> n.tables, indexes |-> n.indexes]
      /\ n.tables = Without(c.tables, {t})
      /\ n.indexes = Without(c.indexes, {i \in DOMAIN c.indexes : c.indexes[i].table = t})
  BY <1>1, Zenon DEF dropTable
<1>3. /\ IsMap(n.tables) /\ DOMAIN n.tables = DOMAIN c.tables \ {t}
      /\ \A u \in DOMAIN n.tables : n.tables[u] = c.tables[u]
  BY <1>2, Zenon DEF Without, Restrict, IsMap
<1>4. /\ IsMap(n.indexes)
      /\ \A i : i \in DOMAIN n.indexes <=> i \in DOMAIN c.indexes /\ c.indexes[i].table # t
      /\ \A i \in DOMAIN n.indexes : n.indexes[i] = c.indexes[i]
  BY <1>2, Zenon DEF Without, Restrict, IsMap
<1>5. IsCatalog(n)
  BY <1>2, <1>3, <1>4, Zenon DEF Good, IsCatalog
<1>6. ASSUME NEW i \in DOMAIN n.indexes
      PROVE  /\ n.indexes[i].name = i
             /\ \E u \in DOMAIN n.tables : n.indexes[i] \in n.tables[u].indexes
  <2>1. i \in DOMAIN c.indexes /\ c.indexes[i].table # t /\ n.indexes[i] = c.indexes[i]
    BY <1>4, <1>6, Zenon
  <2>2. /\ c.indexes[i].name = i
        /\ c.indexes[i].table \in DOMAIN c.tables
        /\ c.indexes[i] \in c.tables[c.indexes[i].table].indexes
    BY <2>1, MappedIsListed, Zenon
  <2> QED
    BY <1>3, <2>1, <2>2, Zenon
<1>7. ASSUME NEW u \in DOMAIN n.tables, NEW d \in n.tables[u].indexes
      PROVE  d.table = u /\ \E i \in DOMAIN n.indexes : n.indexes[i] = d
  <2>1. u \in DOMAIN c.tables /\ u # t /\ d \in c.tables[u].indexes
    BY <1>3, <1>7, Zenon
  <2>2. d.name \in DOMAIN c.indexes /\ c.indexes[d.name] = d /\ d.table = u
    BY <2>1, ListedIsMapped
  <2> QED
    BY <1>4, <2>1, <2>2, Zenon
<1>8. IndexesAgree(n)
  BY <1>6, <1>7, AgreementIs, Zenon
<1> QED
  BY <1>1, <1>5, <1>8, Zenon DEF Good

\* Catalog::createIndex.
LEMMA CreateIndexKeeps ==
  ASSUME NEW c, Good(c), NEW t, tableExists(c, t), NEW i, ~indexExists(c, i)
  PROVE  Good(createIndex(c, i, t))
<1>1. PICK n : n = createIndex(c, i, t)
  BY Zenon
<1>2. PICK def : def = IndexDef(i, t)
  BY Zenon
<1>3. def.name = i /\ def.table = t
  BY <1>2, Zenon DEF IndexDef
<1>4. t \in DOMAIN c.tables /\ i \notin DOMAIN c.indexes
  BY Zenon DEF tableExists, indexExists
<1>5. /\ n = [tables |-> n.tables, indexes |-> n.indexes]
      /\ n.tables = [c.tables EXCEPT ![t].indexes = @ \cup {def}]
      /\ n.indexes = With(c.indexes, i, def)
  BY <1>1, <1>2, Zenon DEF createIndex
<1>6. \A u \in DOMAIN c.tables :
        c.tables[u] = [page |-> c.tables[u].page, columns |-> c.tables[u].columns,
                       indexes |-> c.tables[u].indexes]
  BY Zenon DEF Good, IsCatalog
<1>7. /\ IsMap(n.tables) /\ DOMAIN n.tables = DOMAIN c.tables
      /\ n.tables[t] = [page |-> c.tables[t].page, columns |-> c.tables[t].columns,
                        indexes |-> c.tables[t].indexes \cup {def}]
      /\ \A u \in DOMAIN c.tables \ {t} : n.tables[u] = c.tables[u]
  BY <1>4, <1>5, <1>6, Zenon DEF IsMap
<1>8. n.tables[t].indexes = c.tables[t].indexes \cup {def}
  BY <1>7
<1>9. /\ IsMap(n.indexes) /\ DOMAIN n.indexes = DOMAIN c.indexes \cup {i} /\ n.indexes[i] = def
      /\ \A j \in DOMAIN c.indexes : n.indexes[j] = c.indexes[j]
  BY <1>4, <1>5, Zenon DEF With, IsMap
<1>10. IsCatalog(n)
  <2>1. ASSUME NEW u \in DOMAIN n.tables
        PROVE  n.tables[u] = [page |-> n.tables[u].page, columns |-> n.tables[u].columns,
                              indexes |-> n.tables[u].indexes]
    BY <1>6, <1>7, <2>1, Zenon
  <2> QED
    BY <1>5, <1>7, <1>9, <2>1, Zenon DEF IsCatalog
<1>11. ASSUME NEW j \in DOMAIN n.indexes
       PROVE  /\ n.indexes[j].name = j
              /\ \E u \in DOMAIN n.tables : n.indexes[j] \in n.tables[u].indexes
  <2>1. CASE j = i
    BY <1>3, <1>4, <1>7, <1>8, <1>9, <2>1, Zenon
  <2>2. CASE j # i
    <3>1. j \in DOMAIN c.indexes /\ n.indexes[j] = c.indexes[j]
      BY <1>9, <1>11, <2>2, Zenon
    <3>2. PICK u : u = c.indexes[j].table
      BY Zenon
    <3>3. /\ c.indexes[j].name = j /\ u \in DOMAIN c.tables
          /\ c.indexes[j] \in c.tables[u].indexes
      BY <3>1, <3>2, MappedIsListed, Zenon
    <3>4. c.tables[u].indexes \subseteq n.tables[u].indexes
      BY <1>7, <1>8, <3>3, Zenon
    <3> QED
      BY <1>7, <3>1, <3>3, <3>4, Zenon
  <2> QED
    BY <2>1, <2>2, Zenon
<1>12. ASSUME NEW u \in DOMAIN n.tables, NEW d \in n.tables[u].indexes
       PROVE  d.table = u /\ \E j \in DOMAIN n.indexes : n.indexes[j] = d
  <2>1. u \in DOMAIN c.tables /\ (d \in c.tables[u].indexes \/ (u = t /\ d = def))
    BY <1>7, <1>8, <1>12, Zenon
  <2>2. CASE u = t /\ d = def
    BY <1>3, <1>9, <2>2, Zenon
  <2>3. CASE d \in c.tables[u].indexes
    <3>1. d.name \in DOMAIN c.indexes /\ c.indexes[d.name] = d /\ d.table = u
      BY <2>1, <2>3, ListedIsMapped
    <3> QED
      BY <1>9, <3>1, Zenon
  <2> QED
    BY <2>1, <2>2, <2>3, Zenon
<1>13. IndexesAgree(n)
  BY <1>11, <1>12, AgreementIs, Zenon
<1> QED
  BY <1>1, <1>10, <1>13, Zenon DEF Good

\* Catalog::dropIndex.
LEMMA DropIndexKeeps ==
  ASSUME NEW c, Good(c), NEW i, indexExists(c, i)
  PROVE  Good(dropIndex(c, i))
<1>1. PICK n : n = dropIndex(c, i)
  BY Zenon
<1>2. PICK t : t = c.indexes[i].table
  BY Zenon
<1>3. i \in DOMAIN c.indexes
  BY Zenon DEF indexExists
<1>4. t \in DOMAIN c.tables
  BY <1>2, <1>3, MappedIsListed, Zenon
<1>5. /\ n = [tables |-> n.tables, indexes |-> n.indexes]
      /\ n.tables = [c.tables EXCEPT ![t].indexes = {d \in @ : d.name # i}]
      /\ n.indexes = Without(c.indexes, {i})
  BY <1>1, <1>2, <1>4, Zenon DEF dropIndex
<1>6. \A u \in DOMAIN c.tables :
        c.tables[u] = [page |-> c.tables[u].page, columns |-> c.tables[u].columns,
                       indexes |-> c.tables[u].indexes]
  BY Zenon DEF Good, IsCatalog
<1>7. /\ IsMap(n.tables) /\ DOMAIN n.tables = DOMAIN c.tables
      /\ n.tables[t] = [page |-> c.tables[t].page, columns |-> c.tables[t].columns,
                        indexes |-> {d \in c.tables[t].indexes : d.name # i}]
      /\ \A u \in DOMAIN c.tables \ {t} : n.tables[u] = c.tables[u]
  BY <1>4, <1>5, <1>6, Zenon DEF IsMap
<1>8. n.tables[t].indexes = {d \in c.tables[t].indexes : d.name # i}
  BY <1>7
<1>9. /\ IsMap(n.indexes) /\ DOMAIN n.indexes = DOMAIN c.indexes \ {i}
      /\ \A j \in DOMAIN n.indexes : n.indexes[j] = c.indexes[j]
  BY <1>5, Zenon DEF Without, Restrict, IsMap
<1>10. IsCatalog(n)
  <2>1. ASSUME NEW u \in DOMAIN n.tables
        PROVE  n.tables[u] = [page |-> n.tables[u].page, columns |-> n.tables[u].columns,
                              indexes |-> n.tables[u].indexes]
    BY <1>6, <1>7, <2>1, Zenon
  <2> QED
    BY <1>5, <1>7, <1>9, <2>1, Zenon DEF IsCatalog
<1>11. ASSUME NEW j \in DOMAIN n.indexes
       PROVE  /\ n.indexes[j].name = j
              /\ \E u \in DOMAIN n.tables : n.indexes[j] \in n.tables[u].indexes
  <2>1. j \in DOMAIN c.indexes /\ j # i /\ n.indexes[j] = c.indexes[j]
    BY <1>9, <1>11, Zenon
  <2>2. PICK u : u = c.indexes[j].table
    BY Zenon
  <2>3. c.indexes[j].name = j /\ u \in DOMAIN c.tables /\ c.indexes[j] \in c.tables[u].indexes
    BY <2>1, <2>2, MappedIsListed, Zenon
  <2>4. c.indexes[j] \in n.tables[u].indexes
    BY <1>7, <1>8, <2>1, <2>3, Zenon
  <2> QED
    BY <1>7, <2>1, <2>3, <2>4, Zenon
<1>12. ASSUME NEW u \in DOMAIN n.tables, NEW d \in n.tables[u].indexes
       PROVE  d.table = u /\ \E j \in DOMAIN n.indexes : n.indexes[j] = d
  <2>1. u \in DOMAIN c.tables /\ d \in c.tables[u].indexes /\ (u = t => d.name # i)
    BY <1>7, <1>8, <1>12, Zenon
  <2>2. d.name \in DOMAIN c.indexes /\ c.indexes[d.name] = d /\ d.table = u
    BY <2>1, ListedIsMapped
  <2>3. d.name # i
    BY <1>2, <2>1, <2>2, Zenon
  <2> QED
    BY <1>9, <2>2, <2>3, Zenon
<1>13. IndexesAgree(n)
  BY <1>11, <1>12, AgreementIs, Zenon
<1> QED
  BY <1>1, <1>10, <1>13, Zenon DEF Good

-----------------------------------------------------------------------------
\* Whatever tables and indexes are created and dropped in a catalog of any size, under
\* the checks of the code, the map of indexes and the lists of the tables (catalog.cpp)
\* hold the same definitions.
THEOREM OperationsKeepAgreement ==
  /\ Good(EmptyCatalog)
  /\ \A c, t, i : Good(c) =>
       /\ ~tableExists(c, t) =>
            \A page, columns : Good(createTable(c, t, TableDef(page, columns)))
       /\ Good(dropTable(c, t))
       /\ tableExists(c, t) /\ ~indexExists(c, i) => Good(createIndex(c, i, t))
       /\ indexExists(c, i) => Good(dropIndex(c, i))
<1>1. Good(EmptyCatalog)
  BY AgreementIs, Zenon DEF Good, IsCatalog, IsMap, EmptyCatalog, NoDefs
<1> QED
  BY <1>1, CreateTableKeeps, DropTableKeeps, CreateIndexKeeps, DropIndexKeeps, Zenon

\* catalog.json has the indexes in the lists of their tables only; loading it gives the
\* same catalog as was saved, if and because both places agree.
THEOREM FileKeepsCatalog ==
  ASSUME NEW c, Good(c)
  PROVE  FromJson(ToJson(c)) = c
<1> DEFINE listed == Listed(c.tables)
<1>1. \A d : d \in listed <=> \E t \in DOMAIN c.tables : d \in c.tables[t].indexes
  BY Zenon DEF Listed
<1>2. FromJson(ToJson(c)) =
        [tables |-> c.tables,
         indexes |-> [i \in {d.name : d \in listed} |-> CHOOSE d \in listed : d.name = i]]
  BY Zenon DEF FromJson, ToJson, Listed
<1> HIDE DEF listed
<1>3. ASSUME NEW d \in listed PROVE d.name \in DOMAIN c.indexes /\ c.indexes[d.name] = d
  BY <1>1, <1>3, ListedIsMapped
<1>4. ASSUME NEW i \in DOMAIN c.indexes PROVE c.indexes[i] \in listed /\ c.indexes[i].name = i
  BY <1>1, <1>4, MappedIsListed, Zenon
<1>5. {d.name : d \in listed} = DOMAIN c.indexes
  BY <1>3, <1>4, Zenon
<1>6. ASSUME NEW i \in DOMAIN c.indexes
      PROVE  (CHOOSE d \in listed : d.name = i) = c.indexes[i]
  BY <1>3, <1>4, <1>6, Zenon
<1>7. [i \in {d.name : d \in listed} |-> CHOOSE d \in listed : d.name = i] = c.indexes
  <2>1. c.indexes = [i \in DOMAIN c.indexes |-> c.indexes[i]]
    BY Zenon DEF Good, IsCatalog, IsMap
  <2> QED
    BY <1>5, <1>6, <2>1, ZenonT(30)
<1> QED
  BY <1>2, <1>7, Zenon DEF Good, IsCatalog

\* The system pages of a catalog that fits on them give it back (saveCatalog and
\* loadCatalog of catalog_db_backend.cpp): the lists of the tables, which are not
\* written, are the ones the indexes name.
THEOREM PagesKeepCatalog ==
  ASSUME NEW c, Good(c), NEW pages,
         pages = [tables |-> [t \in DOMAIN c.tables |-> c.tables[t].page],
                  columns |-> [t \in DOMAIN c.tables |-> c.tables[t].columns],
                  indexes |-> c.indexes]
  PROVE  loadCatalog(pages) = c
<1>1. pages.indexes = c.indexes /\ DOMAIN pages.tables = DOMAIN c.tables
  BY Zenon
<1>2. \A t \in DOMAIN c.tables :
        /\ pages.tables[t] = c.tables[t].page
        /\ t \in DOMAIN pages.columns /\ pages.columns[t] = c.tables[t].columns
  BY Zenon
<1>3. \A d : d \in Range(c.indexes) <=> \E i \in DOMAIN c.indexes : c.indexes[i] = d
  BY Zenon DEF Range
<1>4. ASSUME NEW t \in DOMAIN c.tables
      PROVE  {d \in Range(c.indexes) : d.table = t} = c.tables[t].indexes
  <2>1. ASSUME NEW d \in Range(c.indexes), d.table = t PROVE d \in c.tables[t].indexes
    BY <1>3, <2>1, MappedIsListed
  <2>2. ASSUME NEW d \in c.tables[t].indexes PROVE d \in Range(c.indexes) /\ d.table = t
    BY <1>3, <1>4, <2>2, ListedIsMapped
  <2> QED
    BY <2>1, <2>2, Zenon
<1>5. ASSUME NEW t \in DOMAIN c.tables
      PROVE  c.tables[t] = [page |-> pages.tables[t], columns |-> pages.columns[t],
                            indexes |-> {d \in Range(pages.indexes) : d.table = t}]
  BY <1>1, <1>2, <1>4, <1>5, Zenon DEF Good, IsCatalog
<1>6. c.tables = [t \in DOMAIN c.tables |-> c.tables[t]]
  BY Zenon DEF Good, IsCatalog, IsMap
<1>7. loadCatalog(pages).tables = c.tables
  BY <1>1, <1>2, <1>5, <1>6, ZenonT(30) DEF loadCatalog
<1>8. loadCatalog(pages) = [tables |-> loadCatalog(pages).tables, indexes |-> pages.indexes]
  BY Zenon DEF loadCatalog
<1> QED
  BY <1>1, <1>7, <1>8, Zenon DEF Good, IsCatalog

-----------------------------------------------------------------------------
\* What a catalog shows of the tables that were made by statements.
Shown(c) ==
  [t \in DOMAIN c.tables \ SystemTables |-> {i.name : i \in c.tables[t].indexes}]

\* What is in it, table by table.
LEMMA ShownIs ==
  ASSUME NEW c, NEW w
  PROVE  Shown(c) = w <=>
           /\ IsMap(w) /\ DOMAIN w = DOMAIN c.tables \ SystemTables
           /\ \A t \in DOMAIN w : w[t] = {i.name : i \in c.tables[t].indexes}
BY Zenon DEF Shown, IsMap

\* A database shows what its catalog does.
LEMMA ShownTablesIs == ASSUME NEW db PROVE ShownTables(db) = Shown(db.catalog)
BY Zenon DEF ShownTables, Shown, SystemTables

\* CREATE TABLE adds an empty table.
LEMMA ShownCreateTable ==
  ASSUME NEW c, IsCatalog(c), NEW t, t \notin SystemTables, NEW page, NEW columns
  PROVE  Shown(createTable(c, t, TableDef(page, columns))) = With(Shown(c), t, {})
<1>1. PICK def : def = TableDef(page, columns)
  BY Zenon
<1>2. def.indexes = {}
  BY <1>1, Zenon DEF TableDef
<1>3. PICK n : n = createTable(c, t, def)
  BY Zenon
<1>4. n.tables = With(c.tables, t, def)
  BY <1>3, Zenon DEF IsCatalog, createTable
<1>5. /\ DOMAIN n.tables = DOMAIN c.tables \cup {t} /\ n.tables[t] = def
      /\ \A u \in DOMAIN c.tables \ {t} : n.tables[u] = c.tables[u]
  BY <1>4, Zenon DEF With
<1>6. PICK w : w = Shown(c)
  BY Zenon
<1>7. /\ DOMAIN w = DOMAIN c.tables \ SystemTables
      /\ \A u \in DOMAIN w : w[u] = {i.name : i \in c.tables[u].indexes}
  BY <1>6, ShownIs, Zenon
<1>8. PICK x : x = With(w, t, {})
  BY Zenon
<1>9. /\ IsMap(x) /\ DOMAIN x = DOMAIN w \cup {t} /\ x[t] = {}
      /\ \A u \in DOMAIN w \ {t} : x[u] = w[u]
  BY <1>8, Zenon DEF With, IsMap
<1>10. DOMAIN x = DOMAIN n.tables \ SystemTables
  BY <1>5, <1>7, <1>9, Zenon
<1>11. ASSUME NEW u \in DOMAIN x PROVE x[u] = {i.name : i \in n.tables[u].indexes}
  <2>1. CASE u = t
    BY <1>2, <1>5, <1>9, <2>1, Zenon
  <2>2. CASE u # t
    <3>1. u \in DOMAIN w /\ u \in DOMAIN c.tables
      BY <1>7, <1>9, <1>11, <2>2, Zenon
    <3> QED
      BY <1>5, <1>7, <1>9, <2>2, <3>1, Zenon
  <2> QED
    BY <2>1, <2>2, Zenon
<1>12. Shown(n) = x
  BY <1>9, <1>10, <1>11, ShownIs, Zenon
<1> QED
  BY <1>1, <1>3, <1>6, <1>8, <1>12, Zenon

\* A system table is not shown.
LEMMA ShownSystemTable ==
  ASSUME NEW c, IsCatalog(c), NEW t \in SystemTables, NEW page, NEW columns
  PROVE  Shown(createTable(c, t, TableDef(page, columns))) = Shown(c)
<1>1. PICK def : def = TableDef(page, columns)
  BY Zenon
<1>3. PICK n : n = createTable(c, t, def)
  BY Zenon
<1>4. n.tables = With(c.tables, t, def)
  BY <1>3, Zenon DEF IsCatalog, createTable
<1>5. /\ DOMAIN n.tables = DOMAIN c.tables \cup {t}
      /\ \A u \in DOMAIN c.tables \ {t} : n.tables[u] = c.tables[u]
  BY <1>4, Zenon DEF With
<1>6. PICK w : w = Shown(c)
  BY Zenon
<1>7. /\ IsMap(w) /\ DOMAIN w = DOMAIN c.tables \ SystemTables
      /\ \A u \in DOMAIN w : w[u] = {i.name : i \in c.tables[u].indexes}
  BY <1>6, ShownIs, Zenon
<1>8. DOMAIN w = DOMAIN n.tables \ SystemTables /\ \A u \in DOMAIN w : n.tables[u] = c.tables[u]
  BY <1>5, <1>7, Zenon
<1>9. ASSUME NEW u \in DOMAIN w PROVE w[u] = {i.name : i \in n.tables[u].indexes}
  BY <1>7, <1>8, <1>9, Zenon
<1>10. Shown(n) = w
  BY <1>7, <1>8, <1>9, ShownIs
<1> QED
  BY <1>1, <1>3, <1>6, <1>10, Zenon

\* DROP TABLE takes the table away.
LEMMA ShownDropTable ==
  ASSUME NEW c, NEW t
  PROVE  Shown(dropTable(c, t)) = Without(Shown(c), {t})
<1>1. PICK n : n = dropTable(c, t)
  BY Zenon
<1>2. n.tables = Without(c.tables, {t})
  BY <1>1, Zenon DEF dropTable
<1>3. /\ DOMAIN n.tables = DOMAIN c.tables \ {t}
      /\ \A u \in DOMAIN n.tables : n.tables[u] = c.tables[u]
  BY <1>2, Zenon DEF Without, Restrict
<1>4. PICK w : w = Shown(c)
  BY Zenon
<1>5. /\ DOMAIN w = DOMAIN c.tables \ SystemTables
      /\ \A u \in DOMAIN w : w[u] = {i.name : i \in c.tables[u].indexes}
  BY <1>4, ShownIs, Zenon
<1>6. PICK x : x = Without(w, {t})
  BY Zenon
<1>7. IsMap(x) /\ DOMAIN x = DOMAIN w \ {t} /\ \A u \in DOMAIN x : x[u] = w[u]
  BY <1>6, Zenon DEF Without, Restrict, IsMap
<1>8. DOMAIN x = DOMAIN n.tables \ SystemTables
  BY <1>3, <1>5, <1>7, Zenon
<1>9. ASSUME NEW u \in DOMAIN x PROVE x[u] = {i.name : i \in n.tables[u].indexes}
  <2>1. u \in DOMAIN w /\ u \in DOMAIN n.tables
    BY <1>7, <1>8, <1>9, Zenon
  <2> QED
    BY <1>3, <1>5, <1>7, <1>9, <2>1, Zenon
<1>10. Shown(n) = x
  BY <1>7, <1>8, <1>9, ShownIs, Zenon
<1> QED
  BY <1>1, <1>4, <1>6, <1>10, Zenon

\* CREATE INDEX adds it to its table.
LEMMA ShownCreateIndex ==
  ASSUME NEW c, IsCatalog(c), NEW i, NEW t, tableExists(c, t), t \notin SystemTables
  PROVE  LET w == Shown(c)
         IN  /\ t \in DOMAIN w
             /\ Shown(createIndex(c, i, t)) = With(w, t, w[t] \cup {i})
<1>1. PICK n : n = createIndex(c, i, t)
  BY Zenon
<1>2. PICK def : def = IndexDef(i, t)
  BY Zenon
<1>3. def.name = i
  BY <1>2, Zenon DEF IndexDef
<1>4. t \in DOMAIN c.tables
  BY Zenon DEF tableExists
<1>5. n.tables = [c.tables EXCEPT ![t].indexes = @ \cup {def}]
  BY <1>1, <1>2, Zenon DEF createIndex
<1>6. c.tables[t] = [page |-> c.tables[t].page, columns |-> c.tables[t].columns,
                     indexes |-> c.tables[t].indexes]
  BY <1>4, Zenon DEF IsCatalog
<1>7. /\ DOMAIN n.tables = DOMAIN c.tables
      /\ n.tables[t] = [page |-> c.tables[t].page, columns |-> c.tables[t].columns,
                        indexes |-> c.tables[t].indexes \cup {def}]
      /\ \A u \in DOMAIN c.tables \ {t} : n.tables[u] = c.tables[u]
  BY <1>4, <1>5, <1>6, Zenon DEF IsCatalog, IsMap
<1>8. n.tables[t].indexes = c.tables[t].indexes \cup {def}
  BY <1>7
<1>9. PICK w : w = Shown(c)
  BY Zenon
<1>10. /\ DOMAIN w = DOMAIN c.tables \ SystemTables
       /\ \A u \in DOMAIN w : w[u] = {j.name : j \in c.tables[u].indexes}
  BY <1>9, ShownIs, Zenon
<1>11. t \in DOMAIN w
  BY <1>4, <1>10, Zenon
<1>12. PICK x : x = With(w, t, w[t] \cup {i})
  BY Zenon
<1>13. /\ IsMap(x) /\ DOMAIN x = DOMAIN w /\ x[t] = w[t] \cup {i}
       /\ \A u \in DOMAIN w \ {t} : x[u] = w[u]
  BY <1>11, <1>12, Zenon DEF With, IsMap
<1>14. ASSUME NEW u \in DOMAIN x PROVE x[u] = {j.name : j \in n.tables[u].indexes}
  <2>1. CASE u = t
    <3>1. w[t] = {j.name : j \in c.tables[t].indexes}
      BY <1>10, <1>11, Zenon
    <3> QED
      BY <1>3, <1>8, <1>13, <2>1, <3>1
  <2>2. CASE u # t
    <3>1. u \in DOMAIN w /\ u \in DOMAIN c.tables
      BY <1>10, <1>13, <1>14, Zenon
    <3> QED
      BY <1>7, <1>10, <1>13, <2>2, <3>1, Zenon
  <2> QED
    BY <2>1, <2>2, Zenon
<1>15. Shown(n) = x
  BY <1>7, <1>10, <1>13, <1>14, ShownIs
<1> QED
  BY <1>1, <1>9, <1>11, <1>12, <1>15, Zenon

\* DROP INDEX takes it from its table, and there is none of its name in the others.
LEMMA ShownDropIndex ==
  ASSUME NEW c, Good(c), NEW i, indexExists(c, i)
  PROVE  LET w == Shown(c)
         IN  Shown(dropIndex(c, i)) = [t \in DOMAIN w |-> w[t] \ {i}]
<1>1. PICK n : n = dropIndex(c, i)
  BY Zenon
<1>2. PICK t : t = c.indexes[i].table
  BY Zenon
<1>3. i \in DOMAIN c.indexes
  BY Zenon DEF indexExists
<1>4. t \in DOMAIN c.tables
  BY <1>2, <1>3, MappedIsListed, Zenon
<1>5. n.tables = [c.tables EXCEPT ![t].indexes = {d \in @ : d.name # i}]
  BY <1>1, <1>2, <1>4, Zenon DEF dropIndex
<1>6. c.tables[t] = [page |-> c.tables[t].page, columns |-> c.tables[t].columns,
                     indexes |-> c.tables[t].indexes]
  BY <1>4, Zenon DEF Good, IsCatalog
<1>7. /\ DOMAIN n.tables = DOMAIN c.tables
      /\ n.tables[t] = [page |-> c.tables[t].page, columns |-> c.tables[t].columns,
                        indexes |-> {d \in c.tables[t].indexes : d.name # i}]
      /\ \A u \in DOMAIN c.tables \ {t} : n.tables[u] = c.tables[u]
  BY <1>4, <1>5, <1>6, Zenon DEF Good, IsCatalog, IsMap
<1>8. n.tables[t].indexes = {d \in c.tables[t].indexes : d.name # i}
  BY <1>7
<1>9. PICK w : w = Shown(c)
  BY Zenon
<1>10. /\ DOMAIN w = DOMAIN c.tables \ SystemTables
       /\ \A u \in DOMAIN w : w[u] = {j.name : j \in c.tables[u].indexes}
  BY <1>9, ShownIs, Zenon
<1>11. PICK x : x = [u \in DOMAIN w |-> w[u] \ {i}]
  BY Zenon
<1>12. IsMap(x) /\ DOMAIN x = DOMAIN w /\ \A u \in DOMAIN w : x[u] = w[u] \ {i}
  BY <1>11, Zenon DEF IsMap
<1>13. ASSUME NEW u \in DOMAIN x PROVE x[u] = {j.name : j \in n.tables[u].indexes}
  <2>1. w[u] = {j.name : j \in c.tables[u].indexes} /\ u \in DOMAIN c.tables
    BY <1>10, <1>12, <1>13, Zenon
  <2>2. x[u] = w[u] \ {i}
    BY <1>12, <1>13, Zenon
  <2>3. CASE u = t
    BY <1>8, <2>1, <2>2, <2>3, Zenon
  <2>4. CASE u # t
    <3>1. ASSUME NEW j \in c.tables[u].indexes PROVE j.name # i
      BY <1>2, <2>1, <2>4, <3>1, ListedIsMapped
    <3>2. n.tables[u] = c.tables[u]
      BY <1>7, <2>1, <2>4, Zenon
    <3> QED
      BY <2>1, <2>2, <3>1, <3>2, Zenon
  <2> QED
    BY <2>3, <2>4, Zenon
<1>14. IsMap(x) /\ DOMAIN x = DOMAIN n.tables \ SystemTables
  BY <1>7, <1>10, <1>12, Zenon
<1>15. Shown(n) = x
  BY <1>13, <1>14, ShownIs, Zenon
<1> QED
  BY <1>1, <1>9, <1>11, <1>15, Zenon

-----------------------------------------------------------------------------
\* Which catalogs fit on the system pages.

\* The columns of the tables that are made at the start, or of some of them.
LEMMA SystemColumns ==
  ASSUME NEW c, NEW S \in SUBSET SystemTables, S \subseteq DOMAIN c.tables,
         "users" \in S => c.tables["users"].columns = UserColumns,
         "sys_permissions" \in S => c.tables["sys_permissions"].columns = PermissionColumns
  PROVE  Columns(c, S) = (IF "users" \in S THEN UserColumns ELSE 0)
                           + (IF "sys_permissions" \in S THEN PermissionColumns ELSE 0)
<1> SUFFICES ASSUME NEW a, a = "users", NEW b, b = "sys_permissions",
                    NEW A, A = UserColumns, NEW B, B = PermissionColumns
             PROVE  Columns(c, S) = (IF a \in S THEN A ELSE 0) + (IF b \in S THEN B ELSE 0)
  BY Zenon
<1>0. /\ A \in Nat /\ B \in Nat /\ a # b /\ S \subseteq {a, b}
      /\ a \in S => a \in DOMAIN c.tables /\ c.tables[a].columns = A
      /\ b \in S => b \in DOMAIN c.tables /\ c.tables[b].columns = B
  BY DatabasesAssumption, Zenon DEF SystemTables
<1>1. PICK f : f = [t \in DOMAIN c.tables |-> c.tables[t].columns]
  BY Zenon
<1>2. (a \in S => f[a] = A) /\ (b \in S => f[b] = B)
  BY <1>0, <1>1, Zenon
<1> DEFINE first(s) == CHOOSE x \in s : TRUE
           step(s, iter) == IF s = {} THEN 0 ELSE f[first(s)] + iter[s \ {first(s)}]
           sum == CHOOSE iter : iter = [s \in SUBSET S |-> step(s, iter)]
           g == [s \in SUBSET S |-> (IF a \in s THEN A ELSE 0) + (IF b \in s THEN B ELSE 0)]
<1>3. Columns(c, S) = sum[S]
  BY <1>1, Zenon DEF Columns, SumFunctionOnSet, FoldFunctionOnSet, MapThenFoldSet
<1>4. ASSUME NEW s \in SUBSET S, s # {} PROVE first(s) \in s
  BY <1>4, Zenon
<1>5. g = [s \in SUBSET S |-> step(s, g)]
  <2>1. ASSUME NEW s \in SUBSET S PROVE g[s] = step(s, g)
    <3>1. CASE s = {}
      BY <3>1
    <3>2. CASE s # {}
      <4>1. PICK x : x = first(s)
        BY Zenon
      <4>2. x \in s /\ s \ {x} \in SUBSET S
        BY <1>4, <3>2, <4>1, Zenon
      <4>3. g[s] = f[x] + g[s \ {x}]
        BY <1>0, <1>2, <4>2
      <4> QED
        BY <3>2, <4>1, <4>3, Zenon
    <3> QED
      BY <3>1, <3>2, Zenon
  <2> QED
    BY <2>1, Zenon
<1>6. sum = [s \in SUBSET S |-> step(s, sum)]
  BY <1>5, Zenon
<1> HIDE DEF sum
<1>7. \A s \in SUBSET S : sum[s] = step(s, sum)
  BY <1>6, Zenon
<1>8. sum[{}] = 0
  BY <1>7, Zenon
<1>9. ASSUME NEW x \in S PROVE sum[{x}] = f[x]
  <2>1. {x} \in SUBSET S /\ {x} # {} /\ {x} \ {x} = {}
    BY Zenon
  <2>2. first({x}) = x
    BY <1>4, <2>1, Zenon
  <2>3. sum[{x}] = f[x] + sum[{}]
    BY <1>7, <2>1, <2>2, Zenon
  <2> QED
    BY <1>0, <1>2, <1>8, <2>3
<1>10. CASE S = {a, b}
  <2>1. PICK x : x = first(S)
    BY Zenon
  <2>2. x \in S
    BY <1>4, <1>10, <2>1, Zenon
  <2>3. sum[S] = f[x] + sum[S \ {x}]
    BY <1>7, <2>1, <2>2, Zenon
  <2>4. (x = a /\ S \ {x} = {b}) \/ (x = b /\ S \ {x} = {a})
    BY <1>0, <1>10, <2>2, Zenon
  <2>5. a \in S /\ b \in S
    BY <1>10, Zenon
  <2>6. sum[{a}] = A /\ sum[{b}] = B /\ f[a] = A /\ f[b] = B
    BY <1>2, <1>9, <2>5, Zenon
  <2>7. sum[S] = A + B
    BY <1>0, <2>3, <2>4, <2>6, SMTT(30)
  <2> QED
    BY <1>3, <2>5, <2>7, Zenon
<1>11. CASE S = {a}
  <2>1. a \in S /\ b \notin S
    BY <1>0, <1>11, Zenon
  <2> QED
    BY <1>0, <1>2, <1>3, <1>9, <1>11, <2>1
<1>12. CASE S = {b}
  <2>1. b \in S /\ a \notin S
    BY <1>0, <1>12, Zenon
  <2> QED
    BY <1>0, <1>2, <1>3, <1>9, <1>12, <2>1
<1>13. CASE S = {}
  BY <1>3, <1>8, <1>13
<1>14. S = {a, b} \/ S = {a} \/ S = {b} \/ S = {}
  BY <1>0, Zenon
<1> QED
  BY <1>10, <1>11, <1>12, <1>13, <1>14, Zenon

-----------------------------------------------------------------------------
\* Databases on disk and in memory.

\* The directory of a database and a loaded database, as values.
IsImage(x) == x = [data |-> x.data, catalog |-> x.catalog, sys |-> x.sys, pages |-> x.pages]

IsDb(x) == x = [catalog |-> x.catalog, sys |-> x.sys, pages |-> x.pages]

HasPermissions(c) == "sys_permissions" \in DOMAIN c.tables

HasUsers(c) == "users" \in DOMAIN c.tables

\* A catalog that has at most the table of the permissions, as that is created.
Begun(c) ==
  /\ DOMAIN c.tables \subseteq {"sys_permissions"}
  /\ HasPermissions(c) => c.tables["sys_permissions"].columns = PermissionColumns

\* The catalog of d is in order, shows the tables w and, where it is kept in system
\* pages, fits on them, also when the tables it may lack are added.
Held(d, c, w) ==
  /\ Good(c) /\ Shown(c) = w
  /\ mode # "file" =>
       /\ Fits(c)
       /\ HasPermissions(c) \/ Begun(c)
       /\ d = "qindb" => HasUsers(c) \/ Begun(c)


\* A directory of d, unless nothing is promised of it, has a catalog with the tables w;
\* in a file it can be read, if there is one.
OnDisk(d, image, w, S) ==
  /\ IsImage(image)
  /\ mode # "file" => image.catalog = NoFile
  /\ d \notin S =>
       /\ Held(d, LoadedCatalog(image), w)
       /\ image.catalog = NoFile \/ (image.catalog.state = "saved" /\ image.data)

\* The same for a loaded database.
InMemory(d, db, w, S) ==
  /\ IsDb(db)
  /\ d \notin S => Held(d, db.catalog, w) /\ HasPermissions(db.catalog)

\* Flushing replaces the pages.
LEMMA FlushIs ==
  ASSUME NEW image, IsImage(image), NEW db
  PROVE  flushAllPages(image, db) =
           [data |-> image.data, catalog |-> image.catalog, sys |-> db.sys, pages |-> db.pages]
<1>1. PICK a, b, e, f : image = [data |-> a, catalog |-> b, sys |-> e, pages |-> f]
  BY Zenon DEF IsImage
<1>2. image.data = a /\ image.catalog = b
  BY <1>1, Zenon
<1>3. flushAllPages(image, db) = [[image EXCEPT !.sys = db.sys] EXCEPT !.pages = db.pages]
  BY Zenon DEF flushAllPages
<1>4. [image EXCEPT !.sys = db.sys] = [data |-> a, catalog |-> b, sys |-> db.sys, pages |-> f]
  BY <1>1
<1> QED
  BY <1>2, <1>3, <1>4, Zenon

\* An allocated page changes the pages only.
LEMMA ExtendedIs ==
  ASSUME NEW image, IsImage(image), NEW db
  PROVE  Extended(image, db) =
           [data |-> image.data, catalog |-> image.catalog, sys |-> image.sys,
            pages |-> Extended(image, db).pages]
<1>1. PICK a, b, e, f : image = [data |-> a, catalog |-> b, sys |-> e, pages |-> f]
  BY Zenon DEF IsImage
<1> QED
  BY <1>1 DEF Extended

\* An empty catalog.
LEMMA EmptyFits ==
  ASSUME NEW c, c.tables = NoDefs, c.indexes = NoDefs
  PROVE  Fits(c)
<1>1. DOMAIN c.tables = {} /\ DOMAIN c.indexes = {}
  BY Zenon DEF NoDefs
<1>2. Columns(c, {}) = 0
  BY SystemColumns, <1>1
<1> QED
  BY <1>1, <1>2, FS_EmptySet, CatalogAssumption DEF Fits, TablesFit

\* It is in order, and shows no tables.
LEMMA NothingHeld ==
  ASSUME NEW d, NEW c, c = EmptyCatalog
  PROVE  Held(d, c, NoDefs)
<1>1. c.tables = NoDefs /\ c.indexes = NoDefs /\ DOMAIN c.tables = {}
  BY Zenon DEF EmptyCatalog, NoDefs
<1>2. Fits(c)
  BY <1>1, EmptyFits, Zenon
<1>3. Good(c)
  BY OperationsKeepAgreement, Zenon
<1>4. Begun(c)
  BY <1>1, Zenon DEF Begun, HasPermissions
<1>5. IsMap(NoDefs) /\ DOMAIN NoDefs = {}
  BY Zenon DEF IsMap, NoDefs
<1>6. Shown(c) = NoDefs
  BY <1>1, <1>5, ShownIs, Zenon
<1> QED
  BY <1>2, <1>3, <1>4, <1>6, Zenon DEF Held

\* A directory that is not there.
LEMMA NoDirectoryIs ==
  ASSUME NEW d, NEW S
  PROVE  OnDisk(d, NoDirectory, NoDefs, S)
<1>1. /\ IsImage(NoDirectory) /\ NoDirectory.catalog = NoFile /\ NoDirectory.sys = NoPages
      /\ NoFile.json = NoDefs
  BY Zenon DEF IsImage, NoDirectory, NoFile
<1>2. LoadedCatalog(NoDirectory) = EmptyCatalog
  <2>1. FromJson(NoDefs) = EmptyCatalog
    BY Zenon DEF FromJson, NoDefs, EmptyCatalog
  <2>2. loadCatalog(NoPages) = EmptyCatalog
    BY Zenon DEF loadCatalog, NoPages, NoDefs, EmptyCatalog
  <2> QED
    BY <1>1, <2>1, <2>2, Zenon DEF LoadedCatalog
<1> QED
  BY <1>1, <1>2, NothingHeld, Zenon DEF OnDisk

\* A directory without a catalog file, in file mode, has no table.
LEMMA NoFileHolds ==
  ASSUME mode = "file", NEW d, NEW image, image.catalog.state = "missing", NEW w, NEW S,
         OnDisk(d, image, w, S), d \notin S
  PROVE  w = NoDefs
<1>1. NoFile.json = NoDefs /\ "missing" # "saved"
  BY Zenon DEF NoFile
<1>2. image.catalog = NoFile /\ Held(d, LoadedCatalog(image), w)
  BY <1>1, Zenon DEF OnDisk
<1>3. FromJson(NoDefs) = EmptyCatalog
  BY Zenon DEF FromJson, NoDefs, EmptyCatalog
<1>4. LoadedCatalog(image) = EmptyCatalog
  BY <1>1, <1>2, <1>3, Zenon DEF LoadedCatalog
<1>5. Shown(EmptyCatalog) = NoDefs
  BY NothingHeld, Zenon DEF Held
<1> QED
  BY <1>2, <1>4, <1>5, Zenon DEF Held

-----------------------------------------------------------------------------
\* Saving.

\* What is saved has the form it had, and its catalog.
LEMMA SavedForm ==
  ASSUME NEW image, IsImage(image), NEW db, IsDb(db), NEW s \in Saved(image, db)
  PROVE  /\ IsImage(s.image) /\ IsDb(s.db) /\ s.db.catalog = db.catalog /\ s.db.pages = db.pages
         /\ s.image.data = image.data
         /\ mode # "file" => s.image.catalog = image.catalog
<1>1. PICK a, b, e, f : image = [data |-> a, catalog |-> b, sys |-> e, pages |-> f]
  BY Zenon DEF IsImage
<1>2. PICK g, h, i : db = [catalog |-> g, sys |-> h, pages |-> i]
  BY Zenon DEF IsDb
<1>3. CASE mode = "file"
  <2>1. s = [ok |-> TRUE, db |-> db, image |-> [image EXCEPT !.catalog =
                                                 [state |-> "saved", json |-> ToJson(db.catalog)]]]
    BY <1>3, Zenon DEF Saved
  <2>2. s.image = [data |-> a, catalog |-> [state |-> "saved", json |-> ToJson(db.catalog)],
                   sys |-> e, pages |-> f]
    BY <1>1, <2>1, Zenon
  <2>3. s.db = db
    BY <2>1, Zenon
  <2> QED
    BY <1>1, <1>3, <2>2, <2>3 DEF IsImage
<1>4. CASE mode # "file"
  <2>1. PICK r \in saveCatalog(db.catalog) :
          s = LET written == [db EXCEPT !.sys = r.pages]
              IN  [ok |-> r.ok, db |-> written,
                   image |-> IF r.ok THEN flushAllPages(image, written) ELSE image]
    BY <1>4, Zenon DEF Saved
  <2>2. PICK written : written = [db EXCEPT !.sys = r.pages]
    BY Zenon
  <2>3. written = [catalog |-> g, sys |-> r.pages, pages |-> i]
    BY <1>2, <2>2, Zenon
  <2>4. s.db = written /\ s.image = IF r.ok THEN flushAllPages(image, written) ELSE image
    BY <2>1, <2>2, Zenon
  <2>5. IsDb(s.db) /\ s.db.catalog = db.catalog /\ s.db.pages = db.pages
    BY <1>2, <2>3, <2>4 DEF IsDb
  <2>6. IsImage(flushAllPages(image, written)) /\ flushAllPages(image, written).data = image.data
        /\ flushAllPages(image, written).catalog = image.catalog
    BY FlushIs DEF IsImage
  <2> QED
    BY <1>4, <2>4, <2>5, <2>6, Zenon
<1> QED
  BY <1>3, <1>4, Zenon

\* A catalog that is saved is read back; in system pages it is, if it fits.
LEMMA SavedIsRead ==
  ASSUME NEW image, IsImage(image), NEW db, IsDb(db), Good(db.catalog),
         NEW s \in Saved(image, db)
  PROVE  /\ s.ok <=> (mode = "file" \/ Fits(db.catalog))
         /\ s.ok => LoadedCatalog(s.image) = db.catalog
         /\ s.ok => LoadedCatalog(flushAllPages(s.image, s.db)) = db.catalog
         /\ mode = "file" => s.image.catalog.state = "saved"
<1>0. IsImage(s.image)
  BY SavedForm, Zenon
<1>1. PICK y : y = flushAllPages(s.image, s.db)
  BY Zenon
<1>2. y.catalog = s.image.catalog /\ y.sys = s.db.sys
  <2>1. y = [data |-> s.image.data, catalog |-> s.image.catalog, sys |-> s.db.sys,
             pages |-> s.db.pages]
    BY <1>0, <1>1, FlushIs, Zenon
  <2> QED
    BY <2>1, Zenon
<1>3. CASE mode = "file"
  <2>1. PICK a, b, e, f : image = [data |-> a, catalog |-> b, sys |-> e, pages |-> f]
    BY Zenon DEF IsImage
  <2>2. s = [ok |-> TRUE, db |-> db, image |-> [image EXCEPT !.catalog =
                                                 [state |-> "saved", json |-> ToJson(db.catalog)]]]
    BY <1>3, Zenon DEF Saved
  <2>3. s.image.catalog = [state |-> "saved", json |-> ToJson(db.catalog)] /\ s.ok
    BY <2>1, <2>2, Zenon
  <2>4. FromJson(ToJson(db.catalog)) = db.catalog
    BY FileKeepsCatalog, Zenon
  <2>5. LoadedCatalog(s.image) = db.catalog /\ LoadedCatalog(y) = db.catalog
    BY <1>2, <1>3, <2>3, <2>4 DEF LoadedCatalog
  <2> QED
    BY <1>1, <1>3, <2>3, <2>5
<1>4. CASE mode # "file"
  <2>1. PICK r \in saveCatalog(db.catalog) :
          s = LET written == [db EXCEPT !.sys = r.pages]
              IN  [ok |-> r.ok, db |-> written,
                   image |-> IF r.ok THEN flushAllPages(image, written) ELSE image]
    BY <1>4, Zenon DEF Saved
  <2>2. PICK written : written = [db EXCEPT !.sys = r.pages]
    BY Zenon
  <2>3. PICK g, h, i : db = [catalog |-> g, sys |-> h, pages |-> i]
    BY Zenon DEF IsDb
  <2>4. written.sys = r.pages
    BY <2>2, <2>3, Zenon
  <2>5. s.ok = r.ok /\ s.db = written /\ s.image = IF r.ok THEN flushAllPages(image, written) ELSE image
    BY <2>1, <2>2, Zenon
  <2>6. CASE Fits(db.catalog)
    <3>1. r = [ok |-> TRUE,
               pages |-> Written(db.catalog, DOMAIN db.catalog.tables, {}, DOMAIN db.catalog.indexes)]
      BY <2>6, Zenon DEF saveCatalog
    <3>2. PICK c : c = db.catalog
      BY Zenon
    <3>3. r.pages = [tables |-> [t \in DOMAIN c.tables |-> c.tables[t].page],
                     columns |-> [t \in DOMAIN c.tables |-> c.tables[t].columns],
                     indexes |-> c.indexes]
      <4>1. Restrict(c.indexes, DOMAIN c.indexes) = c.indexes
        BY <3>2, Zenon DEF Restrict, Good, IsCatalog, IsMap
      <4>2. DOMAIN c.tables \cup {} = DOMAIN c.tables
        BY Zenon
      <4> QED
        BY <3>1, <3>2, <4>1, <4>2, Zenon DEF Written
    <3>4. loadCatalog(r.pages) = c
      BY <3>2, <3>3, PagesKeepCatalog, Zenon
    <3>5. s.ok /\ s.image.sys = r.pages /\ y.sys = r.pages
      BY <1>2, <2>4, <2>5, <3>1, FlushIs
    <3>6. LoadedCatalog(s.image) = c /\ LoadedCatalog(y) = c
      BY <1>4, <3>4, <3>5, Zenon DEF LoadedCatalog
    <3> QED
      BY <1>1, <1>4, <2>6, <3>2, <3>5, <3>6, Zenon
  <2>7. CASE ~Fits(db.catalog)
    <3>1. ~r.ok
      BY <2>7 DEF saveCatalog
    <3> QED
      BY <1>4, <2>5, <2>7, <3>1, Zenon
  <2> QED
    BY <2>6, <2>7, Zenon
<1> QED
  BY <1>3, <1>4, Zenon

-----------------------------------------------------------------------------
\* The tables of the permissions and of the users.

\* The two system tables fit on the system pages.
LEMMA SystemTablesFit ==
  ASSUME NEW n, DOMAIN n.tables \subseteq SystemTables,
         HasUsers(n) => n.tables["users"].columns = UserColumns,
         HasPermissions(n) => n.tables["sys_permissions"].columns = PermissionColumns,
         Cardinality(DOMAIN n.indexes) <= IndexTuples
  PROVE  Fits(n)
<1>1. PICK S : S = DOMAIN n.tables
  BY Zenon
<1>2. Columns(n, S) = (IF "users" \in S THEN UserColumns ELSE 0)
                        + (IF "sys_permissions" \in S THEN PermissionColumns ELSE 0)
  BY <1>1, SystemColumns, Zenon DEF HasUsers, HasPermissions
<1>3. Columns(n, S) <= ColumnTuples
  BY <1>2, DatabasesAssumption, CatalogAssumption
<1>4. Cardinality(S) <= 2 /\ Cardinality(S) \in Nat
  <2>1. IsFiniteSet({"users"}) /\ Cardinality({"users"}) = 1
    BY FS_Singleton, Zenon
  <2>2. IsFiniteSet({"users"} \cup {"sys_permissions"})
        /\ Cardinality({"users"} \cup {"sys_permissions"}) = 2
    BY <2>1, FS_AddElement
  <2>3. {"users"} \cup {"sys_permissions"} = SystemTables
    BY Zenon DEF SystemTables
  <2> QED
    BY <1>1, <2>2, <2>3, FS_Subset, FS_CardinalityType, Zenon
<1> QED
  BY <1>1, <1>3, <1>4, DatabasesAssumption, CatalogAssumption DEF Fits, TablesFit

\* initializePermissionSystem, of whatever was loaded.
LEMMA PermissionsForm ==
  ASSUME NEW d, NEW db, IsDb(db)
  PROVE  IsDb(WithPermissions(d, db))
<1>1. PICK g, h, i : db = [catalog |-> g, sys |-> h, pages |-> i]
  BY Zenon DEF IsDb
<1>2. CASE tableExists(db.catalog, "sys_permissions")
  BY <1>2, Zenon DEF WithPermissions
<1>3. CASE ~tableExists(db.catalog, "sys_permissions")
  <2>1. PICK p, q : WithPermissions(d, db) = [db EXCEPT !.catalog = p, !.pages = q]
    BY <1>3, Zenon DEF WithPermissions
  <2>2. [db EXCEPT !.catalog = p] = [catalog |-> p, sys |-> h, pages |-> i]
    BY <1>1
  <2>3. [db EXCEPT !.catalog = p, !.pages = q] = [[db EXCEPT !.catalog = p] EXCEPT !.pages = q]
    BY Zenon
  <2>4. WithPermissions(d, db) = [catalog |-> p, sys |-> h, pages |-> q]
    BY <2>1, <2>2, <2>3, Zenon
  <2> QED
    BY <2>4, Zenon DEF IsDb
<1> QED
  BY <1>2, <1>3, Zenon

\* The catalog with the table of the permissions.
LEMMA PermissionsAdded ==
  ASSUME NEW d, NEW db, IsDb(db), NEW w, Held(d, db.catalog, w)
  PROVE  LET x == WithPermissions(d, db)
         IN  Held(d, x.catalog, w) /\ HasPermissions(x.catalog)
<1>1. PICK c : c = db.catalog
  BY Zenon
<1>2. CASE tableExists(c, "sys_permissions")
  BY <1>1, <1>2, Zenon DEF WithPermissions, HasPermissions, tableExists
<1>3. CASE ~tableExists(c, "sys_permissions")
  <2>1. PICK p : p = Len(db.pages) + 1
    BY Zenon
  <2>2. PICK n : n = createTable(c, "sys_permissions", TableDef(p, PermissionColumns))
    BY Zenon
  <2>3. WithPermissions(d, db).catalog = n
    <3>1. PICK g, h, i : db = [catalog |-> g, sys |-> h, pages |-> i]
      BY Zenon DEF IsDb
    <3>2. PICK q : WithPermissions(d, db) = [db EXCEPT !.catalog = createTable(@, "sys_permissions", TableDef(p, PermissionColumns)), !.pages = q]
      BY <1>1, <1>3, <2>1, Zenon DEF WithPermissions
    <3>3. [db EXCEPT !.catalog = createTable(@, "sys_permissions", TableDef(p, PermissionColumns)), !.pages = q]
            = [[db EXCEPT !.catalog = n] EXCEPT !.pages = q]
      BY <1>1, <2>2, Zenon
    <3>4. [db EXCEPT !.catalog = n] = [catalog |-> n, sys |-> h, pages |-> i]
      BY <3>1
    <3>5. WithPermissions(d, db) = [catalog |-> n, sys |-> h, pages |-> q]
      BY <3>2, <3>3, <3>4, Zenon
    <3> QED
      BY <3>5
  <2>4. Good(c) /\ Shown(c) = w
    BY <1>1, Zenon DEF Held
  <2>5. Good(n)
    BY <1>3, <2>2, <2>4, CreateTableKeeps, Zenon
  <2>6. Shown(n) = w
    BY <2>2, <2>4, ShownSystemTable, Zenon DEF SystemTables, Good
  <2>7. PICK def : def = TableDef(p, PermissionColumns)
    BY Zenon
  <2>8. n.tables = With(c.tables, "sys_permissions", def) /\ n.indexes = c.indexes
    BY <2>2, <2>4, <2>7, Zenon DEF createTable, Good, IsCatalog
  <2>9. DOMAIN n.tables = DOMAIN c.tables \cup {"sys_permissions"} /\ n.tables["sys_permissions"] = def
    BY <2>8, Zenon DEF With
  <2>10. n.tables["sys_permissions"].columns = PermissionColumns
    BY <2>7, <2>9 DEF TableDef
  <2>11. HasPermissions(n)
    BY <2>9, Zenon DEF HasPermissions
  <2>12. ASSUME mode # "file" PROVE Fits(n) /\ Begun(n)
    <3>1. Begun(c) /\ Cardinality(DOMAIN c.indexes) <= IndexTuples
      BY <1>1, <1>3, <2>12, Zenon DEF Held, Fits, HasPermissions, tableExists
    <3>2. DOMAIN n.tables = {"sys_permissions"}
      BY <2>9, <3>1, Zenon DEF Begun
    <3>3. Begun(n)
      BY <2>10, <3>2, Zenon DEF Begun
    <3>4. DOMAIN n.tables \subseteq SystemTables /\ ~HasUsers(n)
      BY <3>2, Zenon DEF SystemTables, HasUsers
    <3> QED
      BY <2>8, <2>10, <3>1, <3>3, <3>4, SystemTablesFit, Zenon
  <2>13. Held(d, n, w)
    BY <2>5, <2>6, <2>11, <2>12, Zenon DEF Held
  <2> QED
    BY <2>3, <2>11, <2>13, Zenon
<1> QED
  BY <1>1, <1>2, <1>3, Zenon

\* initializeUserSystem.
LEMMA UsersForm ==
  ASSUME NEW db, IsDb(db)
  PROVE  IsDb(WithUsers(db))
<1>1. PICK g, h, i : db = [catalog |-> g, sys |-> h, pages |-> i]
  BY Zenon DEF IsDb
<1>2. CASE tableExists(db.catalog, "users")
  <2>1. PICK q : WithUsers(db) = db \/ WithUsers(db) = [db EXCEPT !.pages = q]
    BY <1>2, Zenon DEF WithUsers
  <2>2. [db EXCEPT !.pages = q] = [catalog |-> g, sys |-> h, pages |-> q]
    BY <1>1
  <2> QED
    BY <2>1, <2>2, Zenon DEF IsDb
<1>3. CASE ~tableExists(db.catalog, "users")
  <2>1. PICK p, q : WithUsers(db) = [db EXCEPT !.catalog = p, !.pages = q]
    BY <1>3, Zenon DEF WithUsers
  <2>2. [db EXCEPT !.catalog = p] = [catalog |-> p, sys |-> h, pages |-> i]
    BY <1>1
  <2>3. [db EXCEPT !.catalog = p, !.pages = q] = [[db EXCEPT !.catalog = p] EXCEPT !.pages = q]
    BY Zenon
  <2>4. WithUsers(db) = [catalog |-> p, sys |-> h, pages |-> q]
    BY <2>1, <2>2, <2>3, Zenon
  <2> QED
    BY <2>4, Zenon DEF IsDb
<1> QED
  BY <1>2, <1>3, Zenon

\* The catalog with the table of the users: all that was there stays, and it fits.
LEMMA UsersAdded ==
  ASSUME NEW db, IsDb(db), NEW w, Held("qindb", db.catalog, w), HasPermissions(db.catalog)
  PROVE  LET x == WithUsers(db)
         IN  Held("qindb", x.catalog, w) /\ HasPermissions(x.catalog) /\ HasUsers(x.catalog)
<1>1. PICK c : c = db.catalog
  BY Zenon
<1>2. CASE tableExists(c, "users")
  <2>1. PICK g, h, i : db = [catalog |-> g, sys |-> h, pages |-> i]
    BY Zenon DEF IsDb
  <2>2. PICK q : WithUsers(db) = db \/ WithUsers(db) = [db EXCEPT !.pages = q]
    BY <1>1, <1>2, Zenon DEF WithUsers
  <2>3. [db EXCEPT !.pages = q] = [catalog |-> g, sys |-> h, pages |-> q]
    BY <2>1
  <2>4. WithUsers(db).catalog = c
    BY <1>1, <2>1, <2>2, <2>3, Zenon
  <2> QED
    BY <1>1, <1>2, <2>4, Zenon DEF HasUsers, tableExists
<1>3. CASE ~tableExists(c, "users")
  <2>1. PICK p : p = Len(db.pages) + 1
    BY Zenon
  <2>2. PICK n : n = createTable(c, "users", TableDef(p, UserColumns))
    BY Zenon
  <2>3. WithUsers(db).catalog = n
    <3>1. PICK g, h, i : db = [catalog |-> g, sys |-> h, pages |-> i]
      BY Zenon DEF IsDb
    <3>2. PICK q : WithUsers(db) = [db EXCEPT !.catalog = createTable(@, "users", TableDef(p, UserColumns)), !.pages = q]
      BY <1>1, <1>3, <2>1, Zenon DEF WithUsers
    <3>3. [db EXCEPT !.catalog = createTable(@, "users", TableDef(p, UserColumns)), !.pages = q]
            = [[db EXCEPT !.catalog = n] EXCEPT !.pages = q]
      BY <1>1, <2>2, Zenon
    <3>4. [db EXCEPT !.catalog = n] = [catalog |-> n, sys |-> h, pages |-> i]
      BY <3>1
    <3>5. WithUsers(db) = [catalog |-> n, sys |-> h, pages |-> q]
      BY <3>2, <3>3, <3>4, Zenon
    <3> QED
      BY <3>5
  <2>4. Good(c) /\ Shown(c) = w
    BY <1>1, Zenon DEF Held
  <2>5. Good(n)
    BY <1>3, <2>2, <2>4, CreateTableKeeps, Zenon
  <2>6. Shown(n) = w
    BY <2>2, <2>4, ShownSystemTable, Zenon DEF SystemTables, Good
  <2>7. PICK def : def = TableDef(p, UserColumns)
    BY Zenon
  <2>8. n.tables = With(c.tables, "users", def) /\ n.indexes = c.indexes
    BY <2>2, <2>4, <2>7, Zenon DEF createTable, Good, IsCatalog
  <2>9. /\ DOMAIN n.tables = DOMAIN c.tables \cup {"users"} /\ n.tables["users"] = def
        /\ n.tables["sys_permissions"] = c.tables["sys_permissions"]
    BY <1>1, <2>8, Zenon DEF With, HasPermissions
  <2>10. n.tables["users"].columns = UserColumns
    BY <2>7, <2>9 DEF TableDef
  <2>11. HasPermissions(n) /\ HasUsers(n)
    BY <1>1, <2>9, Zenon DEF HasPermissions, HasUsers
  <2>12. ASSUME mode # "file" PROVE Fits(n)
    <3>1. Begun(c) /\ Cardinality(DOMAIN c.indexes) <= IndexTuples
      BY <1>1, <1>3, <2>12, Zenon DEF Held, Fits, HasUsers, tableExists
    <3>2. DOMAIN n.tables \subseteq SystemTables
      BY <2>9, <3>1, Zenon DEF Begun, SystemTables
    <3>3. n.tables["sys_permissions"].columns = PermissionColumns
      BY <1>1, <2>9, <3>1, Zenon DEF Begun
    <3> QED
      BY <2>8, <2>10, <3>1, <3>2, <3>3, SystemTablesFit, Zenon
  <2>13. Held("qindb", n, w)
    BY <2>5, <2>6, <2>11, <2>12, Zenon DEF Held
  <2> QED
    BY <2>3, <2>11, <2>13, Zenon
<1> QED
  BY <1>1, <1>2, <1>3, Zenon

-----------------------------------------------------------------------------
\* The manager.

\* A current database: none, or one of these.
Names == Databases \cup {""}

\* What a database manager holds: directories and loaded databases with the tables w,
\* but for the databases of S.
Keeps(m, w, S) ==
  /\ m = [disk |-> m.disk, loaded |-> m.loaded, current |-> m.current, meta |-> m.meta]
  /\ IsMap(m.disk) /\ DOMAIN m.disk = Databases
  /\ IsMap(m.loaded) /\ DOMAIN m.loaded \subseteq Databases
  /\ \A d \in Databases : OnDisk(d, m.disk[d], w[d], S)
  /\ \A d \in DOMAIN m.loaded :
       InMemory(d, m.loaded[d], w[d], S) /\ (d \notin S => m.disk[d].data)
  /\ m.current \in Names
  /\ m.meta = [state |-> m.meta.state, current |-> m.meta.current]
  /\ m.meta.current \in Names

\* v and R say of the other databases what w and S do.
Elsewhere(d, w, S, v, R) ==
  \A e \in Databases \ {d} : v[e] = w[e] /\ (e \in S => e \in R)

\* Allocated pages are no part of a catalog.
LEMMA ExtendedKeeps ==
  ASSUME NEW d, NEW image, NEW db, NEW w, NEW S, OnDisk(d, image, w, S)
  PROVE  OnDisk(d, Extended(image, db), w, S)
<1>1. IsImage(image)
  BY Zenon DEF OnDisk
<1>2. PICK x : x = Extended(image, db)
  BY Zenon
<1>3. x = [data |-> image.data, catalog |-> image.catalog, sys |-> image.sys, pages |-> x.pages]
  BY <1>1, <1>2, ExtendedIs, Zenon
<1>4. IsImage(x) /\ x.data = image.data /\ x.catalog = image.catalog /\ x.sys = image.sys
  BY <1>3 DEF IsImage
<1>5. LoadedCatalog(x) = LoadedCatalog(image)
  BY <1>4, Zenon DEF LoadedCatalog
<1> QED
  BY <1>2, <1>4, <1>5, Zenon DEF OnDisk

\* Put changes the directory and the loaded database of d, and nothing else.
LEMMA PutIs ==
  ASSUME NEW m, m = [disk |-> m.disk, loaded |-> m.loaded, current |-> m.current, meta |-> m.meta],
         IsMap(m.disk), NEW d \in DOMAIN m.disk, NEW db, NEW image
  PROVE  Put(m, d, db, image) =
           [disk |-> With(m.disk, d, Extended(image, db)), loaded |-> With(m.loaded, d, db),
            current |-> m.current, meta |-> m.meta]
<1>1. PICK a, b, e, f : m = [disk |-> a, loaded |-> b, current |-> e, meta |-> f]
  BY Zenon
<1>2. PICK x : x = Extended(image, db)
  BY Zenon
<1>3. Put(m, d, db, image) = [[m EXCEPT !.loaded = With(m.loaded, d, db)] EXCEPT !.disk[d] = x]
  BY <1>2, Zenon DEF Put
<1>4. [m EXCEPT !.loaded = With(m.loaded, d, db)]
        = [disk |-> a, loaded |-> With(m.loaded, d, db), current |-> e, meta |-> f]
  BY <1>1
<1>5. [a EXCEPT ![d] = x] = With(a, d, x)
  BY <1>1, Zenon DEF With, IsMap
<1>6. PICK n : n = [m EXCEPT !.loaded = With(m.loaded, d, db)]
  BY Zenon
<1>7. [n EXCEPT !.disk[d] = x] = [n EXCEPT !.disk = [n.disk EXCEPT ![d] = x]]
  BY Zenon
<1>8. n.disk = a /\ n = [disk |-> a, loaded |-> With(m.loaded, d, db), current |-> e, meta |-> f]
  BY <1>4, <1>6, Zenon
<1>9. [n EXCEPT !.disk = With(a, d, x)]
        = [disk |-> With(a, d, x), loaded |-> With(m.loaded, d, db), current |-> e, meta |-> f]
  BY <1>8
<1>10. m.disk = a /\ m.current = e /\ m.meta = f
  BY <1>1, Zenon
<1>11. Put(m, d, db, image) = [n EXCEPT !.disk[d] = x]
  BY <1>3, <1>6, Zenon
<1> QED
  BY <1>2, <1>5, <1>7, <1>8, <1>9, <1>10, <1>11, Zenon

\* A loaded database is put in its place.
LEMMA PutKeeps ==
  ASSUME NEW m, NEW w, NEW S, Keeps(m, w, S), NEW d \in Databases, NEW db, NEW image,
         NEW v, NEW R, Elsewhere(d, w, S, v, R),
         OnDisk(d, image, v[d], R), InMemory(d, db, v[d], R), d \notin R => image.data
  PROVE  Keeps(Put(m, d, db, image), v, R)
<1>1. PICK x : x = Extended(image, db)
  BY Zenon
<1>2. PICK a : a = With(m.disk, d, x)
  BY Zenon
<1>3. PICK b : b = With(m.loaded, d, db)
  BY Zenon
<1>4. PICK n : n = Put(m, d, db, image)
  BY Zenon
<1>5. n = [disk |-> a, loaded |-> b, current |-> m.current, meta |-> m.meta]
  BY <1>1, <1>2, <1>3, <1>4, PutIs DEF Keeps
<1>6. n.disk = a /\ n.loaded = b /\ n.current = m.current /\ n.meta = m.meta
  BY <1>5, Zenon
<1>7. OnDisk(d, x, v[d], R) /\ x.data = image.data
  <2>1. IsImage(image)
    BY Zenon DEF OnDisk
  <2>2. x = [data |-> image.data, catalog |-> image.catalog, sys |-> image.sys, pages |-> x.pages]
    BY <1>1, <2>1, ExtendedIs, Zenon
  <2> QED
    BY <1>1, <2>2, ExtendedKeeps, SMTT(30)
<1>8. /\ IsMap(a) /\ DOMAIN a = Databases /\ a[d] = x
      /\ \A e \in Databases \ {d} : a[e] = m.disk[e]
  BY <1>2, Zenon DEF Keeps, With, IsMap
<1>9. /\ IsMap(b) /\ DOMAIN b \subseteq Databases /\ b[d] = db
      /\ \A e \in DOMAIN b \ {d} : e \in DOMAIN m.loaded /\ b[e] = m.loaded[e]
  BY <1>3, Zenon DEF Keeps, With, IsMap
<1>10. ASSUME NEW e \in Databases PROVE OnDisk(e, a[e], v[e], R)
  <2>1. CASE e = d
    BY <1>7, <1>8, <2>1, Zenon
  <2>2. CASE e # d
    <3>1. OnDisk(e, a[e], v[e], S)
      BY <1>8, <2>2, Zenon DEF Keeps, Elsewhere
    <3>2. e \in S => e \in R
      BY <2>2, Zenon DEF Elsewhere
    <3> QED
      BY <3>1, <3>2, Zenon DEF OnDisk
  <2> QED
    BY <2>1, <2>2, Zenon
<1>11. ASSUME NEW e \in DOMAIN b PROVE InMemory(e, b[e], v[e], R) /\ (e \notin R => a[e].data)
  <2>1. CASE e = d
    BY <1>7, <1>8, <1>9, <2>1, Zenon
  <2>2. CASE e # d
    <3>1. InMemory(e, b[e], v[e], S) /\ (e \notin S => a[e].data)
      BY <1>8, <1>9, <2>2, Zenon DEF Keeps, Elsewhere
    <3>2. e \in S => e \in R
      BY <1>9, <2>2, Zenon DEF Elsewhere
    <3> QED
      BY <3>1, <3>2, Zenon DEF InMemory
  <2> QED
    BY <2>1, <2>2, Zenon
<1>12. /\ m.current \in Names /\ m.meta.current \in Names
       /\ m.meta = [state |-> m.meta.state, current |-> m.meta.current]
  BY Zenon DEF Keeps
<1>13. n = [disk |-> n.disk, loaded |-> n.loaded, current |-> n.current, meta |-> n.meta]
  BY <1>5, <1>6, Zenon
<1>14. Keeps(n, v, R)
  BY <1>6, <1>8, <1>9, <1>10, <1>11, <1>12, <1>13, Zenon DEF Keeps
<1> QED
  BY <1>4, <1>14, Zenon

\* loadDatabase.
LEMMA LoadKeeps ==
  ASSUME NEW m, NEW w, NEW S, Keeps(m, w, S), NEW d \in Databases, CanLoad(m, d)
  PROVE  LET n == loadDatabase(m, d)
         IN  /\ Keeps(n, w, S) /\ n.current = m.current /\ n.meta = m.meta
             /\ n.loaded = IF IsLoaded(m, d) THEN m.loaded ELSE With(m.loaded, d, n.loaded[d])
<1>1. CASE IsLoaded(m, d)
  BY <1>1, Zenon DEF loadDatabase
<1>2. CASE ~IsLoaded(m, d)
  <2>1. PICK read : read = [catalog |-> LoadedCatalog(m.disk[d]), sys |-> m.disk[d].sys,
                            pages |-> m.disk[d].pages]
    BY Zenon
  <2>2. IsDb(read) /\ read.catalog = LoadedCatalog(m.disk[d])
    BY <2>1, Zenon DEF IsDb
  <2>3. OnDisk(d, m.disk[d], w[d], S)
    BY Zenon DEF Keeps
  <2>4. PICK db : db = WithPermissions(d, read)
    BY Zenon
  <2>5. IsDb(db)
    BY <2>2, <2>4, PermissionsForm, Zenon
  <2>6. ASSUME d \notin S PROVE Held(d, db.catalog, w[d]) /\ HasPermissions(db.catalog)
    <3>1. Held(d, read.catalog, w[d])
      BY <2>2, <2>3, <2>6, Zenon DEF OnDisk
    <3> QED
      BY <2>2, <2>4, <3>1, PermissionsAdded, Zenon
  <2>7. InMemory(d, db, w[d], S)
    BY <2>5, <2>6, Zenon DEF InMemory
  <2>8. loadDatabase(m, d) = Put(m, d, db, m.disk[d])
    BY <1>2, <2>1, <2>4, Zenon DEF loadDatabase
  <2>9. Keeps(Put(m, d, db, m.disk[d]), w, S)
    <3>1. m.disk[d].data
      BY <1>2, Zenon DEF CanLoad
    <3> QED
      BY <2>3, <2>7, <3>1, PutKeeps, Zenon DEF Elsewhere
  <2>10. PICK n : n = Put(m, d, db, m.disk[d])
    BY Zenon
  <2>11. n = [disk |-> With(m.disk, d, Extended(m.disk[d], db)), loaded |-> With(m.loaded, d, db),
              current |-> m.current, meta |-> m.meta]
    BY <2>10, PutIs, SMTT(30) DEF Keeps
  <2>12. n.loaded = With(m.loaded, d, db) /\ n.current = m.current /\ n.meta = m.meta
    BY <2>11, Zenon
  <2>13. n.loaded[d] = db
    BY <2>12, Zenon DEF With
  <2> QED
    BY <1>2, <2>8, <2>9, <2>10, <2>12, <2>13, Zenon
<1> QED
  BY <1>1, <1>2, Zenon

\* Another current database.
LEMMA CurrentKeeps ==
  ASSUME NEW m, NEW w, NEW S, Keeps(m, w, S), NEW x \in Names
  PROVE  LET n == [m EXCEPT !.current = x]
         IN  /\ Keeps(n, w, S) /\ n.disk = m.disk /\ n.loaded = m.loaded
             /\ n.current = x /\ n.meta = m.meta
<1>1. PICK a, b, e, f : m = [disk |-> a, loaded |-> b, current |-> e, meta |-> f]
  BY Zenon DEF Keeps
<1>2. PICK n : n = [m EXCEPT !.current = x]
  BY Zenon
<1>3. n = [disk |-> a, loaded |-> b, current |-> x, meta |-> f]
  BY <1>1, <1>2, Zenon
<1>4. n.disk = m.disk /\ n.loaded = m.loaded /\ n.current = x /\ n.meta = m.meta
  BY <1>1, <1>3, Zenon
<1>5. n = [disk |-> n.disk, loaded |-> n.loaded, current |-> n.current, meta |-> n.meta]
  BY <1>3, Zenon
<1>6. Keeps(n, w, S)
  BY <1>4, <1>5, Zenon DEF Keeps
<1> QED
  BY <1>2, <1>4, <1>6, Zenon

\* Another databases.json.
LEMMA MetaKeeps ==
  ASSUME NEW m, NEW w, NEW S, Keeps(m, w, S), NEW s, NEW x \in Names
  PROVE  LET n == [m EXCEPT !.meta = [state |-> s, current |-> x]]
         IN  /\ Keeps(n, w, S) /\ n.disk = m.disk /\ n.loaded = m.loaded
             /\ n.current = m.current
<1>1. PICK a, b, e, f : m = [disk |-> a, loaded |-> b, current |-> e, meta |-> f]
  BY Zenon DEF Keeps
<1>2. PICK g : g = [state |-> s, current |-> x]
  BY Zenon
<1>3. PICK n : n = [m EXCEPT !.meta = g]
  BY Zenon
<1>4. n = [disk |-> a, loaded |-> b, current |-> e, meta |-> g]
  BY <1>1, <1>3, Zenon
<1>5. n.disk = m.disk /\ n.loaded = m.loaded /\ n.current = m.current /\ n.meta = g
  BY <1>1, <1>4, Zenon
<1>6. n = [disk |-> n.disk, loaded |-> n.loaded, current |-> n.current, meta |-> n.meta]
  BY <1>4, Zenon
<1>7. g = [state |-> g.state, current |-> g.current] /\ g.current = x
  BY <1>2, Zenon
<1>8. Keeps(n, w, S)
  BY <1>5, <1>6, <1>7, Zenon DEF Keeps
<1> QED
  BY <1>2, <1>3, <1>5, <1>8, Zenon

\* saveToDisk.
LEMMA SaveKeeps ==
  ASSUME NEW m, NEW w, NEW S, Keeps(m, w, S)
  PROVE  LET n == saveToDisk(m)
         IN  Keeps(n, w, S) /\ n.disk = m.disk /\ n.loaded = m.loaded /\ n.current = m.current
<1>1. PICK x \in Names : x = m.current
  BY Zenon DEF Keeps
<1>2. PICK n : n = [m EXCEPT !.meta = [state |-> "saved", current |-> x]]
  BY Zenon
<1>3. n = saveToDisk(m)
  BY <1>1, <1>2, Zenon DEF saveToDisk
<1>4. Keeps(n, w, S) /\ n.disk = m.disk /\ n.loaded = m.loaded /\ n.current = m.current
  BY <1>2, MetaKeeps, SMTT(30)
<1> QED
  BY <1>3, <1>4, Zenon

\* Nothing is loaded, and nothing current.
LEMMA NoneLoaded ==
  ASSUME NEW m, NEW w, NEW S, Keeps(m, w, S)
  PROVE  LET n == [m EXCEPT !.loaded = NoDefs, !.current = ""]
         IN  /\ Keeps(n, w, S) /\ n.disk = m.disk /\ n.loaded = NoDefs
             /\ n.current = "" /\ n.meta = m.meta
<1>1. PICK a, b, e, f : m = [disk |-> a, loaded |-> b, current |-> e, meta |-> f]
  BY Zenon DEF Keeps
<1>2. PICK x : x = ""
  BY Zenon
<1>3. PICK n : n = [m EXCEPT !.loaded = NoDefs, !.current = x]
  BY Zenon
<1>4. n = [[m EXCEPT !.loaded = NoDefs] EXCEPT !.current = x]
  BY <1>3, Zenon
<1>5. [m EXCEPT !.loaded = NoDefs] = [disk |-> a, loaded |-> NoDefs, current |-> e, meta |-> f]
  BY <1>1
<1>6. n = [disk |-> a, loaded |-> NoDefs, current |-> x, meta |-> f]
  BY <1>4, <1>5, Zenon
<1>7. n.disk = m.disk /\ n.loaded = NoDefs /\ n.current = x /\ n.meta = m.meta
  BY <1>1, <1>6, Zenon
<1>8. n = [disk |-> n.disk, loaded |-> n.loaded, current |-> n.current, meta |-> n.meta]
  BY <1>6, <1>7, Zenon
<1>9. IsMap(NoDefs) /\ DOMAIN NoDefs = {}
  BY Zenon DEF IsMap, NoDefs
<1>10. DOMAIN n.loaded \subseteq Databases /\ \A d \in DOMAIN n.loaded :
          InMemory(d, n.loaded[d], w[d], S) /\ (d \notin S => n.disk[d].data)
  BY <1>7, <1>9, Zenon
<1>11. x \in Names
  BY <1>2, Zenon DEF Names
<1>12. Keeps(n, w, S)
  BY <1>11, <1>7, <1>8, <1>9, <1>10, Zenon DEF Keeps
<1> QED
  BY <1>2, <1>3, <1>7, <1>12, Zenon

\* n has loaded what m has, and perhaps more.
LoadsMore(m, n) ==
  DOMAIN m.loaded \subseteq DOMAIN n.loaded /\ \A e \in DOMAIN m.loaded : n.loaded[e] = m.loaded[e]

\* loadDatabase loads one more database at most.
LEMMA LoadsMoreIs ==
  ASSUME NEW m, NEW w, NEW S, Keeps(m, w, S), NEW d \in Databases, CanLoad(m, d)
  PROVE  LET n == loadDatabase(m, d) IN LoadsMore(m, n) /\ d \in DOMAIN n.loaded
<1>1. PICK n : n = loadDatabase(m, d)
  BY Zenon
<1>2. n.loaded = IF IsLoaded(m, d) THEN m.loaded ELSE With(m.loaded, d, n.loaded[d])
  BY <1>1, LoadKeeps, Zenon
<1> QED
  BY <1>1, <1>2, Zenon DEF With, IsLoaded, LoadsMore

\* useDatabase, of whatever name.
LEMMA UseKeeps ==
  ASSUME NEW m, NEW w, NEW S, Keeps(m, w, S), NEW d
  PROVE  LET n == useDatabase(m, d)
         IN  /\ Keeps(n, w, S) /\ LoadsMore(m, n)
             /\ d \in Databases /\ CanLoad(m, d) => d \in DOMAIN n.loaded
<1>1. CASE ~(d \in Databases /\ CanLoad(m, d))
  BY <1>1, Zenon DEF useDatabase, LoadsMore
<1>2. CASE d \in Databases /\ CanLoad(m, d)
  <2>1. PICK n : n = loadDatabase(m, d)
    BY Zenon
  <2>2. Keeps(n, w, S) /\ LoadsMore(m, n) /\ d \in DOMAIN n.loaded
    BY <1>2, <2>1, LoadKeeps, LoadsMoreIs, Zenon
  <2>3. PICK x : x = [n EXCEPT !.current = d]
    BY Zenon
  <2>4. Keeps(x, w, S) /\ x.loaded = n.loaded
    BY <1>2, <2>2, <2>3, CurrentKeeps, Zenon DEF Names
  <2>5. useDatabase(m, d) = x
    BY <1>2, <2>1, <2>3, Zenon DEF useDatabase
  <2> QED
    BY <2>2, <2>4, <2>5, Zenon DEF LoadsMore
<1> QED
  BY <1>1, <1>2, Zenon

\* A catalog can be saved.
LEMMA SavedExists ==
  ASSUME NEW image, NEW db, mode = "file" \/ Fits(db.catalog)
  PROVE  Saved(image, db) # {}
<1>1. CASE mode = "file"
  BY <1>1, Zenon DEF Saved
<1>2. CASE mode # "file"
  <2>1. saveCatalog(db.catalog) # {}
    BY <1>2, Zenon DEF saveCatalog
  <2>2. PICK r \in saveCatalog(db.catalog) : TRUE
    BY <2>1, Zenon
  <2>3. (LET written == [db EXCEPT !.sys = r.pages]
         IN  [ok |-> r.ok, db |-> written,
              image |-> IF r.ok THEN flushAllPages(image, written) ELSE image]) \in Saved(image, db)
    BY <1>2, <2>2, Zenon DEF Saved
  <2> QED
    BY <2>3, Zenon
<1> QED
  BY <1>1, <1>2, Zenon

\* What is saved of a loaded database, unless it does not fit.
LEMMA SavedKeeps ==
  ASSUME NEW d, NEW w, NEW S, NEW image, IsImage(image), mode # "file" => image.catalog = NoFile,
         NEW db, InMemory(d, db, w, S), NEW s \in Saved(image, db),
         d \notin S => image.data /\ s.ok
  PROVE  /\ OnDisk(d, s.image, w, S) /\ InMemory(d, s.db, w, S)
         /\ OnDisk(d, flushAllPages(s.image, s.db), w, S)
<1>1. IsDb(db)
  BY Zenon DEF InMemory
<1>2. /\ IsImage(s.image) /\ IsDb(s.db) /\ s.db.catalog = db.catalog
      /\ s.image.data = image.data /\ (mode # "file" => s.image.catalog = image.catalog)
  BY <1>1, SavedForm
<1>3. InMemory(d, s.db, w, S)
  BY <1>2, Zenon DEF InMemory
<1>4. PICK y : y = flushAllPages(s.image, s.db)
  BY Zenon
<1>5. y = [data |-> s.image.data, catalog |-> s.image.catalog, sys |-> s.db.sys, pages |-> s.db.pages]
  BY <1>2, <1>4, FlushIs, Zenon
<1>6. IsImage(y) /\ y.data = s.image.data /\ y.catalog = s.image.catalog
  BY <1>5, Zenon DEF IsImage
<1>7. ASSUME d \notin S
      PROVE  /\ Held(d, LoadedCatalog(s.image), w) /\ Held(d, LoadedCatalog(y), w)
             /\ s.image.catalog = NoFile \/ (s.image.catalog.state = "saved" /\ s.image.data)
  <2>1. Held(d, db.catalog, w) /\ Good(db.catalog)
    BY <1>7, Zenon DEF InMemory, Held
  <2>2. LoadedCatalog(s.image) = db.catalog /\ LoadedCatalog(y) = db.catalog
    BY <1>1, <1>4, <1>7, <2>1, SavedIsRead, Zenon
  <2>3. mode = "file" => s.image.catalog.state = "saved"
    BY <1>1, <2>1, SavedIsRead, SMTT(30)
  <2> QED
    BY <1>2, <1>7, <2>1, <2>2, <2>3, Zenon
<1>8. OnDisk(d, s.image, w, S) /\ OnDisk(d, y, w, S)
  BY <1>2, <1>6, <1>7, Zenon DEF OnDisk
<1> QED
  BY <1>3, <1>4, <1>8, Zenon

\* A directory with a data file.
LEMMA WithData ==
  ASSUME NEW image, IsImage(image), NEW x
  PROVE  [image EXCEPT !.data = x] =
           [data |-> x, catalog |-> image.catalog, sys |-> image.sys, pages |-> image.pages]
<1>1. PICK a, b, e, f : image = [data |-> a, catalog |-> b, sys |-> e, pages |-> f]
  BY Zenon DEF IsImage
<1> QED
  BY <1>1, SMTT(30)

\* createDatabase: whatever was in the directory, there is a database without tables.
LEMMA CreateKeeps ==
  ASSUME NEW m, NEW w, NEW S, Keeps(m, w, S), NEW d \in Databases,
         NEW v, NEW R, Elsewhere(d, w, S, v, R), v[d] = NoDefs
  PROVE  LET n == createDatabase(m, d)
         IN  /\ Keeps(n, v, R) /\ DOMAIN n.loaded = DOMAIN m.loaded \cup {d}
             /\ \A e \in DOMAIN m.loaded \ {d} : n.loaded[e] = m.loaded[e]
<1>1. PICK empty : empty = [catalog |-> EmptyCatalog, sys |-> m.disk[d].sys, pages |-> m.disk[d].pages]
  BY Zenon
<1>2. IsDb(empty) /\ empty.catalog = EmptyCatalog
  BY <1>1, Zenon DEF IsDb
<1>3. PICK db : db = WithPermissions(d, empty)
  BY Zenon
<1>4. IsDb(db) /\ Held(d, db.catalog, NoDefs) /\ HasPermissions(db.catalog)
  BY <1>2, <1>3, NothingHeld, PermissionsForm, PermissionsAdded, Zenon
<1>5. OnDisk(d, m.disk[d], w[d], S)
  BY Zenon DEF Keeps
<1>6. PICK old : old = m.disk[d]
  BY Zenon
<1>7. PICK made : made = [old EXCEPT !.data = TRUE]
  BY Zenon
<1>8. made = [data |-> TRUE, catalog |-> old.catalog, sys |-> old.sys, pages |-> old.pages]
  BY <1>5, <1>6, <1>7, WithData, ZenonT(30) DEF OnDisk
<1>9. IsImage(made) /\ made.data /\ made.catalog = m.disk[d].catalog
  BY <1>6, <1>8, Zenon DEF IsImage
<1>10. PICK image : image = Extended(made, db)
  BY Zenon
<1>11. image = [data |-> made.data, catalog |-> made.catalog, sys |-> made.sys, pages |-> image.pages]
  BY <1>9, <1>10, ExtendedIs, Zenon
<1>12. IsImage(image) /\ image.data /\ image.catalog = m.disk[d].catalog
  BY <1>9, <1>11, SMTT(30) DEF IsImage
<1>13. mode # "file" => image.catalog = NoFile
  BY <1>5, <1>12, Zenon DEF OnDisk
<1>14. mode = "file" \/ Fits(db.catalog)
  BY <1>4, Zenon DEF Held
<1>15. Saved(image, db) # {}
  BY <1>14, SavedExists, Zenon
<1>16. PICK s \in Saved(image, db) : s = CHOOSE x \in Saved(image, db) : TRUE
  BY <1>15, Zenon
<1>17. InMemory(d, db, v[d], R) /\ Good(db.catalog)
  BY <1>4, Zenon DEF InMemory, Held
<1>18. s.ok
  BY <1>4, <1>12, <1>14, <1>17, SavedIsRead, Zenon
<1>19. OnDisk(d, s.image, v[d], R) /\ InMemory(d, s.db, v[d], R)
  BY <1>12, <1>13, <1>17, <1>18, SavedKeeps, Zenon
<1>20. s.image.data
  BY <1>4, <1>12, SavedForm, Zenon
<1>21. PICK put : put = Put(m, d, s.db, s.image)
  BY Zenon
<1>22. Keeps(put, v, R)
  BY <1>19, <1>20, <1>21, PutKeeps, Zenon
<1>23. put.loaded = With(m.loaded, d, s.db)
  <2>1. put = [disk |-> With(m.disk, d, Extended(s.image, s.db)), loaded |-> With(m.loaded, d, s.db),
               current |-> m.current, meta |-> m.meta]
    BY <1>21, PutIs DEF Keeps
  <2> QED
    BY <2>1, Zenon
<1>24. PICK x \in Names : x = IF put.current = "" THEN d ELSE put.current
  BY <1>22, Zenon DEF Keeps, Names
<1>25. PICK named : named = [put EXCEPT !.current = x]
  BY Zenon
<1>26. Keeps(named, v, R) /\ named.loaded = put.loaded
  BY <1>22, <1>25, CurrentKeeps, Zenon
<1>27. createDatabase(m, d) = saveToDisk(named)
  BY <1>1, <1>3, <1>6, <1>7, <1>10, <1>16, <1>21, <1>24, <1>25, Zenon DEF createDatabase
<1>28. PICK n : n = saveToDisk(named)
  BY Zenon
<1>29. Keeps(n, v, R) /\ n.loaded = With(m.loaded, d, s.db)
  BY <1>23, <1>26, <1>28, SaveKeeps, Zenon
<1>30. DOMAIN n.loaded = DOMAIN m.loaded \cup {d} /\ \A y \in DOMAIN m.loaded \ {d} : n.loaded[y] = m.loaded[y]
  BY <1>29, Zenon DEF With
<1> QED
  BY <1>27, <1>28, <1>29, <1>30, Zenon

\* closeDatabase.
LEMMA ClosedKeeps ==
  ASSUME NEW m, NEW w, NEW S, Keeps(m, w, S), NEW d \in DOMAIN m.loaded, NEW x \in Closed(m, d)
  PROVE  OnDisk(d, x, w[d], S) /\ x.data = m.disk[d].data
<1>1. PICK s \in Saved(m.disk[d], m.loaded[d]) : x = flushAllPages(s.image, s.db)
  BY Zenon DEF Closed
<1>2. PICK image : image = m.disk[d]
  BY Zenon
<1>3. PICK db : db = m.loaded[d]
  BY Zenon
<1>4. InMemory(d, db, w[d], S) /\ OnDisk(d, image, w[d], S) /\ (d \notin S => image.data)
  BY <1>2, <1>3, Zenon DEF Keeps
<1>5. /\ IsImage(image) /\ IsDb(db)
      /\ mode # "file" => image.catalog = NoFile
      /\ d \notin S => Good(db.catalog) /\ (mode = "file" \/ Fits(db.catalog))
  BY <1>4, Zenon DEF OnDisk, InMemory, Held
<1>6. d \notin S => s.ok
  BY <1>1, <1>2, <1>3, <1>5, SavedIsRead, Zenon
<1>7. OnDisk(d, x, w[d], S)
  BY <1>1, <1>2, <1>3, <1>4, <1>5, <1>6, SavedKeeps, Zenon
<1>8. IsImage(s.image) /\ s.image.data = image.data
  BY <1>1, <1>2, <1>3, <1>5, SavedForm, Zenon
<1>9. x = [data |-> s.image.data, catalog |-> s.image.catalog, sys |-> s.db.sys, pages |-> s.db.pages]
  BY <1>1, <1>8, FlushIs, Zenon
<1> QED
  BY <1>2, <1>7, <1>8, <1>9, Zenon

\* Other directories, as good as they were.
LEMMA DiskKeeps ==
  ASSUME NEW m, NEW w, NEW S, Keeps(m, w, S), NEW a, IsMap(a), DOMAIN a = Databases,
         NEW v, NEW R, S \subseteq R, \A d \in Databases \ R : v[d] = w[d],
         \A d \in Databases : OnDisk(d, a[d], v[d], R),
         \A d \in DOMAIN m.loaded : d \notin R => a[d].data
  PROVE  LET n == [m EXCEPT !.disk = a]
         IN  /\ Keeps(n, v, R) /\ n.loaded = m.loaded /\ n.current = m.current
             /\ n.meta = m.meta /\ n.disk = a
<1>1. PICK q, b, e, f : m = [disk |-> q, loaded |-> b, current |-> e, meta |-> f]
  BY Zenon DEF Keeps
<1>2. PICK n : n = [m EXCEPT !.disk = a]
  BY Zenon
<1>3. n = [disk |-> a, loaded |-> b, current |-> e, meta |-> f]
  BY <1>1, <1>2, Zenon
<1>4. n.disk = a /\ n.loaded = m.loaded /\ n.current = m.current /\ n.meta = m.meta
  BY <1>1, <1>3, Zenon
<1>5. n = [disk |-> n.disk, loaded |-> n.loaded, current |-> n.current, meta |-> n.meta]
  BY <1>3, Zenon
<1>6. ASSUME NEW d \in DOMAIN n.loaded
      PROVE  InMemory(d, n.loaded[d], v[d], R) /\ (d \notin R => n.disk[d].data)
  <2>1. d \in DOMAIN m.loaded /\ d \in Databases /\ InMemory(d, n.loaded[d], w[d], S)
    BY <1>4, Zenon DEF Keeps
  <2>2. InMemory(d, n.loaded[d], v[d], R)
    <3>1. CASE d \in R
      BY <2>1, <3>1, Zenon DEF InMemory
    <3>2. CASE d \notin R
      BY <2>1, <3>2, Zenon DEF InMemory
    <3> QED
      BY <3>1, <3>2, Zenon
  <2> QED
    BY <1>4, <2>1, <2>2, Zenon
<1>7. Keeps(n, v, R)
  BY <1>4, <1>5, <1>6, Zenon DEF Keeps
<1> QED
  BY <1>2, <1>4, <1>7, Zenon

\* All loaded databases are closed.
LEMMA AllClosedKeeps ==
  ASSUME NEW m, NEW w, NEW S, Keeps(m, w, S), NEW n \in AllClosed(m)
  PROVE  Keeps(n, w, S) /\ n.loaded = m.loaded /\ n.current = m.current /\ n.meta = m.meta
<1>1. PICK f : /\ \A d \in DOMAIN m.loaded : f[d] \in Closed(m, d)
               /\ n = [m EXCEPT !.disk = [d \in Databases |-> IF IsLoaded(m, d) THEN f[d] ELSE @[d]]]
  BY Zenon DEF AllClosed
<1>2. PICK a : a = [d \in Databases |-> IF IsLoaded(m, d) THEN f[d] ELSE m.disk[d]]
  BY Zenon
<1>3. n = [m EXCEPT !.disk = a]
  BY <1>1, <1>2, Zenon
<1>4. IsMap(a) /\ DOMAIN a = Databases
  BY <1>2, Zenon DEF IsMap
<1>5. ASSUME NEW d \in Databases
      PROVE  OnDisk(d, a[d], w[d], S) /\ a[d].data = m.disk[d].data
  <2>1. CASE IsLoaded(m, d)
    BY <1>1, <1>2, <2>1, ClosedKeeps, Zenon DEF IsLoaded
  <2>2. CASE ~IsLoaded(m, d)
    BY <1>2, <2>2, Zenon DEF Keeps
  <2> QED
    BY <2>1, <2>2, Zenon
<1>6. \A d \in DOMAIN m.loaded : d \notin S => a[d].data
  BY <1>5, Zenon DEF Keeps
<1> QED
  BY <1>3, <1>4, <1>5, <1>6, DiskKeeps

\* A set of natural numbers has a least one.
LEMMA LeastNumber ==
  ASSUME NEW T \in SUBSET Nat, T # {}
  PROVE  \E x \in T : \A y \in T : x <= y
<1>1. \A y, z \in Nat : y < z => <<y, z>> \in OpToRel(<, Nat)
  BY Zenon DEF OpToRel
<1>2. PICK x \in T : \A y \in T : ~ (<<y, x>> \in OpToRel(<, Nat))
  BY NatLessThanWellFounded, WFMin, Zenon
<1>3. \A y \in T : ~(y < x)
  BY <1>1, <1>2, Zenon
<1> QED
  BY <1>3

\* The first and the last of some databases are among them.
LEMMA FirstIsOne ==
  ASSUME NEW S \in SUBSET Databases, S # {}
  PROVE  FirstOf(S) \in S
<1>1. DbOrder \in Seq(STRING) /\ DOMAIN DbOrder = 1..Len(DbOrder) /\ Len(DbOrder) \in Nat
  BY DatabasesAssumption
<1>2. PICK T : T = {i \in DOMAIN DbOrder : DbOrder[i] \in S}
  BY Zenon
<1>3. T # {} /\ T \subseteq Nat
  BY <1>1, <1>2 DEF Databases, Range
<1>4. PICK x \in T : \A y \in T : x <= y
  BY <1>3, LeastNumber, Zenon
<1>5. \E i \in DOMAIN DbOrder : DbOrder[i] \in S /\ \A j \in 1..(i-1) : DbOrder[j] \notin S
  BY <1>1, <1>2, <1>3, <1>4
<1> QED
  BY <1>5, Zenon DEF FirstOf

\* The same for the last one.
LEMMA LastIsOne ==
  ASSUME NEW S \in SUBSET Databases, S # {}
  PROVE  LastOf(S) \in S
<1>1. DbOrder \in Seq(STRING) /\ DOMAIN DbOrder = 1..Len(DbOrder) /\ Len(DbOrder) \in Nat
  BY DatabasesAssumption
<1>2. PICK T : T = {i \in 0..Len(DbOrder) : Len(DbOrder) - i \in DOMAIN DbOrder
                                            /\ DbOrder[Len(DbOrder) - i] \in S}
  BY Zenon
<1>3. T # {} /\ T \subseteq Nat
  <2>1. PICK k \in DOMAIN DbOrder : DbOrder[k] \in S
    BY Zenon DEF Databases, Range
  <2>2. Len(DbOrder) - k \in 0..Len(DbOrder) /\ Len(DbOrder) - (Len(DbOrder) - k) = k
    BY <1>1, <2>1
  <2>3. Len(DbOrder) - k \in T
    BY <1>2, <2>1, <2>2, Zenon
  <2> QED
    BY <1>1, <1>2, <2>3
<1>4. PICK x \in T : \A y \in T : x <= y
  BY <1>3, LeastNumber, Zenon
<1>5. PICK i : i = Len(DbOrder) - x
  BY Zenon
<1>6. i \in DOMAIN DbOrder /\ DbOrder[i] \in S
  BY <1>2, <1>4, <1>5, Zenon
<1>7. ASSUME NEW j \in (i+1)..Len(DbOrder) PROVE DbOrder[j] \notin S
  <2>1. Len(DbOrder) - j \in 0..Len(DbOrder) /\ Len(DbOrder) - (Len(DbOrder) - j) = j
        /\ Len(DbOrder) - j < x /\ j \in DOMAIN DbOrder
    BY <1>1, <1>2, <1>4, <1>5, <1>6
  <2>2. Len(DbOrder) - j \notin T
    BY <1>1, <1>2, <1>4, <2>1
  <2> QED
    BY <1>2, <2>1, <2>2, Zenon
<1>8. \E k \in DOMAIN DbOrder : DbOrder[k] \in S /\ \A j \in (k+1)..Len(DbOrder) : DbOrder[j] \notin S
  BY <1>6, <1>7, Zenon
<1> QED
  BY <1>8, Zenon DEF LastOf

-----------------------------------------------------------------------------
\* A database is closed, with what is left of its directory.
Unloaded(m, d, x) == [m EXCEPT !.loaded = Without(@, {d}), !.disk[d] = x]

\* A manager after a database has been unloaded, with this left of it on disk.
IsUnloaded(m, d, x, n) == n = Unloaded(m, d, x)

IsLess(m, d, n) ==
  n.loaded = Without(m.loaded, {d}) /\ n.current = m.current /\ n.meta = m.meta

\* The other databases stay as they were.
LEMMA UnloadKeeps ==
  ASSUME NEW m, NEW w, NEW S, Keeps(m, w, S), NEW d \in Databases, NEW x,
         NEW v, NEW R, Elsewhere(d, w, S, v, R), OnDisk(d, x, v[d], R),
         NEW n, IsUnloaded(m, d, x, n)
  PROVE  IsLess(m, d, n) /\ Keeps(n, v, R)
<1>1. PICK q, b, e, f : m = [disk |-> q, loaded |-> b, current |-> e, meta |-> f]
  BY Zenon DEF Keeps
<1>2. PICK r : r = Without(b, {d})
  BY Zenon
<1>3. PICK a : a = With(q, d, x)
  BY Zenon
<1>4. PICK o : o = [m EXCEPT !.loaded = r]
  BY Zenon
<1>5. o = [disk |-> q, loaded |-> r, current |-> e, meta |-> f]
  BY <1>1, <1>4, Zenon
<1>6. o.disk = q /\ m.loaded = b /\ m.disk = q /\ m.current = e /\ m.meta = f
  BY <1>1, <1>5, Zenon
<1>7. n = Unloaded(m, d, x)
  BY Zenon DEF IsUnloaded
<1>8. n = [o EXCEPT !.disk[d] = x]
  BY <1>2, <1>4, <1>6, <1>7, Zenon DEF Unloaded
<1>9. [o EXCEPT !.disk[d] = x] = [o EXCEPT !.disk = [o.disk EXCEPT ![d] = x]]
  BY Zenon
<1>10. IsMap(q) /\ DOMAIN q = Databases /\ IsMap(b) /\ DOMAIN b \subseteq Databases
  BY <1>6, Zenon DEF Keeps
<1>11. [q EXCEPT ![d] = x] = a
  BY <1>3, <1>10, Zenon DEF With, IsMap
<1>12. n = [o EXCEPT !.disk = a]
  BY <1>6, <1>8, <1>9, <1>11, Zenon
<1>13. n = [disk |-> a, loaded |-> r, current |-> e, meta |-> f]
  BY <1>5, <1>12, Zenon
<1>14. n.disk = a /\ n.loaded = r /\ n.current = m.current /\ n.meta = m.meta
  BY <1>6, <1>13, Zenon
<1>15. n = [disk |-> n.disk, loaded |-> n.loaded, current |-> n.current, meta |-> n.meta]
  BY <1>13, Zenon
<1>16. /\ IsMap(a) /\ DOMAIN a = Databases /\ a[d] = x
       /\ \A y \in Databases \ {d} : a[y] = q[y]
  BY <1>3, <1>10, Zenon DEF With, IsMap
<1>17. IsMap(r) /\ DOMAIN r = DOMAIN b \ {d} /\ \A y \in DOMAIN r : r[y] = b[y]
  BY <1>2, Zenon DEF Without, Restrict, IsMap
<1>18. ASSUME NEW y \in Databases PROVE OnDisk(y, n.disk[y], v[y], R)
  <2>1. CASE y = d
    BY <1>14, <1>16, <2>1, Zenon
  <2>2. CASE y # d
    <3>1. OnDisk(y, n.disk[y], v[y], S)
      BY <1>6, <1>14, <1>16, <2>2, Zenon DEF Keeps, Elsewhere
    <3>2. y \in S => y \in R
      BY <2>2, Zenon DEF Elsewhere
    <3> QED
      BY <3>1, <3>2, Zenon DEF OnDisk
  <2> QED
    BY <2>1, <2>2, Zenon
<1>19. ASSUME NEW y \in DOMAIN n.loaded
       PROVE  InMemory(y, n.loaded[y], v[y], R) /\ (y \notin R => n.disk[y].data)
  <2>1. y \in DOMAIN m.loaded /\ y \in Databases \ {d} /\ n.loaded[y] = m.loaded[y] /\ n.disk[y] = m.disk[y]
    BY <1>6, <1>10, <1>14, <1>16, <1>17, Zenon
  <2>2. InMemory(y, n.loaded[y], w[y], S) /\ (y \notin S => n.disk[y].data)
    BY <2>1, Zenon DEF Keeps
  <2>3. v[y] = w[y] /\ (y \in S => y \in R)
    BY <2>1, Zenon DEF Elsewhere
  <2> QED
    BY <2>2, <2>3, Zenon DEF InMemory
<1>20. IsMap(n.loaded) /\ DOMAIN n.loaded \subseteq Databases
  BY <1>10, <1>14, <1>17, Zenon
<1>21. Keeps(n, v, R)
  BY <1>14, <1>15, <1>16, <1>18, <1>19, <1>20, Zenon DEF Keeps
<1> QED
  BY <1>2, <1>6, <1>7, <1>14, <1>21, Zenon DEF IsLess

\* dropDatabase.
LEMMA DropKeeps ==
  ASSUME NEW m, NEW w, NEW S, Keeps(m, w, S), NEW d \in Databases,
         NEW v, NEW R, Elsewhere(d, w, S, v, R), v[d] = NoDefs
  PROVE  LET n == dropDatabase(m, d)
         IN  Keeps(n, v, R) /\ n.loaded = Without(m.loaded, {d})
<1>1. OnDisk(d, NoDirectory, v[d], R)
  BY NoDirectoryIs, Zenon
<1>2. PICK rest : rest = DOMAIN m.loaded \ {d}
  BY Zenon
<1>3. PICK o : o = Unloaded(m, d, NoDirectory)
  BY Zenon
<1>4. Keeps(o, v, R) /\ o.loaded = Without(m.loaded, {d}) /\ o.current = m.current
  <2>1. IsUnloaded(m, d, NoDirectory, o)
    BY <1>3, Zenon DEF IsUnloaded
  <2>2. IsLess(m, d, o) /\ Keeps(o, v, R)
    BY <1>1, <2>1, UnloadKeeps, Zenon
  <2> QED
    BY <2>2, Zenon DEF IsLess
<1>5. PICK x : x = IF m.current # d THEN m.current ELSE IF rest = {} THEN "" ELSE FirstOf(rest)
  BY Zenon
<1>6. rest # {} => FirstOf(rest) \in Databases
  <2>1. rest \in SUBSET Databases
    BY <1>2, Zenon DEF Keeps
  <2> QED
    BY <2>1, FirstIsOne, Zenon
<1>7. m.current \in Names
  BY Zenon DEF Keeps
<1>8. x \in Names
  BY <1>5, <1>6, <1>7, Zenon DEF Names
<1>9. PICK named : named = [o EXCEPT !.current = x]
  BY Zenon
<1>10. Keeps(named, v, R) /\ named.loaded = o.loaded
  BY <1>4, <1>8, <1>9, CurrentKeeps, Zenon
<1>11. named = [m EXCEPT !.loaded = Without(@, {d}), !.disk[d] = NoDirectory,
                  !.current = IF @ # d THEN @ ELSE IF rest = {} THEN "" ELSE FirstOf(rest)]
  BY <1>3, <1>4, <1>5, <1>9, Zenon DEF Unloaded
<1>12. dropDatabase(m, d) = saveToDisk(named)
  BY <1>2, <1>11, Zenon DEF dropDatabase
<1> QED
  BY <1>4, <1>10, <1>12, SaveKeeps, Zenon

\* The start of the manager.
LEMMA LoadFromDiskKeeps ==
  ASSUME NEW m, NEW w, NEW S, Keeps(m, w, S)
  PROVE  Keeps(loadFromDisk(m), w, S)
<1>1. PICK x : x = m.meta.current
  BY Zenon
<1>2. CASE m.meta.state # "saved" \/ x = ""
  BY <1>1, <1>2, Zenon DEF loadFromDisk
<1>3. CASE ~(m.meta.state # "saved" \/ x = "")
  <2>1. x \in Names /\ x \in Databases
    BY <1>1, <1>3, Zenon DEF Keeps, Names
  <2>2. PICK named : named = [m EXCEPT !.current = x]
    BY Zenon
  <2>3. Keeps(named, w, S) /\ named.disk = m.disk /\ named.loaded = m.loaded
    BY <2>1, <2>2, CurrentKeeps, Zenon
  <2>4. loadFromDisk(m) = IF CanLoad(m, x) THEN loadDatabase(named, x) ELSE named
    BY <1>1, <1>3, <2>2, ZenonT(30) DEF loadFromDisk
  <2>5. CanLoad(m, x) => CanLoad(named, x)
    BY <2>3, Zenon DEF CanLoad, IsLoaded
  <2>6. CanLoad(m, x) => Keeps(loadDatabase(named, x), w, S)
    BY <2>1, <2>3, <2>5, LoadKeeps, Zenon
  <2> QED
    BY <2>3, <2>4, <2>6, Zenon
<1> QED
  BY <1>2, <1>3, Zenon

\* The manager of authentication, of a manager that has the system database.
LEMMA AuthKeeps ==
  ASSUME NEW m, NEW w, NEW S, Keeps(m, w, S), "qindb" \in DOMAIN m.loaded
  PROVE  LET n == WithAuthManager(m)
         IN  /\ Keeps(n, w, S) /\ "qindb" \in DOMAIN n.loaded
             /\ "qindb" \notin S => HasUsers(n.loaded["qindb"].catalog)
<1>1. PICK q : q = "qindb"
  BY Zenon
<1>2. PICK db : db = m.loaded[q]
  BY Zenon
<1>3. InMemory(q, db, w[q], S) /\ q \in Databases /\ OnDisk(q, m.disk[q], w[q], S)
      /\ (q \notin S => m.disk[q].data)
  BY <1>1, <1>2, Zenon DEF Keeps
<1>4. PICK x : x = WithUsers(db)
  BY Zenon
<1>5. IsDb(x)
  BY <1>3, <1>4, UsersForm, Zenon DEF InMemory
<1>6. q \notin S => Held(q, x.catalog, w[q]) /\ HasPermissions(x.catalog) /\ HasUsers(x.catalog)
  BY <1>1, <1>3, <1>4, UsersAdded, Zenon DEF InMemory
<1>7. InMemory(q, x, w[q], S)
  BY <1>5, <1>6, Zenon DEF InMemory
<1>8. PICK n : n = Put(m, q, x, m.disk[q])
  BY Zenon
<1>9. Keeps(n, w, S)
  BY <1>3, <1>7, <1>8, PutKeeps, Zenon DEF Elsewhere
<1>10. n = [disk |-> With(m.disk, q, Extended(m.disk[q], x)), loaded |-> With(m.loaded, q, x),
            current |-> m.current, meta |-> m.meta]
  BY <1>3, <1>8, PutIs, SMTT(30) DEF Keeps
<1>11. n.loaded = With(m.loaded, q, x)
  BY <1>10, Zenon
<1>12. q \in DOMAIN n.loaded /\ n.loaded[q] = x
  BY <1>11, Zenon DEF With
<1>13. n = WithAuthManager(m)
  BY <1>1, <1>2, <1>4, <1>8, Zenon DEF WithAuthManager
<1> QED
  BY <1>1, <1>6, <1>9, <1>12, <1>13, Zenon

\* The system database, where it is loaded, has the table of the users.
UsersThere(m, S) ==
  "qindb" \in DOMAIN m.loaded \ S => HasUsers(m.loaded["qindb"].catalog)

\* main: the system database is there, with the table of the users.
LEMMA StartKeeps ==
  ASSUME NEW m, NEW w, NEW S, Keeps(m, w, S), ~StartRefused(m), NEW v, NEW R,
         databaseExists(m, "qindb") => v = w /\ R = S,
         ~databaseExists(m, "qindb") => Elsewhere("qindb", w, S, v, R) /\ v["qindb"] = NoDefs,
         NEW previous
  PROVE  LET n == SwitchBack(WithAuthManager(WithSystemDatabase(m)), previous)
         IN  Keeps(n, v, R) /\ UsersThere(n, R)
<1>1. "qindb" \in Databases
  BY DatabasesAssumption, Zenon DEF Databases
<1>2. PICK base : base = IF databaseExists(m, "qindb") THEN m ELSE createDatabase(m, "qindb")
  BY Zenon
<1>3. Keeps(base, v, R) /\ CanLoad(base, "qindb")
  <2>1. CASE databaseExists(m, "qindb")
    BY <1>2, <2>1, Zenon DEF StartRefused
  <2>2. CASE ~databaseExists(m, "qindb")
    <3>1. base = createDatabase(m, "qindb")
      BY <1>2, <2>2, Zenon
    <3>2. Keeps(base, v, R) /\ "qindb" \in DOMAIN base.loaded
      BY <1>1, <2>2, <3>1, CreateKeeps
    <3> QED
      BY <3>2, Zenon DEF CanLoad, IsLoaded
  <2> QED
    BY <2>1, <2>2, Zenon
<1>4. PICK system : system = useDatabase(base, "qindb")
  BY Zenon
<1>5. Keeps(system, v, R) /\ "qindb" \in DOMAIN system.loaded
  BY <1>1, <1>3, <1>4, UseKeeps, Zenon
<1>6. system = WithSystemDatabase(m)
  BY <1>2, <1>4, Zenon DEF WithSystemDatabase
<1>7. PICK auth : auth = WithAuthManager(system)
  BY Zenon
<1>8. /\ Keeps(auth, v, R) /\ "qindb" \in DOMAIN auth.loaded
      /\ "qindb" \notin R => HasUsers(auth.loaded["qindb"].catalog)
  BY <1>5, <1>7, AuthKeeps, Zenon
<1>9. PICK n : n = SwitchBack(auth, previous)
  BY Zenon
<1>10. n = auth \/ n = useDatabase(auth, previous)
  BY <1>9, ZenonT(30) DEF SwitchBack
<1>11. Keeps(n, v, R) /\ LoadsMore(auth, n)
  <2>1. CASE n = auth
    BY <1>8, <2>1, Zenon DEF LoadsMore
  <2>2. CASE n = useDatabase(auth, previous)
    BY <1>8, <2>2, UseKeeps, Zenon
  <2> QED
    BY <1>10, <2>1, <2>2, Zenon
<1>12. "qindb" \in DOMAIN n.loaded /\ n.loaded["qindb"] = auth.loaded["qindb"]
  BY <1>8, <1>11, Zenon DEF LoadsMore
<1> QED
  BY <1>6, <1>7, <1>8, <1>9, <1>11, <1>12, Zenon DEF UsersThere

=============================================================================
