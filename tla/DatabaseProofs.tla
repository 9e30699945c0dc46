---------------------------- MODULE DatabaseProofs ----------------------------
(***************************************************************************)
(* TLAPS proofs about DatabaseManager, for any set of databases, tables,   *)
(* indexes, users and permissions and any number of steps and faults: the  *)
(* catalogs agree, no table or index is lost, and a start is refused only  *)
(* after a fault.  The operations are treated as values in CatalogProofs;  *)
(* here each action is a step from one such value to the next.             *)
(***************************************************************************)
EXTENDS CatalogProofs

\* The histories.

TablesOf(h) == [d \in Databases |-> h[d].tables]

IsWish(x) == x = [tables |-> x.tables, grants |-> x.grants, users |-> x.users]

IsHistory(h) == IsMap(h) /\ DOMAIN h = Databases /\ \A d \in Databases : IsWish(h[d])

\* The inductive invariant: the manager keeps the tables that were asked for, which
\* are all durable; the users' table is there as long as the process runs.
DbInv ==
  /\ Keeps(Manager, TablesOf(wanted), doubtful)
  /\ IsHistory(wanted) /\ IsHistory(durable) /\ TablesOf(wanted) = TablesOf(durable)
  /\ Up => UsersThere(Manager, doubtful)
  /\ RefusedOnlyAfterAFault

\* An expectation with other tables,
LEMMA WishTables ==
  ASSUME NEW x, IsWish(x), NEW t
  PROVE  LET y == [x EXCEPT !.tables = t] IN IsWish(y) /\ y.tables = t
<1>1. PICK a, b, e : x = [tables |-> a, grants |-> b, users |-> e]
  BY Zenon DEF IsWish
<1>2. PICK y : y = [x EXCEPT !.tables = t]
  BY Zenon
<1>3. y = [tables |-> t, grants |-> b, users |-> e]
  BY <1>1, <1>2, Zenon
<1>4. IsWish(y) /\ y.tables = t
  BY <1>3, Zenon DEF IsWish
<1> QED
  BY <1>2, <1>4, Zenon

\* with other permissions,
LEMMA WishGrants ==
  ASSUME NEW x, IsWish(x), NEW g
  PROVE  LET y == [x EXCEPT !.grants = g] IN IsWish(y) /\ y.tables = x.tables
<1>1. PICK a, b, e : x = [tables |-> a, grants |-> b, users |-> e]
  BY Zenon DEF IsWish
<1>2. PICK y : y = [x EXCEPT !.grants = g]
  BY Zenon
<1>3. y = [tables |-> a, grants |-> g, users |-> e]
  BY <1>1, <1>2, Zenon
<1>4. IsWish(y) /\ y.tables = x.tables
  BY <1>1, <1>3, Zenon DEF IsWish
<1> QED
  BY <1>2, <1>4, Zenon

\* with other users.
LEMMA WishUsers ==
  ASSUME NEW x, IsWish(x), NEW u
  PROVE  LET y == [x EXCEPT !.users = u] IN IsWish(y) /\ y.tables = x.tables
<1>1. PICK a, b, e : x = [tables |-> a, grants |-> b, users |-> e]
  BY Zenon DEF IsWish
<1>2. PICK y : y = [x EXCEPT !.users = u]
  BY Zenon
<1>3. y = [tables |-> a, grants |-> b, users |-> u]
  BY <1>1, <1>2, Zenon
<1>4. IsWish(y) /\ y.tables = x.tables
  BY <1>1, <1>3, Zenon DEF IsWish
<1> QED
  BY <1>2, <1>4, Zenon

\* Nothing is expected of a database that is not there,
LEMMA NothingIs == IsWish(Nothing) /\ Nothing.tables = NoDefs
BY Zenon DEF IsWish, Nothing

\* and no tables of a new one.
LEMMA FreshIs ==
  ASSUME NEW d
  PROVE  IsWish(FreshlyWanted(d)) /\ FreshlyWanted(d).tables = NoDefs
<1>1. PICK g : g = {AdminGrant(d)}
  BY Zenon
<1>2. FreshlyWanted(d) = [Nothing EXCEPT !.grants = g]
  BY <1>1, Zenon DEF FreshlyWanted
<1> QED
  BY <1>2, NothingIs, WishGrants

\* The tables are durable with the statement.
LEMMA DurableIs ==
  ASSUME NEW w, IsWish(w), NEW old, IsWish(old), NEW flushed
  PROVE  LET y == DurableAfter(w, flushed, old) IN IsWish(y) /\ y.tables = w.tables
<1>1. CASE flushed
  BY <1>1, Zenon DEF DurableAfter
<1>2. CASE ~flushed
  <2>1. DurableAfter(w, flushed, old) = [old EXCEPT !.tables = w.tables]
    BY <1>2, Zenon DEF DurableAfter
  <2> QED
    BY <2>1, WishTables
<1> QED
  BY <1>1, <1>2, Zenon

\* What is expected of one database says nothing of the others.
LEMMA ElsewhereIs ==
  ASSUME NEW h, IsHistory(h), NEW d \in Databases, NEW t, NEW S, NEW R, \A e \in S \ {d} : e \in R
  PROVE  LET v == [TablesOf(h) EXCEPT ![d] = t]
         IN  Elsewhere(d, TablesOf(h), S, v, R) /\ v[d] = t
BY Zenon DEF TablesOf, Elsewhere

\* A step to the manager m.
LEMMA StepKeeps ==
  ASSUME NEW m, NEW w, NEW S, Keeps(m, w, S), UNCHANGED mode, Set(m),
         doubtful' = S, TablesOf(wanted)' = w, TablesOf(durable)' = w,
         IsHistory(wanted)', IsHistory(durable)',
         Up' => UsersThere(m, S), RefusedOnlyAfterAFault'
  PROVE  DbInv'
<1>1. Keeps(m, w, S)'
  <2>1. \A image : LoadedCatalog(image)' = LoadedCatalog(image)
    BY Zenon DEF LoadedCatalog
  <2>2. \A d, c, x : Held(d, c, x)' <=> Held(d, c, x)
    BY Zenon DEF Held
  <2>3. \A d, image, x : OnDisk(d, image, x, S) => OnDisk(d, image, x, S)'
    BY <2>1, <2>2, Zenon DEF OnDisk
  <2>4. \A d, db, x : InMemory(d, db, x, S) => InMemory(d, db, x, S)'
    BY <2>2, Zenon DEF InMemory
  <2> QED
    BY <2>3, <2>4, Zenon DEF Keeps
<1>2. m = [disk |-> m.disk, loaded |-> m.loaded, current |-> m.current, meta |-> m.meta]
  BY Zenon DEF Keeps
<1>3. Manager' = m
  BY <1>2, Zenon DEF Manager, Set
<1>4. Keeps(Manager, TablesOf(wanted), doubtful)'
  BY <1>1, <1>3, Zenon
<1>5. (Up => UsersThere(Manager, doubtful))'
  BY <1>3, Zenon DEF UsersThere
<1> QED
  BY <1>4, <1>5, Zenon DEF DbInv

\* The expectations of one database change, to x and y.
LEMMA OneStep ==
  ASSUME DbInv, NEW d \in Databases, NEW m, NEW x, IsWish(x), NEW y, IsWish(y), y.tables = x.tables,
         NEW R, Keeps(m, [TablesOf(wanted) EXCEPT ![d] = x.tables], R), UNCHANGED mode, Set(m),
         doubtful' = R, wanted' = [wanted EXCEPT ![d] = x], durable' = [durable EXCEPT ![d] = y],
         Up' => UsersThere(m, R), RefusedOnlyAfterAFault'
  PROVE  DbInv'
<1>1. IsHistory(wanted) /\ IsHistory(durable) /\ TablesOf(wanted) = TablesOf(durable)
  BY Zenon DEF DbInv
<1>2. PICK v : v = [TablesOf(wanted) EXCEPT ![d] = x.tables]
  BY Zenon
<1>3. PICK g, h : g = [wanted EXCEPT ![d] = x] /\ h = [durable EXCEPT ![d] = y]
  BY Zenon
<1>4. IsHistory(g) /\ TablesOf(g) = v
  BY <1>1, <1>2, <1>3, Zenon DEF IsHistory, IsMap, TablesOf
<1>5. IsHistory(h) /\ TablesOf(h) = v
  <2>1. IsHistory(h) /\ TablesOf(h) = [TablesOf(durable) EXCEPT ![d] = y.tables]
    BY <1>1, <1>3, Zenon DEF IsHistory, IsMap, TablesOf
  <2> QED
    BY <1>1, <1>2, <2>1, Zenon
<1>6. IsHistory(wanted)' /\ IsHistory(durable)' /\ TablesOf(wanted)' = v /\ TablesOf(durable)' = v
  <2>1. wanted' = g /\ durable' = h
    BY <1>3, Zenon
  <2> QED
    BY <1>4, <1>5, <2>1, Zenon
<1> QED
  BY <1>2, <1>6, StepKeeps, Zenon

\* No expectation changes.
LEMMA SameStep ==
  ASSUME DbInv, NEW m, NEW R, Keeps(m, TablesOf(wanted), R), UNCHANGED <<mode, wanted, durable>>, Set(m),
         doubtful' = R, Up' => UsersThere(m, R), RefusedOnlyAfterAFault'
  PROVE  DbInv'
<1>1. IsHistory(wanted) /\ IsHistory(durable) /\ TablesOf(wanted) = TablesOf(durable)
  BY Zenon DEF DbInv
<1>2. PICK v : v = TablesOf(wanted)
  BY Zenon
<1>3. IsHistory(wanted)' /\ IsHistory(durable)' /\ TablesOf(wanted)' = v /\ TablesOf(durable)' = v
  <2>1. wanted' = wanted /\ durable' = durable
    BY Zenon
  <2> QED
    BY <1>1, <1>2, <2>1, Zenon
<1> QED
  BY <1>2, <1>3, StepKeeps, Zenon

\* More is loaded: the users' table stays.
LEMMA LoadsMoreUsers ==
  ASSUME NEW m, NEW n, NEW S, LoadsMore(m, n), UsersThere(m, S), "qindb" \in DOMAIN m.loaded
  PROVE  UsersThere(n, S)
BY Zenon DEF LoadsMore, UsersThere

\* The users' table stays, when a database is put in its place.
LEMMA PutUsers ==
  ASSUME NEW m, NEW w, NEW S, Keeps(m, w, S), UsersThere(m, S), NEW d \in Databases, NEW db, NEW image,
         NEW R, \A e \in S \ {d} : e \in R,
         d = "qindb" /\ d \notin R => HasUsers(db.catalog)
  PROVE  UsersThere(Put(m, d, db, image), R)
<1>1. PICK n : n = Put(m, d, db, image)
  BY Zenon
<1>2. n = [disk |-> With(m.disk, d, Extended(image, db)), loaded |-> With(m.loaded, d, db),
           current |-> m.current, meta |-> m.meta]
  BY <1>1, PutIs DEF Keeps
<1>3. n.loaded = With(m.loaded, d, db)
  BY <1>2, Zenon
<1>4. DOMAIN n.loaded = DOMAIN m.loaded \cup {d}
      /\ \A e \in DOMAIN n.loaded : n.loaded[e] = IF e = d THEN db ELSE m.loaded[e]
  BY <1>3, Zenon DEF With
<1> QED
  BY <1>1, <1>4, Zenon DEF UsersThere

\* A database whose catalog is in order is saved.
LEMMA SaveStep ==
  ASSUME DbInv, Up, NEW d \in DOMAIN loaded, NEW db, IsDb(db), NEW image, IsImage(image),
         mode # "file" => image.catalog = NoFile, d \notin doubtful => image.data,
         NEW s \in Saved(image, db), NEW t,
         d \notin doubtful => /\ Good(db.catalog) /\ Shown(db.catalog) = t /\ HasPermissions(db.catalog)
                              /\ d = "qindb" => HasUsers(db.catalog),
         NEW R, R = doubtful \cup (IF s.ok THEN {} ELSE {d}),
         NEW y \in {s.image, flushAllPages(s.image, s.db)}
  PROVE  LET n == Put(Manager, d, s.db, y)
         IN  Keeps(n, [TablesOf(wanted) EXCEPT ![d] = t], R) /\ UsersThere(n, R)
<1>1. PICK v : v = [TablesOf(wanted) EXCEPT ![d] = t]
  BY Zenon
<1>2. d \in Databases /\ Keeps(Manager, TablesOf(wanted), doubtful) /\ UsersThere(Manager, doubtful)
  BY Zenon DEF DbInv, Keeps, Manager
<1>3. Elsewhere(d, TablesOf(wanted), doubtful, v, R) /\ v[d] = t
  BY <1>1, <1>2, ElsewhereIs, Zenon DEF DbInv
<1>4. ASSUME d \notin R
      PROVE  Held(d, db.catalog, t) /\ HasPermissions(db.catalog) /\ s.ok /\ image.data
             /\ (d = "qindb" => HasUsers(db.catalog))
  <2>1. d \notin doubtful /\ s.ok
    BY <1>4, Zenon
  <2>2. mode = "file" \/ Fits(db.catalog)
    BY <2>1, SavedIsRead, Zenon
  <2> QED
    BY <2>1, <2>2, Zenon DEF Held
<1>5. InMemory(d, db, t, R)
  BY <1>4, Zenon DEF InMemory
<1>6. OnDisk(d, y, t, R) /\ InMemory(d, s.db, t, R)
  BY <1>4, <1>5, SavedKeeps
<1>7. s.db.catalog = db.catalog /\ IsImage(s.image) /\ s.image.data = image.data
  BY SavedForm
<1>8. y.data = image.data
  <2>1. PICK z : z = flushAllPages(s.image, s.db)
    BY Zenon
  <2>2. z = [data |-> s.image.data, catalog |-> s.image.catalog, sys |-> s.db.sys, pages |-> s.db.pages]
    BY <1>7, <2>1, FlushIs, Zenon
  <2> QED
    BY <1>7, <2>1, <2>2
<1>9. Keeps(Put(Manager, d, s.db, y), v, R)
  BY <1>2, <1>3, <1>4, <1>6, <1>8, PutKeeps
<1>10. UsersThere(Put(Manager, d, s.db, y), R)
  BY <1>2, <1>4, <1>7, PutUsers
<1> QED
  BY <1>1, <1>9, <1>10, Zenon

\* A statement on the catalog of the current database.
LEMMA ChangeKeeps ==
  ASSUME DbInv, Selected, NEW db, IsDb(db), NEW w, IsWish(w), NEW flush,
         current \notin doubtful =>
           /\ Good(db.catalog) /\ Shown(db.catalog) = w.tables /\ HasPermissions(db.catalog)
           /\ current = "qindb" => HasUsers(db.catalog),
         ChangeCatalog(db, w, flush)
  PROVE  DbInv'
<1>1. PICK d : d = current
  BY Zenon
<1>2. d \in DOMAIN loaded /\ Up /\ d \in Databases /\ OnDisk(d, disk[d], TablesOf(wanted)[d], doubtful)
      /\ (d \notin doubtful => disk[d].data)
  BY <1>1, Zenon DEF Selected, Serving, DbInv, Keeps, Manager
<1>3. PICK image : image = Extended(disk[d], db)
  BY Zenon
<1>4. image = [data |-> disk[d].data, catalog |-> disk[d].catalog, sys |-> disk[d].sys,
               pages |-> image.pages]
  BY <1>2, <1>3, ExtendedIs, Zenon DEF OnDisk
<1>5. /\ IsImage(image) /\ (d \notin doubtful => image.data)
      /\ mode # "file" => image.catalog = NoFile
  BY <1>2, <1>4 DEF IsImage, OnDisk
<1>6. PICK s \in Saved(image, db) :
        /\ Set(Put(Manager, d, s.db, IF flush THEN flushAllPages(s.image, s.db) ELSE s.image))
        /\ Unsure(IF s.ok THEN {} ELSE {d})
  BY <1>1, <1>3, Zenon DEF ChangeCatalog
<1>7. PICK y : y = IF flush THEN flushAllPages(s.image, s.db) ELSE s.image
  BY Zenon
<1>8. PICK R : R = doubtful \cup (IF s.ok THEN {} ELSE {d})
  BY Zenon
<1>9. PICK n : n = Put(Manager, d, s.db, y)
  BY Zenon
<1>10. y \in {s.image, flushAllPages(s.image, s.db)}
  BY <1>7, Zenon
<1>11. Keeps(n, [TablesOf(wanted) EXCEPT ![d] = w.tables], R) /\ UsersThere(n, R)
  BY <1>1, <1>2, <1>5, <1>8, <1>9, <1>10, SaveStep, SMTT(30)
<1>12. PICK z : z = DurableAfter(w, flush \/ mode = "database", durable[d])
  BY Zenon
<1>13. IsWish(z) /\ z.tables = w.tables
  BY <1>2, <1>12, DurableIs, Zenon DEF DbInv, IsHistory
<1>14. /\ Set(n) /\ doubtful' = R /\ UNCHANGED <<mode, status>>
       /\ wanted' = [wanted EXCEPT ![d] = w]
  BY <1>1, <1>6, <1>7, <1>8, <1>9 DEF ChangeCatalog, Unsure, Expect
<1>15. durable' = [durable EXCEPT ![d] = z]
  BY <1>1, <1>12, Zenon DEF ChangeCatalog
<1>16. RefusedOnlyAfterAFault'
  BY <1>2, <1>14, Zenon DEF RefusedOnlyAfterAFault, Up
<1> QED
  BY <1>2, <1>11, <1>13, <1>14, <1>15, <1>16, OneStep, Zenon

\* SAVE
LEMMA SaveKeepsInv ==
  ASSUME DbInv, Save
  PROVE  DbInv'
<1>1. PICK d : d = current
  BY Zenon
<1>2. /\ d \in DOMAIN loaded /\ Up /\ d \in Databases
      /\ OnDisk(d, disk[d], TablesOf(wanted)[d], doubtful)
      /\ InMemory(d, loaded[d], TablesOf(wanted)[d], doubtful)
      /\ d \notin doubtful => disk[d].data
      /\ UsersThere(Manager, doubtful)
  BY <1>1, Zenon DEF Save, Selected, Serving, DbInv, Keeps, Manager
<1>3. PICK s \in Saved(disk[d], loaded[d]) :
        /\ Set(Put(Manager, d, s.db, IF s.ok THEN flushAllPages(s.image, s.db) ELSE s.image))
        /\ Unsure(IF s.ok THEN {} ELSE {d})
  BY <1>1, Zenon DEF Save
<1>4. PICK y : y = IF s.ok THEN flushAllPages(s.image, s.db) ELSE s.image
  BY Zenon
<1>5. y \in {s.image, flushAllPages(s.image, s.db)}
  BY <1>4, Zenon
<1>6. PICK R : R = doubtful \cup (IF s.ok THEN {} ELSE {d})
  BY Zenon
<1>7. PICK n : n = Put(Manager, d, s.db, y)
  BY Zenon
<1>8. PICK w : w = wanted[d]
  BY Zenon
<1>9. IsWish(w) /\ w.tables = TablesOf(wanted)[d]
  BY <1>2, <1>8, Zenon DEF DbInv, IsHistory, TablesOf
<1>10. PICK db, image : db = loaded[d] /\ image = disk[d]
  BY Zenon
<1>11. IsDb(db) /\ IsImage(image) /\ (mode # "file" => image.catalog = NoFile)
  BY <1>2, <1>10, Zenon DEF InMemory, OnDisk
<1>12. d \notin doubtful => /\ Good(db.catalog) /\ Shown(db.catalog) = w.tables
                            /\ HasPermissions(db.catalog)
                            /\ d = "qindb" => HasUsers(db.catalog)
  BY <1>2, <1>9, <1>10, Zenon DEF InMemory, Held, UsersThere, Manager
<1>13. Keeps(n, [TablesOf(wanted) EXCEPT ![d] = w.tables], R) /\ UsersThere(n, R)
  BY <1>2, <1>3, <1>5, <1>6, <1>7, <1>10, <1>11, <1>12, SaveStep, SMTT(30)
<1>14. Set(n) /\ doubtful' = R /\ UNCHANGED <<mode, status>>
  BY <1>1, <1>3, <1>4, <1>6, <1>7, Zenon DEF Save, Unsure
<1>15. wanted' = [wanted EXCEPT ![d] = w] /\ durable' = [durable EXCEPT ![d] = w]
  BY <1>1, <1>2, <1>8, Zenon DEF Save, DbInv, IsHistory, IsMap
<1>16. RefusedOnlyAfterAFault'
  BY <1>2, <1>14, Zenon DEF RefusedOnlyAfterAFault, Up
<1> QED
  BY <1>2, <1>9, <1>13, <1>14, <1>15, <1>16, OneStep, Zenon

\* The current database of a statement on its catalog.
LEMMA SelectedIs ==
  ASSUME DbInv, Selected
  PROVE  LET db == loaded[current]
         IN  /\ current \in Databases /\ IsDb(db) /\ IsWish(wanted[current])
             /\ current \notin doubtful =>
                  /\ Good(db.catalog) /\ Shown(db.catalog) = wanted[current].tables
                  /\ HasPermissions(db.catalog)
                  /\ current = "qindb" => HasUsers(db.catalog)
<1>1. PICK d : d = current
  BY Zenon
<1>2. PICK db : db = loaded[d]
  BY Zenon
<1>3. /\ d \in Databases /\ InMemory(d, db, TablesOf(wanted)[d], doubtful)
      /\ d \in DOMAIN loaded /\ UsersThere(Manager, doubtful) /\ IsWish(wanted[d])
      /\ TablesOf(wanted)[d] = wanted[d].tables
  BY <1>1, <1>2, Zenon DEF Selected, Serving, DbInv, Keeps, Manager, IsHistory, TablesOf
<1>4. d = "qindb" /\ d \notin doubtful => HasUsers(db.catalog)
  BY <1>2, <1>3, Zenon DEF UsersThere, Manager
<1>5. IsDb(db) /\ (d \notin doubtful => Good(db.catalog) /\ Shown(db.catalog) = wanted[d].tables
                                        /\ HasPermissions(db.catalog))
  BY <1>3, Zenon DEF InMemory, Held
<1> QED
  BY <1>1, <1>2, <1>3, <1>4, <1>5

\* A loaded database with another catalog.
LEMMA CatalogSet ==
  ASSUME NEW db, IsDb(db), NEW c
  PROVE  LET x == [db EXCEPT !.catalog = c] IN IsDb(x) /\ x.catalog = c
<1>1. PICK g, h, i : db = [catalog |-> g, sys |-> h, pages |-> i]
  BY Zenon DEF IsDb
<1>2. PICK x : x = [db EXCEPT !.catalog = c]
  BY Zenon
<1>3. x = [catalog |-> c, sys |-> h, pages |-> i]
  BY <1>1, <1>2, Zenon
<1>4. IsDb(x) /\ x.catalog = c
  BY <1>3, Zenon DEF IsDb
<1> QED
  BY <1>2, <1>4, Zenon

\* A loaded database with other pages.
LEMMA PagesSet ==
  ASSUME NEW db, IsDb(db), NEW p
  PROVE  LET x == [db EXCEPT !.pages = p] IN IsDb(x) /\ x.catalog = db.catalog
<1>1. PICK g, h, i : db = [catalog |-> g, sys |-> h, pages |-> i]
  BY Zenon DEF IsDb
<1>2. PICK x : x = [db EXCEPT !.pages = p]
  BY Zenon
<1>3. x = [catalog |-> g, sys |-> h, pages |-> p]
  BY <1>1, <1>2, Zenon
<1>4. IsDb(x) /\ x.catalog = db.catalog
  BY <1>1, <1>3, Zenon DEF IsDb
<1> QED
  BY <1>2, <1>4, Zenon

\* CREATE TABLE
LEMMA CreateTableInv ==
  ASSUME DbInv, NEW t \in Tables, CreateTable(t)
  PROVE  DbInv'
<1>1. PICK old : old = loaded[current]
  BY Zenon
<1>2. PICK c : c = old.catalog
  BY Zenon
<1>3. PICK n : n = createTable(c, t, TableDef(Len(old.pages) + 1, 1))
  BY Zenon
<1>4. PICK x : x = [old EXCEPT !.catalog = n]
  BY Zenon
<1>5. PICK p : p = Append(old.pages, TablePageInit)
  BY Zenon
<1>6. PICK db : db = [x EXCEPT !.pages = p]
  BY Zenon
<1>7. PICK w : w = [wanted[current] EXCEPT !.tables = With(@, t, {})]
  BY Zenon
<1>8. Selected /\ ~tableExists(c, t)
  BY <1>1, <1>2, Zenon DEF CreateTable
<1>9. db = [old EXCEPT !.catalog = createTable(@, t, TableDef(Len(old.pages) + 1, 1)),
                       !.pages = Append(@, TablePageInit)]
  BY <1>2, <1>3, <1>4, <1>5, <1>6, Zenon
<1>10. ChangeCatalog(db, w, FALSE)
  BY <1>1, <1>7, <1>9, Zenon DEF CreateTable
<1>11. IsDb(old) /\ IsWish(wanted[current])
  BY <1>1, <1>8, SelectedIs, Zenon
<1>12. IsDb(db) /\ db.catalog = n
  <2>1. IsDb(x) /\ x.catalog = n
    BY <1>4, <1>11, CatalogSet, Zenon
  <2> QED
    BY <1>6, <2>1, PagesSet, Zenon
<1>13. IsWish(w) /\ w.tables = With(wanted[current].tables, t, {})
  BY <1>7, <1>11, WishTables, Zenon
<1>14. t \notin SystemTables
  BY DatabasesAssumption, Zenon
<1>15. ASSUME current \notin doubtful
       PROVE  /\ Good(n) /\ Shown(n) = w.tables /\ HasPermissions(n)
              /\ current = "qindb" => HasUsers(n)
  <2>1. /\ Good(c) /\ Shown(c) = wanted[current].tables /\ HasPermissions(c)
        /\ current = "qindb" => HasUsers(c)
    BY <1>1, <1>2, <1>8, <1>15, SelectedIs
  <2>2. Good(n)
    BY <1>3, <1>8, <2>1, CreateTableKeeps, SMTT(30)
  <2>3. Shown(n) = w.tables
    BY <1>3, <1>13, <1>14, <2>1, ShownCreateTable DEF Good
  <2>4. DOMAIN n.tables = DOMAIN c.tables \cup {t}
    BY <1>3, <2>1, Zenon DEF createTable, With, Good, IsCatalog
  <2> QED
    BY <2>1, <2>2, <2>3, <2>4 DEF HasPermissions, HasUsers
<1> QED
  BY <1>8, <1>10, <1>12, <1>13, <1>15, ChangeKeeps, Zenon

\* DROP TABLE
LEMMA DropTableInv ==
  ASSUME DbInv, NEW t \in Tables, DropTable(t)
  PROVE  DbInv'
<1>1. PICK old : old = loaded[current]
  BY Zenon
<1>2. PICK c : c = old.catalog
  BY Zenon
<1>3. PICK n : n = dropTable(c, t)
  BY Zenon
<1>4. PICK db : db = [old EXCEPT !.catalog = n]
  BY Zenon
<1>7. PICK w : w = [wanted[current] EXCEPT !.tables = Without(@, {t})]
  BY Zenon
<1>8. Selected
  BY Zenon DEF DropTable
<1>10. ChangeCatalog(db, w, FALSE)
  BY <1>1, <1>2, <1>3, <1>4, <1>7, Zenon DEF DropTable
<1>11. IsDb(old) /\ IsWish(wanted[current])
  BY <1>1, <1>8, SelectedIs
<1>12. IsDb(db) /\ db.catalog = n
  BY <1>4, <1>11, CatalogSet, Zenon
<1>13. IsWish(w) /\ w.tables = Without(wanted[current].tables, {t})
  BY <1>7, <1>11, WishTables, Zenon
<1>14. t \notin SystemTables
  BY DatabasesAssumption, Zenon
<1>15. ASSUME current \notin doubtful
       PROVE  /\ Good(n) /\ Shown(n) = w.tables /\ HasPermissions(n)
              /\ current = "qindb" => HasUsers(n)
  <2>1. /\ Good(c) /\ Shown(c) = wanted[current].tables /\ HasPermissions(c)
        /\ current = "qindb" => HasUsers(c)
    BY <1>1, <1>2, <1>8, <1>15, SelectedIs
  <2>2. Good(n)
    BY <1>3, <2>1, DropTableKeeps, Zenon
  <2>3. Shown(n) = w.tables
    BY <1>3, <1>13, <2>1, ShownDropTable
  <2>4. DOMAIN n.tables = DOMAIN c.tables \ {t}
    BY <1>3, Zenon DEF dropTable, Without, Restrict
  <2> QED
    BY <1>14, <2>1, <2>2, <2>3, <2>4, Zenon DEF HasPermissions, HasUsers, SystemTables
<1> QED
  BY <1>8, <1>10, <1>12, <1>13, <1>15, ChangeKeeps, Zenon

\* CREATE INDEX
LEMMA CreateIndexInv ==
  ASSUME DbInv, NEW i \in IndexNames, NEW t \in Tables, CreateIndex(i, t)
  PROVE  DbInv'
<1>1. PICK old : old = loaded[current]
  BY Zenon
<1>2. PICK c : c = old.catalog
  BY Zenon
<1>3. PICK n : n = createIndex(c, i, t)
  BY Zenon
<1>4. PICK db : db = [old EXCEPT !.catalog = n]
  BY Zenon
<1>5. PICK o : o = wanted[current].tables
  BY Zenon
<1>6. PICK a : a = With(o, t, (IF t \in DOMAIN o THEN o[t] ELSE {}) \cup {i})
  BY Zenon
<1>7. PICK w : w = [wanted[current] EXCEPT !.tables = a]
  BY Zenon
<1>8. Selected /\ tableExists(c, t) /\ ~indexExists(c, i)
  BY <1>1, <1>2, Zenon DEF CreateIndex
<1>10. ChangeCatalog(db, w, TRUE)
  BY <1>1, <1>2, <1>3, <1>4, <1>5, <1>6, <1>7, Zenon DEF CreateIndex
<1>11. IsDb(old) /\ IsWish(wanted[current])
  BY <1>1, <1>8, SelectedIs
<1>12. IsDb(db) /\ db.catalog = n
  BY <1>4, <1>11, CatalogSet, Zenon
<1>13. IsWish(w) /\ w.tables = a
  BY <1>7, <1>11, WishTables, Zenon
<1>14. t \notin SystemTables
  BY DatabasesAssumption, Zenon
<1>15. ASSUME current \notin doubtful
       PROVE  /\ Good(n) /\ Shown(n) = w.tables /\ HasPermissions(n)
              /\ current = "qindb" => HasUsers(n)
  <2>1. /\ Good(c) /\ Shown(c) = o /\ HasPermissions(c)
        /\ current = "qindb" => HasUsers(c)
    BY <1>1, <1>2, <1>5, <1>8, <1>15, SelectedIs
  <2>2. Good(n)
    BY <1>3, <1>8, <2>1, CreateIndexKeeps, SMTT(30)
  <2>3. t \in DOMAIN o /\ Shown(n) = With(o, t, o[t] \cup {i})
    BY <1>3, <1>8, <1>14, <2>1, ShownCreateIndex DEF Good
  <2>4. DOMAIN n.tables = DOMAIN c.tables
    BY <1>3, Zenon DEF createIndex
  <2> QED
    BY <1>6, <1>13, <2>1, <2>2, <2>3, <2>4 DEF HasPermissions, HasUsers
<1> QED
  BY <1>8, <1>10, <1>12, <1>13, <1>15, ChangeKeeps, Zenon

\* DROP INDEX
LEMMA DropIndexInv ==
  ASSUME DbInv, NEW i \in IndexNames, DropIndex(i)
  PROVE  DbInv'
<1>1. PICK old : old = loaded[current]
  BY Zenon
<1>2. PICK c : c = old.catalog
  BY Zenon
<1>3. PICK n : n = dropIndex(c, i)
  BY Zenon
<1>4. PICK db : db = [old EXCEPT !.catalog = n]
  BY Zenon
<1>5. PICK o : o = wanted[current].tables
  BY Zenon
<1>6. PICK a : a = [t \in DOMAIN o |-> o[t] \ {i}]
  BY Zenon
<1>7. PICK w : w = [wanted[current] EXCEPT !.tables = a]
  BY Zenon
<1>8. Selected /\ indexExists(c, i)
  BY <1>1, <1>2 DEF DropIndex
<1>10. ChangeCatalog(db, w, FALSE)
  BY <1>1, <1>2, <1>3, <1>4, <1>5, <1>6, <1>7, Zenon DEF DropIndex
<1>11. IsDb(old) /\ IsWish(wanted[current])
  BY <1>1, <1>8, SelectedIs
<1>12. IsDb(db) /\ db.catalog = n
  BY <1>4, <1>11, CatalogSet, Zenon
<1>13. IsWish(w) /\ w.tables = a
  BY <1>7, <1>11, WishTables, Zenon
<1>15. ASSUME current \notin doubtful
       PROVE  /\ Good(n) /\ Shown(n) = w.tables /\ HasPermissions(n)
              /\ current = "qindb" => HasUsers(n)
  <2>1. /\ Good(c) /\ Shown(c) = o /\ HasPermissions(c)
        /\ current = "qindb" => HasUsers(c)
    BY <1>1, <1>2, <1>5, <1>8, <1>15, SelectedIs, SMTT(30)
  <2>2. Good(n)
    BY <1>3, <1>8, <2>1, DropIndexKeeps, Zenon
  <2>3. Shown(n) = a
    BY <1>3, <1>6, <1>8, <2>1, ShownDropIndex, SMTT(30)
  <2>4. DOMAIN n.tables = DOMAIN c.tables
    BY <1>3, Zenon DEF dropIndex
  <2> QED
    BY <1>13, <2>1, <2>2, <2>3, <2>4, SMTT(30) DEF HasPermissions, HasUsers
<1> QED
  BY <1>8, <1>10, <1>12, <1>13, <1>15, ChangeKeeps, Zenon

\* Users and permissions: the catalogs stay as they are.
LEMMA ChangePagesInv ==
  ASSUME DbInv, Up, NEW m, Keeps(m, TablesOf(wanted), doubtful), UsersThere(m, doubtful),
         NEW d \in DOMAIN m.loaded, NEW pages, NEW w, IsWish(w), w.tables = wanted[d].tables,
         ChangePages(m, d, pages, w)
  PROVE  DbInv'
<1>1. PICK old : old = m.loaded[d]
  BY Zenon
<1>2. PICK db : db = [old EXCEPT !.pages = pages]
  BY Zenon
<1>3. PICK v : v = TablesOf(wanted)
  BY Zenon
<1>4. /\ d \in Databases /\ InMemory(d, old, v[d], doubtful) /\ OnDisk(d, m.disk[d], v[d], doubtful)
      /\ d \notin doubtful => m.disk[d].data
  BY <1>1, <1>3, Zenon DEF Keeps
<1>5. IsDb(db) /\ db.catalog = old.catalog
  BY <1>2, <1>4, PagesSet, Zenon DEF InMemory
<1>6. InMemory(d, db, v[d], doubtful)
  BY <1>4, <1>5, Zenon DEF InMemory
<1>7. PICK n : n = Put(m, d, db, m.disk[d])
  BY Zenon
<1>8. Keeps(n, v, doubtful)
  BY <1>3, <1>4, <1>6, <1>7, PutKeeps, Zenon DEF Elsewhere
<1>9. d = "qindb" /\ d \notin doubtful => HasUsers(db.catalog)
  BY <1>1, <1>5, Zenon DEF UsersThere
<1>10. UsersThere(n, doubtful)
  BY <1>4, <1>7, <1>9, PutUsers, Zenon
<1>11. IsHistory(wanted) /\ IsHistory(durable) /\ TablesOf(wanted) = TablesOf(durable)
  BY Zenon DEF DbInv
<1>12. PICK y : y = durable[d]
  BY Zenon
<1>13. IsWish(y) /\ y.tables = w.tables
  <2>1. TablesOf(wanted)[d] = wanted[d].tables /\ TablesOf(durable)[d] = durable[d].tables
    BY <1>4, Zenon DEF TablesOf
  <2> QED
    BY <1>4, <1>11, <1>12, <2>1, Zenon DEF IsHistory
<1>14. [v EXCEPT ![d] = w.tables] = v
  BY <1>3, <1>4, Zenon DEF TablesOf
<1>15. Keeps(n, [TablesOf(wanted) EXCEPT ![d] = w.tables], doubtful)
  BY <1>3, <1>8, <1>14, Zenon
<1>16. /\ Set(n) /\ UNCHANGED <<mode, status, durable, doubtful>>
       /\ wanted' = [wanted EXCEPT ![d] = w]
  BY <1>1, <1>2, <1>7, Zenon DEF ChangePages, Expect
<1>17. durable' = [durable EXCEPT ![d] = y]
  BY <1>4, <1>11, <1>12, <1>16, Zenon DEF IsHistory, IsMap
<1>18. RefusedOnlyAfterAFault' /\ doubtful' = doubtful
  BY <1>16, Zenon DEF RefusedOnlyAfterAFault, Up
<1> QED
  BY <1>4, <1>10, <1>13, <1>15, <1>16, <1>17, <1>18, OneStep, Zenon

\* The users are in the system database.
LEMMA ChangeUsersInv ==
  ASSUME DbInv, Serving, NEW pages, NEW users, ChangeUsers(pages, users)
  PROVE  DbInv'
<1>1. PICK w : w = [wanted["qindb"] EXCEPT !.users = users]
  BY Zenon
<1>2. "qindb" \in Databases
  BY DatabasesAssumption, Zenon DEF Databases
<1>3. IsWish(wanted["qindb"])
  BY <1>2, Zenon DEF DbInv, IsHistory
<1>4. IsWish(w) /\ w.tables = wanted["qindb"].tables
  BY <1>1, <1>3, WishUsers, Zenon
<1>5. PICK m : m = Manager
  BY Zenon
<1>6. /\ Up /\ Keeps(m, TablesOf(wanted), doubtful) /\ UsersThere(m, doubtful)
      /\ "qindb" \in DOMAIN m.loaded
  BY <1>5, Zenon DEF DbInv, Serving, Manager
<1>7. ChangePages(m, "qindb", pages, w)
  BY <1>1, <1>5, Zenon DEF ChangeUsers
<1> QED
  BY <1>4, <1>6, <1>7, ChangePagesInv, Zenon

\* CREATE, DROP and ALTER USER
LEMMA UsersInv ==
  ASSUME DbInv, NEW name, NEW password, NEW admin,
         \/ CreateUser(name, password, admin) \/ DropUser(name) \/ AlterUser(name, password)
  PROVE  DbInv'
<1>1. CASE CreateUser(name, password, admin)
  BY <1>1, ChangeUsersInv, Zenon DEF CreateUser
<1>2. CASE DropUser(name)
  BY <1>2, ChangeUsersInv, Zenon DEF DropUser
<1>3. CASE AlterUser(name, password)
  BY <1>3, ChangeUsersInv, Zenon DEF AlterUser
<1> QED
  BY <1>1, <1>2, <1>3, Zenon

\* The current database is switched twice to look a table up.
LEMMA SwitchedBackKeeps ==
  ASSUME DbInv, Serving, NEW g
  PROVE  /\ Keeps(SwitchedBack(g), TablesOf(wanted), doubtful) /\ LoadsMore(Manager, SwitchedBack(g))
         /\ UsersThere(SwitchedBack(g), doubtful)
<1>1. PICK v : v = TablesOf(wanted)
  BY Zenon
<1>2. PICK m : m = Manager
  BY Zenon
<1>3. Keeps(m, v, doubtful) /\ UsersThere(m, doubtful) /\ "qindb" \in DOMAIN m.loaded
  BY <1>1, <1>2, Zenon DEF DbInv, Serving, Manager
<1>4. PICK there : there = Switched(g)
  BY Zenon
<1>5. there = m \/ there = useDatabase(m, g.db)
  BY <1>2, <1>4, ZenonT(30) DEF Switched
<1>6. Keeps(there, v, doubtful) /\ LoadsMore(m, there)
  BY <1>3, <1>5, UseKeeps DEF LoadsMore
<1>7. PICK back : back = SwitchedBack(g)
  BY Zenon
<1>8. back = m \/ back = useDatabase(there, current)
  BY <1>2, <1>4, <1>7, Zenon DEF SwitchedBack
<1>9. Keeps(back, v, doubtful) /\ LoadsMore(m, back)
  <2>1. CASE back = m
    BY <1>3, <2>1, Zenon DEF LoadsMore
  <2>2. CASE back = useDatabase(there, current)
    <3>1. Keeps(back, v, doubtful) /\ LoadsMore(there, back)
      BY <1>6, <2>2, UseKeeps, Zenon
    <3> QED
      BY <1>6, <3>1, Zenon DEF LoadsMore
  <2> QED
    BY <1>8, <2>1, <2>2, Zenon
<1>10. UsersThere(back, doubtful)
  BY <1>3, <1>9, LoadsMoreUsers, Zenon
<1> QED
  BY <1>1, <1>2, <1>7, <1>9, <1>10, Zenon

\* GRANT
LEMMA GrantInv ==
  ASSUME DbInv, NEW g, Grant(g)
  PROVE  DbInv'
<1>1. PICK m : m = SwitchedBack(g)
  BY Zenon
<1>2. PICK d : d = manager
  BY Zenon
<1>3. PICK w : w = [wanted[d] EXCEPT !.grants = @ \cup {g}]
  BY Zenon
<1>4. PICK pages : pages = grantPermission(m.loaded[d].pages, PermissionsPage(m.loaded[d]), g)
  BY Zenon
<1>5. Serving /\ Up /\ d \in DOMAIN loaded
  BY <1>2, Zenon DEF Grant, CanGrant, Serving
<1>6. ChangePages(m, d, pages, w)
  BY <1>1, <1>2, <1>3, <1>4, Zenon DEF Grant
<1>7. Keeps(m, TablesOf(wanted), doubtful) /\ LoadsMore(Manager, m) /\ UsersThere(m, doubtful)
  BY <1>1, <1>5, SwitchedBackKeeps, Zenon
<1>8. d \in DOMAIN m.loaded /\ d \in Databases
  BY <1>5, <1>7, Zenon DEF LoadsMore, Manager, Keeps
<1>9. IsWish(w) /\ w.tables = wanted[d].tables
  <2>1. IsWish(wanted[d])
    BY <1>8, Zenon DEF DbInv, IsHistory
  <2> QED
    BY <1>3, <2>1, WishGrants, Zenon
<1> QED
  BY <1>5, <1>6, <1>7, <1>8, <1>9, ChangePagesInv, Zenon

\* REVOKE
LEMMA RevokeInv ==
  ASSUME DbInv, NEW g, Revoke(g)
  PROVE  DbInv'
<1>1. PICK m : m = Manager
  BY Zenon
<1>2. PICK d : d = manager
  BY Zenon
<1>3. PICK w : w = [wanted[d] EXCEPT !.grants = @ \ {g}]
  BY Zenon
<1>4. PICK pages : pages = revokePermission(loaded[d].pages, PermissionsPage(loaded[d]), g)
  BY Zenon
<1>5. Serving /\ Up /\ d \in DOMAIN loaded
  BY <1>2, Zenon DEF Revoke, CanGrant, Serving
<1>6. ChangePages(m, d, pages, w)
  BY <1>1, <1>2, <1>3, <1>4, Zenon DEF Revoke
<1>7. Keeps(m, TablesOf(wanted), doubtful) /\ UsersThere(m, doubtful)
  BY <1>1, <1>5, Zenon DEF DbInv
<1>8. d \in DOMAIN m.loaded /\ d \in Databases
  BY <1>1, <1>5, <1>7, Zenon DEF Manager, Keeps
<1>9. IsWish(w) /\ w.tables = wanted[d].tables
  <2>1. IsWish(wanted[d])
    BY <1>8, Zenon DEF DbInv, IsHistory
  <2> QED
    BY <1>3, <2>1, WishGrants, Zenon
<1> QED
  BY <1>5, <1>6, <1>7, <1>8, <1>9, ChangePagesInv, SMTT(30)

\* GRANT on a table that is not seen
LEMMA GrantRefusedInv ==
  ASSUME DbInv, NEW g, GrantRefused(g)
  PROVE  DbInv'
<1>1. PICK m : m = SwitchedBack(g)
  BY Zenon
<1>2. Serving /\ Up /\ Set(m) /\ UNCHANGED <<mode, status, wanted, durable, doubtful>>
  BY <1>1, Zenon DEF GrantRefused, CanGrant, Serving, history
<1>3. Keeps(m, TablesOf(wanted), doubtful) /\ UsersThere(m, doubtful)
  BY <1>1, <1>2, SwitchedBackKeeps, Zenon
<1>4. RefusedOnlyAfterAFault' /\ doubtful' = doubtful
  BY <1>2, Zenon DEF RefusedOnlyAfterAFault, Up
<1> QED
  BY <1>2, <1>3, <1>4, SameStep, SMTT(30)

\* USE
LEMMA UseInv ==
  ASSUME DbInv, NEW d \in Databases, Use(d)
  PROVE  DbInv'
<1>1. PICK m : m = useDatabase(Manager, d)
  BY Zenon
<1>2. /\ Serving /\ Up /\ Set(m) /\ UNCHANGED <<mode, status, wanted, durable, doubtful>>
      /\ "qindb" \in DOMAIN Manager.loaded
  BY <1>1, Zenon DEF Use, Serving, history, Manager
<1>3. Keeps(Manager, TablesOf(wanted), doubtful) /\ UsersThere(Manager, doubtful)
  BY <1>2, Zenon DEF DbInv
<1>4. Keeps(m, TablesOf(wanted), doubtful) /\ LoadsMore(Manager, m)
  BY <1>1, <1>3, UseKeeps, SMTT(30)
<1>5. UsersThere(m, doubtful)
  BY <1>2, <1>3, <1>4, LoadsMoreUsers, Zenon
<1>6. RefusedOnlyAfterAFault' /\ doubtful' = doubtful
  BY <1>2, Zenon DEF RefusedOnlyAfterAFault, Up
<1> QED
  BY <1>2, <1>4, <1>5, <1>6, SameStep, SMTT(30)

\* CREATE DATABASE
LEMMA CreateDatabaseInv ==
  ASSUME DbInv, NEW d \in Databases, CreateDatabase(d)
  PROVE  DbInv'
<1>1. PICK m : m = Manager
  BY Zenon
<1>2. PICK n : n = createDatabase(m, d)
  BY Zenon
<1>3. PICK R : R = doubtful \ {d}
  BY Zenon
<1>4. PICK x : x = FreshlyWanted(d)
  BY Zenon
<1>5. PICK y : y = DurableAfter(x, mode = "database", Nothing)
  BY Zenon
<1>6. IsWish(x) /\ x.tables = NoDefs /\ IsWish(y) /\ y.tables = x.tables
  BY <1>4, <1>5, FreshIs, NothingIs, DurableIs
<1>7. /\ Up /\ "qindb" \in DOMAIN m.loaded /\ d \notin DOMAIN m.loaded
      /\ Set(n) /\ UNCHANGED <<mode, status>> /\ doubtful' = R
      /\ wanted' = [wanted EXCEPT ![d] = x] /\ durable' = [durable EXCEPT ![d] = y]
  BY <1>1, <1>2, <1>3, <1>4, <1>5, Zenon DEF CreateDatabase, Serving, Manager, Expect
<1>8. Keeps(m, TablesOf(wanted), doubtful) /\ UsersThere(m, doubtful) /\ IsHistory(wanted)
  BY <1>1, <1>7, Zenon DEF DbInv
<1>9. PICK v : v = [TablesOf(wanted) EXCEPT ![d] = x.tables]
  BY Zenon
<1>10. Elsewhere(d, TablesOf(wanted), doubtful, v, R) /\ v[d] = NoDefs
  BY <1>3, <1>6, <1>8, <1>9, ElsewhereIs, ZenonT(30)
<1>11. /\ Keeps(n, v, R) /\ DOMAIN n.loaded = DOMAIN m.loaded \cup {d}
       /\ \A e \in DOMAIN m.loaded \ {d} : n.loaded[e] = m.loaded[e]
  BY <1>2, <1>8, <1>10, CreateKeeps, SMTT(30)
<1>12. UsersThere(n, R)
  BY <1>3, <1>7, <1>8, <1>11, Zenon DEF UsersThere
<1>13. RefusedOnlyAfterAFault'
  BY <1>7, Zenon DEF RefusedOnlyAfterAFault, Up
<1> QED
  BY <1>6, <1>7, <1>9, <1>11, <1>12, <1>13, OneStep, Zenon

\* The users' table stays, when another database is closed.
LEMMA WithoutUsers ==
  ASSUME NEW m, NEW n, NEW d, NEW S, NEW R, n.loaded = Without(m.loaded, {d}), UsersThere(m, S),
         \A e \in S \ {d} : e \in R
  PROVE  UsersThere(n, R)
<1>1. DOMAIN n.loaded = DOMAIN m.loaded \ {d} /\ \A e \in DOMAIN n.loaded : n.loaded[e] = m.loaded[e]
  BY Zenon DEF Without, Restrict
<1> QED
  BY <1>1, Zenon DEF UsersThere

\* DROP DATABASE
LEMMA DropDatabaseInv ==
  ASSUME DbInv, NEW d \in Databases, DropDatabase(d)
  PROVE  DbInv'
<1>1. PICK m : m = Manager
  BY Zenon
<1>2. PICK n : n = dropDatabase(m, d)
  BY Zenon
<1>3. PICK R : R = doubtful \ {d}
  BY Zenon
<1>4. PICK x : x = Nothing
  BY Zenon
<1>5. IsWish(x) /\ x.tables = NoDefs
  BY <1>4, NothingIs, Zenon
<1>6. /\ Up /\ Set(n) /\ UNCHANGED <<mode, status>> /\ doubtful' = R
      /\ wanted' = [wanted EXCEPT ![d] = x] /\ durable' = [durable EXCEPT ![d] = x]
  BY <1>1, <1>2, <1>3, <1>4, Zenon DEF DropDatabase, Serving, Expect
<1>7. Keeps(m, TablesOf(wanted), doubtful) /\ UsersThere(m, doubtful) /\ IsHistory(wanted)
  BY <1>1, <1>6, Zenon DEF DbInv
<1>8. PICK v : v = [TablesOf(wanted) EXCEPT ![d] = x.tables]
  BY Zenon
<1>9. Elsewhere(d, TablesOf(wanted), doubtful, v, R) /\ v[d] = NoDefs
  BY <1>3, <1>5, <1>7, <1>8, ElsewhereIs, Zenon
<1>10. Keeps(n, v, R) /\ n.loaded = Without(m.loaded, {d})
  BY <1>2, <1>7, <1>9, DropKeeps, Zenon
<1>11. UsersThere(n, R)
  BY <1>3, <1>7, <1>10, WithoutUsers, Zenon
<1>12. RefusedOnlyAfterAFault'
  BY <1>6, Zenon DEF RefusedOnlyAfterAFault, Up
<1> QED
  BY <1>5, <1>6, <1>8, <1>10, <1>11, <1>12, OneStep, Zenon

\* Whatever is left of a directory is one, without promises.
LEMMA RemainsKeep ==
  ASSUME NEW d, NEW image, NEW w, NEW S, OnDisk(d, image, w, S), NEW x \in Remains(image),
         NEW v, NEW R, d \in R
  PROVE  OnDisk(d, x, v, R)
<1>1. IsImage(image) /\ (mode # "file" => image.catalog = NoFile)
  BY Zenon DEF OnDisk
<1>2. PICK a, b, e, f : image = [data |-> a, catalog |-> b, sys |-> e, pages |-> f]
  BY <1>1, Zenon DEF IsImage
<1>3. NoDirectory.catalog = NoFile
  BY Zenon DEF NoDirectory
<1>4. IsImage(x) /\ x.catalog \in {image.catalog, NoFile}
  <2>1. CASE x = image
    BY <1>1, <2>1, Zenon
  <2>2. CASE x = [image EXCEPT !.catalog = NoFile]
    <3>1. x = [data |-> a, catalog |-> NoFile, sys |-> e, pages |-> f]
      BY <1>2, <2>2, Zenon
    <3> QED
      BY <3>1, Zenon DEF IsImage
  <2>3. CASE x = [NoDirectory EXCEPT !.catalog = image.catalog]
    <3>1. PICK g, h, i, j : NoDirectory = [data |-> g, catalog |-> h, sys |-> i, pages |-> j]
      BY Zenon DEF NoDirectory
    <3>2. x = [data |-> g, catalog |-> image.catalog, sys |-> i, pages |-> j]
      BY <2>3, <3>1, Zenon
    <3> QED
      BY <3>2, Zenon DEF IsImage
  <2>4. CASE x = NoDirectory
    BY <1>3, <2>4, Zenon DEF NoDirectory, IsImage
  <2> QED
    BY <2>1, <2>2, <2>3, <2>4, Zenon DEF Remains
<1>5. mode # "file" => x.catalog = NoFile
  BY <1>1, <1>3, <1>4, Zenon
<1> QED
  BY <1>4, <1>5, Zenon DEF OnDisk

\* DROP DATABASE, with a part of the directory left
LEMMA DropDatabaseFailsInv ==
  ASSUME DbInv, NEW d \in Databases, DropDatabaseFails(d)
  PROVE  DbInv'
<1>1. PICK m : m = Manager
  BY Zenon
<1>2. PICK R : R = doubtful \cup {d}
  BY Zenon
<1>3. PICK v : v = TablesOf(wanted)
  BY Zenon
<1>4. d \in DOMAIN m.loaded /\ Up /\ Keeps(m, v, doubtful) /\ UsersThere(m, doubtful)
  BY <1>1, <1>3, Zenon DEF DropDatabaseFails, Serving, DbInv, Manager
<1>5. PICK image \in Closed(m, d) : \E x \in Remains(image) : Set(Unloaded(m, d, x))
  BY <1>1, Zenon DEF DropDatabaseFails, Unloaded
<1>6. PICK x \in Remains(image) : Set(Unloaded(m, d, x))
  BY <1>5, Zenon
<1>7. OnDisk(d, image, v[d], doubtful)
  BY <1>4, <1>5, ClosedKeeps, Zenon
<1>8. OnDisk(d, x, v[d], R)
  BY <1>2, <1>7, RemainsKeep, Zenon
<1>9. PICK n : n = Unloaded(m, d, x)
  BY Zenon
<1>10. Keeps(n, v, R) /\ n.loaded = Without(m.loaded, {d})
  <2>1. Elsewhere(d, v, doubtful, v, R)
    BY <1>2, Zenon DEF Elsewhere
  <2>2. IsUnloaded(m, d, x, n)
    BY <1>9, Zenon DEF IsUnloaded
  <2>3. IsLess(m, d, n) /\ Keeps(n, v, R)
    BY <1>4, <1>8, <2>1, <2>2, UnloadKeeps, Zenon
  <2> QED
    BY <2>3, Zenon DEF IsLess
<1>11. UsersThere(n, R)
  BY <1>2, <1>4, <1>10, WithoutUsers, Zenon
<1>12. Set(n) /\ UNCHANGED <<mode, status, wanted, durable>> /\ doubtful' = R
  BY <1>2, <1>6, <1>9, Zenon DEF DropDatabaseFails, Unsure
<1>13. RefusedOnlyAfterAFault'
  BY <1>4, <1>12, Zenon DEF RefusedOnlyAfterAFault, Up
<1> QED
  BY <1>3, <1>10, <1>11, <1>12, <1>13, SameStep, SMTT(30)

\* The start of the process
LEMMA StartInv ==
  ASSUME DbInv, Start
  PROVE  DbInv'
<1>1. PICK q : q = "qindb"
  BY Zenon
<1>2. PICK m : m = loadFromDisk(Manager)
  BY Zenon
<1>3. PICK created : created = ~databaseExists(m, q)
  BY Zenon
<1>4. PICK base : base = IF created THEN FreshlyWanted(q) ELSE wanted[q]
  BY Zenon
<1>5. PICK users : users = IF DOMAIN base.users = {} THEN "admin" :> NewUser("admin", TRUE) ELSE base.users
  BY Zenon
<1>6. PICK x : x = [base EXCEPT !.users = users]
  BY Zenon
<1>7. PICK y : y = IF created THEN DurableAfter(base, mode = "database", Nothing) ELSE durable[q]
  BY Zenon
<1>8. PICK R : R = IF created THEN doubtful \ {q} ELSE doubtful
  BY Zenon
<1>9. PICK n : n = SwitchBack(WithAuthManager(WithSystemDatabase(m)), m.current)
  BY Zenon
<1>10. /\ ~StartRefused(m) /\ Set(n) /\ status' = "up" /\ UNCHANGED mode /\ doubtful' = R
       /\ wanted' = [wanted EXCEPT ![q] = x]
  BY <1>1, <1>2, <1>3, <1>4, <1>5, <1>6, <1>8, <1>9, Zenon DEF Start, Expect
<1>11. durable' = [durable EXCEPT ![q] = y]
  BY <1>1, <1>2, <1>3, <1>4, <1>7, Zenon DEF Start
<1>12. q \in Databases
  BY <1>1, DatabasesAssumption DEF Databases
<1>13. IsHistory(wanted) /\ IsHistory(durable) /\ TablesOf(wanted) = TablesOf(durable)
       /\ Keeps(Manager, TablesOf(wanted), doubtful)
  BY Zenon DEF DbInv
<1>14. /\ IsWish(wanted[q]) /\ IsWish(durable[q]) /\ durable[q].tables = wanted[q].tables
       /\ TablesOf(wanted)[q] = wanted[q].tables
  <2>1. TablesOf(wanted)[q] = wanted[q].tables /\ TablesOf(durable)[q] = durable[q].tables
    BY <1>12, Zenon DEF TablesOf
  <2> QED
    BY <1>12, <1>13, <2>1, Zenon DEF IsHistory
<1>15. IsWish(base) /\ (created => base.tables = NoDefs)
  BY <1>4, <1>14, FreshIs, Zenon
<1>16. IsWish(x) /\ x.tables = base.tables
  BY <1>6, <1>15, WishUsers, Zenon
<1>17. IsWish(y) /\ y.tables = x.tables
  BY <1>4, <1>7, <1>14, <1>15, <1>16, NothingIs, DurableIs
<1>18. PICK v : v = [TablesOf(wanted) EXCEPT ![q] = x.tables]
  BY Zenon
<1>19. Keeps(m, TablesOf(wanted), doubtful)
  BY <1>2, <1>13, LoadFromDiskKeeps, Zenon
<1>20. ~created => v = TablesOf(wanted) /\ R = doubtful
  BY <1>4, <1>8, <1>14, <1>16, <1>18, Zenon DEF TablesOf
<1>21. created => Elsewhere(q, TablesOf(wanted), doubtful, v, R) /\ v[q] = NoDefs
  BY <1>8, <1>12, <1>13, <1>15, <1>16, <1>18, ElsewhereIs, Zenon
<1>22. Keeps(n, v, R) /\ UsersThere(n, R)
  BY <1>1, <1>3, <1>9, <1>10, <1>19, <1>20, <1>21, StartKeeps, Zenon
<1>23. RefusedOnlyAfterAFault'
  BY <1>10, Zenon DEF RefusedOnlyAfterAFault
<1> QED
  BY <1>10, <1>11, <1>12, <1>16, <1>17, <1>18, <1>22, <1>23, OneStep, Zenon

\* A start is refused only if nothing is promised of the system database.
LEMMA RefuseInv ==
  ASSUME DbInv, RefuseToStart
  PROVE  DbInv'
<1>1. PICK m : m = loadFromDisk(Manager)
  BY Zenon
<1>2. PICK v : v = TablesOf(wanted)
  BY Zenon
<1>3. Keeps(m, v, doubtful)
  BY <1>1, <1>2, LoadFromDiskKeeps, Zenon DEF DbInv
<1>4. PICK closed \in AllClosed(m) : Set([saveToDisk(closed) EXCEPT !.loaded = NoDefs, !.current = ""])
  BY <1>1, Zenon DEF RefuseToStart
<1>5. PICK n : n = [saveToDisk(closed) EXCEPT !.loaded = NoDefs, !.current = ""]
  BY Zenon
<1>6. Keeps(n, v, doubtful) /\ n.loaded = NoDefs
  <2>1. Keeps(closed, v, doubtful)
    BY <1>3, AllClosedKeeps, Zenon
  <2>2. Keeps(saveToDisk(closed), v, doubtful)
    BY <2>1, SaveKeeps, Zenon
  <2> QED
    BY <1>5, <2>2, NoneLoaded, Zenon
<1>7. /\ StartRefused(m) /\ Set(n) /\ status' = "refused"
      /\ UNCHANGED <<mode, wanted, durable, doubtful>>
  BY <1>1, <1>4, <1>5, ZenonT(30) DEF RefuseToStart, history
<1>8. "qindb" \in doubtful
  <2>1. "qindb" \in Databases
    BY DatabasesAssumption, Zenon DEF Databases
  <2>2. OnDisk("qindb", m.disk["qindb"], v["qindb"], doubtful)
    BY <1>3, <2>1, Zenon DEF Keeps
  <2>3. NoFile.state = "missing"
    BY Zenon DEF NoFile
  <2> QED
    BY <1>7, <2>2, <2>3, Zenon DEF OnDisk, StartRefused, databaseExists, CanLoad
<1>9. RefusedOnlyAfterAFault' /\ ~Up' /\ doubtful' = doubtful
  BY <1>7, <1>8, Zenon DEF RefusedOnlyAfterAFault, Up
<1> QED
  BY <1>2, <1>6, <1>7, <1>9, SameStep

-----------------------------------------------------------------------------
\* The ends of the process.

\* Expectations taken from two histories with the same tables.
LEMMA MixedHistory ==
  ASSUME NEW g, IsHistory(g), NEW h, IsHistory(h), TablesOf(g) = TablesOf(h), NEW D
  PROVE  LET x == [d \in Databases |-> IF d \in D THEN g[d] ELSE h[d]]
         IN  IsHistory(x) /\ TablesOf(x) = TablesOf(g)
<1>1. PICK x : x = [d \in Databases |-> IF d \in D THEN g[d] ELSE h[d]]
  BY Zenon
<1>2. \A d \in Databases : g[d].tables = h[d].tables
  <2>1. \A d \in Databases : TablesOf(g)[d] = g[d].tables /\ TablesOf(h)[d] = h[d].tables
    BY Zenon DEF TablesOf
  <2> QED
    BY <2>1, Zenon
<1>3. IsHistory(x)
  BY <1>1, Zenon DEF IsHistory, IsMap
<1>4. TablesOf(x) = TablesOf(g)
  BY <1>1, <1>2, Zenon DEF TablesOf
<1> QED
  BY <1>1, <1>3, <1>4, Zenon

\* The process has ended; its memory is gone.
LEMMA DownKeeps ==
  ASSUME DbInv, NEW m, Keeps(m, TablesOf(wanted), doubtful), Down(m), UNCHANGED doubtful,
         NEW g, IsHistory(g), TablesOf(g) = TablesOf(wanted), wanted' = g,
         NEW h, IsHistory(h), TablesOf(h) = TablesOf(wanted), durable' = h
  PROVE  DbInv'
<1>1. PICK n : n = [m EXCEPT !.loaded = NoDefs, !.current = ""]
  BY Zenon
<1>2. PICK v : v = TablesOf(wanted)
  BY Zenon
<1>3. Keeps(n, v, doubtful)
  BY <1>1, <1>2, NoneLoaded, Zenon
<1>4. Set(n) /\ status' = "down" /\ UNCHANGED mode
  BY <1>1, Zenon DEF Down
<1>5. RefusedOnlyAfterAFault' /\ ~Up' /\ doubtful' = doubtful
  BY <1>4, Zenon DEF RefusedOnlyAfterAFault, Up
<1>6. IsHistory(wanted)' /\ IsHistory(durable)' /\ TablesOf(wanted)' = v /\ TablesOf(durable)' = v
  BY <1>2, Zenon
<1> QED
  BY <1>3, <1>4, <1>5, <1>6, StepKeeps, Zenon

\* The ends of the process by exit
LEMMA ExitInv ==
  ASSUME DbInv, Exit \/ ExitInterrupted
  PROVE  DbInv'
<1>1. PICK v : v = TablesOf(wanted)
  BY Zenon
<1>2. /\ IsHistory(wanted) /\ IsHistory(durable) /\ TablesOf(durable) = v
      /\ Keeps(Manager, v, doubtful)
  BY <1>1, Zenon DEF DbInv
<1>3. PICK h : h = [d \in Databases |-> IF d \in DOMAIN loaded THEN wanted[d] ELSE durable[d]]
  BY Zenon
<1>4. IsHistory(h) /\ TablesOf(h) = v
  BY <1>1, <1>2, <1>3, MixedHistory
<1>5. durable' = h /\ wanted' = wanted /\ doubtful' = doubtful
  BY <1>3, Zenon DEF Exit, ExitInterrupted, AllDurable
<1>6. PICK m : Down(m) /\ Keeps(m, v, doubtful)
  <2>1. CASE Exit
    <3>1. PICK closed \in AllClosed(Manager) : Down(saveToDisk(closed))
      BY <2>1, Zenon DEF Exit
    <3>2. Keeps(closed, v, doubtful)
      BY <1>2, <3>1, AllClosedKeeps, Zenon
    <3> QED
      BY <3>1, <3>2, SaveKeeps, Zenon
  <2>2. CASE ExitInterrupted
    <3>1. PICK closed \in AllClosed(Manager) : Down([closed EXCEPT !.meta = [state |-> "torn", current |-> ""]])
      BY <2>2, Zenon DEF ExitInterrupted
    <3>2. Keeps(closed, v, doubtful)
      BY <1>2, <3>1, AllClosedKeeps, Zenon
    <3>3. "" \in Names
      BY Zenon DEF Names
    <3>4. Keeps([closed EXCEPT !.meta = [state |-> "torn", current |-> ""]], v, doubtful)
      BY <3>2, <3>3, MetaKeeps, Zenon
    <3> QED
      BY <3>1, <3>4, Zenon
  <2> QED
    BY <2>1, <2>2, Zenon
<1> QED
  BY <1>1, <1>2, <1>4, <1>5, <1>6, DownKeeps

\* and by a crash.
LEMMA CrashInv ==
  ASSUME DbInv, Crash
  PROVE  DbInv'
<1>1. /\ IsHistory(wanted) /\ IsHistory(durable) /\ TablesOf(durable) = TablesOf(wanted)
      /\ Keeps(Manager, TablesOf(wanted), doubtful)
  BY Zenon DEF DbInv
<1>2. Down(Manager) /\ wanted' = durable /\ durable' = durable /\ UNCHANGED doubtful
  BY Zenon DEF Crash
<1> QED
  BY <1>1, <1>2, DownKeeps, Zenon

\* In the handler of the signal: the databases with a catalog file are saved.
LEMMA InterruptInv ==
  ASSUME DbInv, Interrupt
  PROVE  DbInv'
<1>1. PICK v : v = TablesOf(wanted)
  BY Zenon
<1>2. PICK m : m = Manager
  BY Zenon
<1> DEFINE named == {d \in Databases : disk[d].catalog.state # "missing" /\ CanLoad(Manager, d)}
           saved == [d \in Databases |->
                       IF d \in named /\ d \in DOMAIN loaded
                       THEN (CHOOSE s \in Saved(flushAllPages(disk[d], loaded[d]), loaded[d]) : TRUE).image
                       ELSE disk[d]]
           last == IF named = {} \/ (current \in Databases /\ CanLoad(Manager, current))
                   THEN current ELSE LastOf(named)
<1>3. /\ Down(saveToDisk([Manager EXCEPT !.disk = saved, !.current = last])) /\ UNCHANGED doubtful
      /\ wanted' = durable'
      /\ durable' = [d \in Databases |->
                       IF d \in named /\ d \in DOMAIN loaded THEN wanted[d] ELSE durable[d]]
  BY Zenon DEF Interrupt
<1>4. named \in SUBSET Databases /\ \A d \in named : disk[d].catalog.state # "missing"
  BY Zenon
<1>5. /\ IsMap(saved) /\ DOMAIN saved = Databases
      /\ \A d \in Databases : saved[d] =
           IF d \in named /\ d \in DOMAIN loaded
           THEN (CHOOSE s \in Saved(flushAllPages(disk[d], loaded[d]), loaded[d]) : TRUE).image
           ELSE disk[d]
  BY DEF IsMap
<1>6. last = current \/ (named # {} /\ last = LastOf(named))
  BY Zenon
<1> HIDE DEF named, saved, last
<1>7. PICK o : o = [m EXCEPT !.disk = saved]
  BY Zenon
<1>8. PICK n : n = [o EXCEPT !.current = last]
  BY Zenon
<1>9. Down(saveToDisk(n))
  BY <1>2, <1>3, <1>7, <1>8, Zenon
<1>10. PICK D : D = named \cap DOMAIN loaded
  BY Zenon
<1>11. PICK h : h = [d \in Databases |-> IF d \in D THEN wanted[d] ELSE durable[d]]
  BY Zenon
<1>12. durable' = h /\ wanted' = h
  BY <1>3, <1>10, <1>11, Zenon
<1>13. /\ IsHistory(wanted) /\ IsHistory(durable) /\ TablesOf(durable) = v
       /\ Keeps(m, v, doubtful)
  BY <1>1, <1>2, Zenon DEF DbInv
<1>14. IsHistory(h) /\ TablesOf(h) = v
  BY <1>1, <1>11, <1>13, MixedHistory
<1>15. m.disk = disk /\ m.loaded = loaded /\ m.current = current
  BY <1>2, Zenon DEF Manager
<1>16. last \in Names
  <2>1. current \in Names
    BY <1>13, <1>15, Zenon DEF Keeps
  <2>2. named # {} => LastOf(named) \in Names
    BY <1>4, LastIsOne, Zenon DEF Names
  <2> QED
    BY <1>6, <2>1, <2>2, Zenon
<1>17. ASSUME NEW d \in Databases
       PROVE  OnDisk(d, saved[d], v[d], doubtful) /\ saved[d].data = disk[d].data
  <2>1. OnDisk(d, disk[d], v[d], doubtful)
    BY <1>13, <1>15, Zenon DEF Keeps
  <2>2. CASE ~(d \in named /\ d \in DOMAIN loaded)
    <3>1. saved[d] = disk[d]
      BY <1>5, <2>2, Zenon
    <3> QED
      BY <2>1, <3>1, Zenon
  <2>3. CASE d \in named /\ d \in DOMAIN loaded
    <3>1. PICK db : db = loaded[d]
      BY Zenon
    <3>2. PICK image : image = flushAllPages(disk[d], db)
      BY Zenon
    <3>3. IsImage(disk[d]) /\ mode = "file"
      <4>1. NoFile.state = "missing"
        BY Zenon DEF NoFile
      <4> QED
        BY <1>4, <2>1, <2>3, <4>1, Zenon DEF OnDisk
    <3>4. image = [data |-> disk[d].data, catalog |-> disk[d].catalog, sys |-> db.sys, pages |-> db.pages]
      BY <3>2, <3>3, FlushIs, Zenon
    <3>5. IsImage(image) /\ image.data = disk[d].data
      BY <3>4, Zenon DEF IsImage
    <3>6. InMemory(d, db, v[d], doubtful) /\ (d \notin doubtful => disk[d].data)
      BY <1>13, <1>15, <2>3, <3>1 DEF Keeps
    <3>7. PICK s \in Saved(image, db) : s = CHOOSE x \in Saved(image, db) : TRUE
      BY <3>3, SavedExists, Zenon
    <3>8. d \notin doubtful => s.ok
      BY <3>3, <3>5, <3>6, SavedIsRead, Zenon DEF InMemory, Held
    <3>9. OnDisk(d, s.image, v[d], doubtful)
      BY <3>3, <3>5, <3>6, <3>8, SavedKeeps, SMTT(30)
    <3>10. s.image.data = disk[d].data
      BY <3>5, <3>6, SavedForm DEF InMemory
    <3>11. saved[d] = s.image
      BY <1>5, <2>3, <3>1, <3>2, <3>7, Zenon
    <3> QED
      BY <3>9, <3>10, <3>11, Zenon
  <2> QED
    BY <2>2, <2>3, Zenon
<1>18. \A d \in DOMAIN m.loaded : d \notin doubtful => saved[d].data
  BY <1>13, <1>15, <1>17, Zenon DEF Keeps
<1>19. Keeps(o, v, doubtful)
  BY <1>5, <1>7, <1>13, <1>17, <1>18, DiskKeeps, Zenon
<1>20. Keeps(n, v, doubtful)
  BY <1>8, <1>16, <1>19, CurrentKeeps, Zenon
<1>21. Keeps(saveToDisk(n), v, doubtful)
  BY <1>20, SaveKeeps
<1> QED
  BY <1>1, <1>3, <1>9, <1>12, <1>14, <1>21, DownKeeps, SMTT(30)

\* What a save that is cut off leaves is a directory, without promises.
LEMMA CutOffIs ==
  ASSUME DbInv, NEW d \in DOMAIN loaded, NEW k, (k = 0 /\ CatalogTorn(d)) \/ PartlyFlushed(d, k)
  PROVE  \E y : /\ disk' = [disk EXCEPT ![d] = y] /\ IsImage(y)
                /\ mode # "file" => y.catalog = NoFile
<1>1. /\ d \in Databases /\ OnDisk(d, disk[d], TablesOf(wanted)[d], doubtful)
      /\ InMemory(d, loaded[d], TablesOf(wanted)[d], doubtful)
  BY Zenon DEF DbInv, Keeps, Manager
<1>2. IsImage(disk[d]) /\ (mode # "file" => disk[d].catalog = NoFile) /\ IsDb(loaded[d])
  BY <1>1, Zenon DEF OnDisk, InMemory
<1>3. CASE CatalogTorn(d)
  <2>1. PICK old : old = disk[d]
    BY Zenon
  <2>2. PICK y : y = [old EXCEPT !.catalog = TornFile]
    BY Zenon
  <2>3. disk' = [disk EXCEPT ![d] = y] /\ mode = "file"
    BY <1>3, <2>1, <2>2, Zenon DEF CatalogTorn
  <2>4. PICK a, b, e, f : old = [data |-> a, catalog |-> b, sys |-> e, pages |-> f]
    BY <1>2, <2>1, Zenon DEF IsImage
  <2>5. y = [data |-> a, catalog |-> TornFile, sys |-> e, pages |-> f]
    BY <2>2, <2>4, Zenon
  <2>6. IsImage(y)
    BY <2>5, Zenon DEF IsImage
  <2> QED
    BY <2>3, <2>6, Zenon
<1>4. CASE PartlyFlushed(d, k)
  <2>1. PICK s \in Saved(disk[d], loaded[d]) : \E p, q :
          disk' = [disk EXCEPT ![d] = [s.image EXCEPT !.sys = p, !.pages = q]]
    BY <1>4, Zenon DEF PartlyFlushed
  <2>2. PICK p, q : disk' = [disk EXCEPT ![d] = [s.image EXCEPT !.sys = p, !.pages = q]]
    BY <2>1, Zenon
  <2>3. PICK image : image = s.image
    BY Zenon
  <2>4. IsImage(image) /\ (mode # "file" => image.catalog = disk[d].catalog)
    BY <1>2, <2>3, SavedForm, SMTT(30)
  <2>5. PICK db : db = [sys |-> p, pages |-> q]
    BY Zenon
  <2>6. db.sys = p /\ db.pages = q
    BY <2>5, Zenon
  <2>7. PICK y : y = flushAllPages(image, db)
    BY Zenon
  <2>8. y = [image EXCEPT !.sys = p, !.pages = q]
    BY <2>6, <2>7, Zenon DEF flushAllPages
  <2>9. y = [data |-> image.data, catalog |-> image.catalog, sys |-> db.sys, pages |-> db.pages]
    BY <2>4, <2>7, FlushIs, Zenon
  <2>10. IsImage(y) /\ y.catalog = image.catalog
    BY <2>9, Zenon DEF IsImage
  <2>11. disk' = [disk EXCEPT ![d] = y]
    BY <2>2, <2>3, <2>8, ZenonT(30)
  <2> QED
    BY <1>2, <2>4, <2>10, <2>11, Zenon
<1> QED
  BY <1>3, <1>4, SMTT(30)

\* A crash in SAVE
LEMMA CrashInSaveInv ==
  ASSUME DbInv, NEW k, CrashInSave(k)
  PROVE  DbInv'
<1>1. PICK d : d = current
  BY Zenon
<1>2. PICK v : v = TablesOf(wanted)
  BY Zenon
<1>3. PICK m : m = Manager
  BY Zenon
<1>4. d \in DOMAIN loaded /\ ((k = 0 /\ CatalogTorn(d)) \/ PartlyFlushed(d, k))
  BY <1>1, Zenon DEF CrashInSave, Selected
<1>5. PICK y : /\ disk' = [disk EXCEPT ![d] = y] /\ IsImage(y)
               /\ mode # "file" => y.catalog = NoFile
  BY <1>4, CutOffIs, Zenon
<1>6. PICK a : a = [disk EXCEPT ![d] = y]
  BY Zenon
<1>7. PICK R : R = doubtful \cup {d}
  BY Zenon
<1>8. Keeps(m, v, doubtful) /\ m.disk = disk /\ m.loaded = loaded /\ m.meta = meta
  BY <1>2, <1>3 DEF DbInv, Manager
<1>9. d \in Databases /\ IsMap(disk) /\ DOMAIN disk = Databases
  BY <1>4, <1>8 DEF Keeps
<1>10. /\ IsMap(a) /\ DOMAIN a = Databases /\ a[d] = y
       /\ \A e \in Databases \ {d} : a[e] = disk[e]
  BY <1>6, <1>9, Zenon DEF IsMap
<1>11. ASSUME NEW e \in Databases PROVE OnDisk(e, a[e], v[e], R)
  <2>1. CASE e = d
    BY <1>5, <1>7, <1>10, <2>1 DEF OnDisk
  <2>2. CASE e # d
    <3>1. OnDisk(e, a[e], v[e], doubtful)
      BY <1>8, <1>10, <2>2, SMTT(30) DEF Keeps
    <3> QED
      BY <1>7, <3>1, Zenon DEF OnDisk
  <2> QED
    BY <2>1, <2>2, Zenon
<1>12. \A e \in DOMAIN m.loaded : e \notin R => a[e].data
  BY <1>7, <1>8, <1>10, Zenon DEF Keeps
<1>13. PICK o : o = [m EXCEPT !.disk = a]
  BY Zenon
<1>14. Keeps(o, v, R) /\ o.disk = a /\ o.meta = m.meta
  <2>1. doubtful \subseteq R /\ \A e \in Databases \ R : v[e] = v[e]
    BY <1>7, Zenon
  <2> QED
    BY <1>8, <1>10, <1>11, <1>12, <1>13, <2>1, DiskKeeps, SMTT(30)
<1>15. PICK n : n = [o EXCEPT !.loaded = NoDefs, !.current = ""]
  BY Zenon
<1>16. Keeps(n, v, R) /\ n.disk = a /\ n.loaded = NoDefs /\ n.current = "" /\ n.meta = m.meta
  BY <1>14, <1>15, NoneLoaded, Zenon
<1>17. Set(n)
  BY <1>5, <1>6, <1>8, <1>16, Zenon DEF Set, CrashInSave
<1>18. /\ UNCHANGED <<mode, durable>> /\ wanted' = durable /\ doubtful' = R /\ status' = "down"
  BY <1>1, <1>7, Zenon DEF CrashInSave, Unsure
<1>19. RefusedOnlyAfterAFault' /\ ~Up'
  BY <1>18, Zenon DEF RefusedOnlyAfterAFault, Up
<1>20. IsHistory(wanted)' /\ IsHistory(durable)' /\ TablesOf(wanted)' = v /\ TablesOf(durable)' = v
  <2>1. IsHistory(durable) /\ TablesOf(durable) = v
    BY <1>2, Zenon DEF DbInv
  <2>2. wanted' = durable /\ durable' = durable
    BY <1>18, Zenon
  <2> QED
    BY <2>1, <2>2, Zenon
<1> QED
  BY <1>16, <1>17, <1>18, <1>19, <1>20, StepKeeps, Zenon

\* No database is there.
LEMMA InitInv == Init => DbInv
<1> SUFFICES ASSUME Init PROVE DbInv
  BY Zenon
<1>1. IsHistory(wanted) /\ IsHistory(durable) /\ TablesOf(wanted) = TablesOf(durable)
      /\ \A d \in Databases : TablesOf(wanted)[d] = NoDefs
  BY NothingIs, Zenon DEF Init, IsHistory, IsMap, TablesOf
<1>2. Manager = [disk |-> disk, loaded |-> loaded, current |-> current, meta |-> meta]
  BY Zenon DEF Manager
<1>3. PICK m : m = Manager
  BY Zenon
<1>4. m.disk = disk /\ m.loaded = loaded /\ m.current = current /\ m.meta = meta
  BY <1>2, <1>3, Zenon
<1>5. m = [disk |-> m.disk, loaded |-> m.loaded, current |-> m.current, meta |-> m.meta]
  BY <1>2, <1>3, <1>4, Zenon
<1>6. IsMap(disk) /\ DOMAIN disk = Databases /\ \A d \in Databases : disk[d] = NoDirectory
  BY Zenon DEF Init, IsMap
<1>7. IsMap(loaded) /\ DOMAIN loaded = {}
  BY Zenon DEF Init, IsMap, NoDefs
<1>8. /\ current \in Names /\ meta = [state |-> "missing", current |-> ""]
      /\ meta.current \in Names
  BY Zenon DEF Init, Names
<1>9. meta = [state |-> meta.state, current |-> meta.current]
  BY <1>8, ZenonT(30)
<1>10. \A d \in Databases : OnDisk(d, m.disk[d], TablesOf(wanted)[d], doubtful)
  BY <1>1, <1>4, <1>6, NoDirectoryIs, Zenon
<1>11. \A d \in DOMAIN m.loaded : InMemory(d, m.loaded[d], TablesOf(wanted)[d], doubtful)
                                  /\ (d \notin doubtful => m.disk[d].data)
  BY <1>4, <1>7, Zenon
<1>12. DOMAIN m.loaded \subseteq Databases
  BY <1>4, <1>7, Zenon
<1>13. Keeps(m, TablesOf(wanted), doubtful)
  BY <1>4, <1>5, <1>6, <1>7, <1>8, <1>9, <1>10, <1>11, <1>12, Zenon DEF Keeps
<1>14. ~Up /\ RefusedOnlyAfterAFault
  BY Zenon DEF Init, Up, RefusedOnlyAfterAFault
<1> QED
  BY <1>1, <1>3, <1>13, <1>14, Zenon DEF DbInv

\* Every step keeps the invariant.
LEMMA NextInv == DbInv /\ [Next]_vars => DbInv'
<1> SUFFICES ASSUME DbInv, [Next]_vars PROVE DbInv'
  BY Zenon
<1>1. CASE Start
  BY <1>1, StartInv, Zenon
<1>2. CASE RefuseToStart
  BY <1>2, RefuseInv, Zenon
<1>3. CASE \E d \in Databases : CreateDatabase(d)
  BY <1>3, CreateDatabaseInv, Zenon
<1>4. CASE \E d \in Databases : DropDatabase(d)
  BY <1>4, DropDatabaseInv, SMTT(30)
<1>5. CASE \E d \in Databases : DropDatabaseFails(d)
  BY <1>5, DropDatabaseFailsInv, Zenon
<1>6. CASE \E d \in Databases : Use(d)
  BY <1>6, UseInv, Zenon
<1>7. CASE \E t \in Tables : CreateTable(t)
  BY <1>7, CreateTableInv, Zenon
<1>8. CASE \E t \in Tables : DropTable(t)
  BY <1>8, DropTableInv, Zenon
<1>9. CASE \E i \in IndexNames, t \in Tables : CreateIndex(i, t)
  BY <1>9, CreateIndexInv, SMTT(30)
<1>10. CASE \E i \in IndexNames : DropIndex(i)
  BY <1>10, DropIndexInv, Zenon
<1>11. CASE Save
  BY <1>11, SaveKeepsInv, Zenon
<1>12. CASE \E name \in Users, password \in Passwords, admin \in BOOLEAN : CreateUser(name, password, admin)
  BY <1>12, UsersInv, Zenon
<1>13. CASE \E name \in Users : DropUser(name)
  BY <1>13, UsersInv, Zenon
<1>14. CASE \E name \in Users, password \in Passwords : AlterUser(name, password)
  BY <1>14, UsersInv, Zenon
<1>15. CASE \E g \in Grants : Grant(g)
  BY <1>15, GrantInv, Zenon
<1>16. CASE \E g \in Grants : GrantRefused(g)
  BY <1>16, GrantRefusedInv, Zenon
<1>17. CASE \E g \in Grants : Revoke(g)
  BY <1>17, RevokeInv, Zenon
<1>18. CASE Exit \/ ExitInterrupted
  BY <1>18, ExitInv, SMTT(30)
<1>19. CASE Interrupt
  BY <1>19, InterruptInv, Zenon
<1>20. CASE Crash
  BY <1>20, CrashInv, Zenon
<1>21. CASE \E k \in 0..4 : CrashInSave(k)
  BY <1>21, CrashInSaveInv, Zenon
<1>22. CASE UNCHANGED vars
  <2>1. Set(Manager) /\ UNCHANGED <<mode, status, wanted, durable>> /\ doubtful' = doubtful
    BY <1>22, Zenon DEF vars, serverVars, history, Set, Manager
  <2>2. Keeps(Manager, TablesOf(wanted), doubtful) /\ (Up' => UsersThere(Manager, doubtful))
        /\ RefusedOnlyAfterAFault'
    BY <2>1, Zenon DEF DbInv, Up, RefusedOnlyAfterAFault
  <2> QED
    BY <2>1, <2>2, SameStep, Zenon
<1> QED
  BY <1>1, <1>2, <1>3, <1>4, <1>5, <1>6, <1>7, <1>8, <1>9, <1>10, <1>11, <1>12, <1>13, <1>14,
     <1>15, <1>16, <1>17, <1>18, <1>19, <1>20, <1>21, <1>22, Zenon DEF Next

\* The inductive invariant holds of every behaviour, with any databases, tables,
\* indexes, users and grants, and any number of statements, exits, signals and crashes.
THEOREM DatabasesInvariance == Spec => []DbInv
BY InitInv, NextInv, PTL DEF Spec

\* What is promised of a loaded database.
LEMMA TrustedIs ==
  ASSUME DbInv, NEW d \in Trusted
  PROVE  Good(loaded[d].catalog) /\ Shown(loaded[d].catalog) = wanted[d].tables
<1>1. d \in DOMAIN loaded /\ d \notin doubtful
  BY Zenon DEF Trusted
<1>2. d \in Databases /\ InMemory(d, loaded[d], TablesOf(wanted)[d], doubtful)
  BY <1>1, Zenon DEF DbInv, Keeps, Manager
<1>3. TablesOf(wanted)[d] = wanted[d].tables
  BY <1>2, Zenon DEF TablesOf
<1> QED
  BY <1>1, <1>2, <1>3, Zenon DEF InMemory, Held

\* In every loaded catalog that was not cut off, the map of indexes and the lists of the
\* tables hold the same definitions.
THEOREM CatalogsAlwaysAgree == Spec => []CatalogsAgree
<1>1. DbInv => CatalogsAgree
  BY TrustedIs, Zenon DEF CatalogsAgree, Good
<1> QED
  BY <1>1, DatabasesInvariance, PTL

-----------------------------------------------------------------------------
\* What takes tables from a database that is not in doubt.

TablesTakenBy ==
  LostBy("tables") \subseteq (IF mode = "file" THEN {"create"} ELSE {"create", "start"})

\* The step adds losses of one kind, of tables only if tables are taken.
LEMMA TakenIs ==
  ASSUME NEW how, lost' = lost \cup Taken(how), NEW other \in LostBy("tables")', other \notin LostBy("tables")
  PROVE  /\ other = how
         /\ \E d \in Databases \ doubtful : wanted[d].tables # wanted'[d].tables
<1>1. <<other, "tables">> \in lost' /\ <<other, "tables">> \notin lost
  BY Zenon DEF LostBy
<1>2. <<other, "tables">> \in Taken(how)
  BY <1>1, Zenon
<1> DEFINE parts == {part \in {"tables", "grants", "users"} :
                       \E d \in Databases \ doubtful :
                         wanted[d] # Nothing /\ Differs(part, wanted[d], wanted'[d])}
<1>3. "tables" \in parts /\ other = how
  <2>1. <<other, "tables">> \in {how} \X parts
    BY <1>2, Zenon DEF Taken
  <2> HIDE DEF parts
  <2> QED
    BY <2>1
<1>4. \E d \in Databases \ doubtful : Differs("tables", wanted[d], wanted'[d])
  BY <1>3, Zenon
<1>5. \A v, w : Differs("tables", v, w) => v.tables # w.tables
  BY DEF Differs
<1> QED
  BY <1>3, <1>4, <1>5, Zenon

\* The start takes none if there is a file of the catalog to be seen.
LEMMA StartTakes ==
  ASSUME DbInv, TablesTakenBy, Start
  PROVE  TablesTakenBy'
<1>1. PICK q : q = "qindb"
  BY Zenon
<1>2. PICK m : m = loadFromDisk(Manager)
  BY Zenon
<1>3. PICK x : wanted' = [wanted EXCEPT ![q] = x]
  BY <1>1, Zenon DEF Start, Expect
<1>4. UNCHANGED mode
  BY Zenon DEF Start
<1>5. lost' = IF ~databaseExists(m, q) THEN lost \cup Taken("start") ELSE lost
  BY <1>1, <1>2, Zenon DEF Start
<1>6. q \in Databases
  BY <1>1, DatabasesAssumption DEF Databases
<1>7. CASE databaseExists(m, q)
  BY <1>4, <1>5, <1>7, Zenon DEF TablesTakenBy, LostBy
<1>8. CASE ~databaseExists(m, q)
  <2>1. \A other \in LostBy("tables")' : other \in LostBy("tables") \/ other = "start"
    BY <1>5, <1>8, TakenIs, Zenon
  <2>2. CASE mode # "file"
    BY <1>4, <2>1, <2>2, Zenon DEF TablesTakenBy
  <2>3. CASE mode = "file"
    <3>1. Keeps(Manager, TablesOf(wanted), doubtful) /\ IsHistory(wanted)
      BY Zenon DEF DbInv
    <3>2. Keeps(m, TablesOf(wanted), doubtful)
      BY <1>2, <3>1, LoadFromDiskKeeps, Zenon
    <3>3. OnDisk(q, m.disk[q], TablesOf(wanted)[q], doubtful) /\ m.disk[q].catalog.state = "missing"
      BY <1>6, <1>8, <3>2, Zenon DEF Keeps, databaseExists
    <3>4. q \notin doubtful => TablesOf(wanted)[q] = NoDefs
      BY <2>3, <3>3, NoFileHolds, Zenon
    <3>5. q \notin doubtful => wanted[q].tables = NoDefs
      BY <1>6, <3>4, Zenon DEF TablesOf
    <3>6. wanted'[q].tables = NoDefs
      <4>1. PICK users : wanted' = [wanted EXCEPT ![q] = [FreshlyWanted(q) EXCEPT !.users = users]]
        BY <1>1, <1>2, <1>8, Zenon DEF Start, Expect
      <4>2. PICK y : y = [FreshlyWanted(q) EXCEPT !.users = users]
        BY Zenon
      <4>3. y.tables = NoDefs
        BY <4>2, FreshIs, WishUsers, Zenon
      <4>4. wanted'[q] = y
        BY <1>6, <3>1, <4>1, <4>2, Zenon DEF IsHistory
      <4> QED
        BY <4>3, <4>4, Zenon
    <3>7. \A d \in Databases \ doubtful : wanted[d].tables = wanted'[d].tables
      BY <1>3, <1>6, <3>1, <3>5, <3>6, Zenon DEF IsHistory
    <3>8. \A other \in LostBy("tables")' : other \in LostBy("tables")
      BY <1>5, <1>8, <3>7, TakenIs, Zenon
    <3> QED
      BY <1>4, <2>3, <3>8, Zenon DEF TablesTakenBy
  <2> QED
    BY <2>2, <2>3, Zenon
<1> QED
  BY <1>7, <1>8, Zenon

\* The handler of the signal takes none: the tables are durable with the statement.
LEMMA InterruptTakes ==
  ASSUME DbInv, TablesTakenBy, Interrupt
  PROVE  TablesTakenBy'
<1>1. UNCHANGED mode /\ lost' = lost \cup Taken("signal") /\ wanted' = durable'
  BY Zenon DEF Interrupt, Down
<1>2. \A d \in Databases : durable'[d] = wanted[d] \/ durable'[d] = durable[d]
  BY Zenon DEF Interrupt
<1>3. \A d \in Databases : durable[d].tables = wanted[d].tables
  <2>1. TablesOf(wanted) = TablesOf(durable)
    BY Zenon DEF DbInv
  <2>2. \A d \in Databases : TablesOf(wanted)[d] = wanted[d].tables /\ TablesOf(durable)[d] = durable[d].tables
    BY Zenon DEF TablesOf
  <2> QED
    BY <2>1, <2>2, Zenon
<1>4. \A d \in Databases \ doubtful : wanted[d].tables = wanted'[d].tables
  BY <1>1, <1>2, <1>3, Zenon
<1>5. \A other \in LostBy("tables")' : other \in LostBy("tables")
  BY <1>1, <1>4, TakenIs, Zenon
<1> QED
  BY <1>1, <1>5, Zenon DEF TablesTakenBy

\* No other step but CREATE DATABASE takes any.
LEMMA NextTakes == DbInv /\ TablesTakenBy /\ [Next]_vars => TablesTakenBy'
<1> SUFFICES ASSUME DbInv, TablesTakenBy, [Next]_vars PROVE TablesTakenBy'
  BY Zenon
<1>1. ASSUME UNCHANGED <<mode, lost>> PROVE TablesTakenBy'
  BY <1>1, Zenon DEF TablesTakenBy, LostBy
<1>2. CASE Start
  BY <1>2, StartTakes, Zenon
<1>3. CASE Interrupt
  BY <1>3, InterruptTakes, Zenon
<1>4. CASE \E d \in Databases : CreateDatabase(d)
  <2>1. UNCHANGED mode /\ lost' = lost \cup Taken("create")
    BY <1>4, Zenon DEF CreateDatabase
  <2>2. \A other \in LostBy("tables")' : other \in LostBy("tables") \/ other = "create"
    BY <2>1, TakenIs, Zenon
  <2> QED
    BY <2>1, <2>2, Zenon DEF TablesTakenBy
<1>5. CASE RefuseToStart
  BY <1>1, <1>5, Zenon DEF RefuseToStart, history
<1>6. CASE \E d \in Databases : DropDatabase(d) \/ DropDatabaseFails(d) \/ Use(d)
  BY <1>1, <1>6, Zenon DEF DropDatabase, DropDatabaseFails, Use, history
<1>7. CASE \/ \E t \in Tables : CreateTable(t) \/ DropTable(t)
           \/ \E i \in IndexNames, t \in Tables : CreateIndex(i, t)
           \/ \E i \in IndexNames : DropIndex(i)
  <2>1. \E db, w, flush : ChangeCatalog(db, w, flush)
    BY <1>7, Zenon DEF CreateTable, DropTable, CreateIndex, DropIndex
  <2> QED
    BY <1>1, <2>1, Zenon DEF ChangeCatalog
<1>8. CASE Save
  BY <1>1, <1>8, Zenon DEF Save
<1>9. CASE \/ \E name \in Users, password \in Passwords, admin \in BOOLEAN : CreateUser(name, password, admin)
           \/ \E name \in Users : DropUser(name)
           \/ \E name \in Users, password \in Passwords : AlterUser(name, password)
           \/ \E g \in Grants : Grant(g) \/ Revoke(g)
  <2>1. \E m, d, pages, w : ChangePages(m, d, pages, w)
    BY <1>9, Zenon DEF CreateUser, DropUser, AlterUser, Grant, Revoke, ChangeUsers
  <2> QED
    BY <1>1, <2>1, Zenon DEF ChangePages
<1>10. CASE \E g \in Grants : GrantRefused(g)
  BY <1>1, <1>10, Zenon DEF GrantRefused, history
<1>11. CASE Exit \/ ExitInterrupted \/ Crash
  BY <1>1, <1>11, Zenon DEF Exit, ExitInterrupted, Crash, Down
<1>12. CASE \E k \in 0..4 : CrashInSave(k)
  BY <1>1, <1>12, Zenon DEF CrashInSave
<1>13. CASE UNCHANGED vars
  BY <1>1, <1>13, Zenon DEF vars, serverVars, history
<1> QED
  BY <1>2, <1>3, <1>4, <1>5, <1>6, <1>7, <1>8, <1>9, <1>10, <1>11, <1>12, <1>13, Zenon DEF Next

\* Every table and index that was created and not dropped is shown, across exits,
\* signals, crashes and starts, unless a save was cut off or did not fit, or the database
\* was made anew: by CREATE DATABASE, or at a start with catalogs in system pages.
THEOREM TablesAlwaysSurvive == Spec => []TablesSurvive
<1>1. Init => TablesTakenBy
  BY Zenon DEF Init, TablesTakenBy, LostBy
<1>2. DbInv /\ TablesTakenBy => TablesSurvive
  BY TrustedIs, ShownTablesIs, Zenon DEF TablesSurvive, TablesTakenBy
<1> QED
  BY <1>1, <1>2, NextTakes, DatabasesInvariance, PTL DEF Spec

\* A start is refused only after a crash tore the catalog of the system database or a
\* DROP left a part of its directory.
THEOREM RefusedForAFault == Spec => []RefusedOnlyAfterAFault
<1>1. DbInv => RefusedOnlyAfterAFault
  BY Zenon DEF DbInv
<1> QED
  BY <1>1, DatabasesInvariance, PTL

===============================================================================
