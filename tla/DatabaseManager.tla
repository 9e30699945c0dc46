--------------------------- MODULE DatabaseManager ---------------------------
(***************************************************************************)
(* The databases of one server process: their directories on disk, the     *)
(* loaded ones in memory, databases.json                                   *)
(* (src/catalog/database_manager.cpp), the start and the end of the        *)
(* process (main.cpp), and the statements that change catalogs, users and  *)
(* permissions (src/executor/executor.cpp), given by one session of the    *)
(* user "admin".  Catalogs are kept in files or in system pages.           *)
(*                                                                         *)
(* Pages reach the disk when a pool is flushed; the rest is lost in a      *)
(* crash.  A file that is being written when the process dies is torn.     *)
(* Of user tables there is the definition only.                            *)
(***************************************************************************)
EXTENDS Catalog, Accounts, TLC

CONSTANTS
  Modes,        \* of the configuration: "file", "database"
  DbOrder,      \* the names of databases in their order, "qindb" among them
  Tables, IndexNames,
  Users,        \* with "admin"
  Passwords,
  Grants,       \* the permissions that GRANT and REVOKE name
  PermissionColumns, UserColumns,
  MaxOps,       \* statements and starts
  MaxFaults

\* Statements name other tables than those of the permissions and the users, and
\* the definitions of these two fit on the system pages.
SystemTables == {"users", "sys_permissions"}

ASSUME DatabasesAssumption ==
  /\ DbOrder \in Seq(STRING) /\ "qindb" \in Range(DbOrder)
  /\ "admin" \in Users
  /\ Tables \cap SystemTables = {}
  /\ {PermissionColumns, UserColumns} \subseteq Nat
  /\ TableTuples >= 2
  /\ ColumnTuples >= PermissionColumns + UserColumns

VARIABLES
  mode,         \* where catalogs are stored
  disk,         \* the directory of each database
  meta,         \* databases.json
  status,       \* of the process: "down", "up", "refused" (it ended while starting)
  loaded,       \* m_databases
  current,      \* m_currentDatabase, "" for none
  manager,      \* the database whose permission manager the executor has
  wanted,       \* history: what the statements have made of each database, or what is
                \* left of that after a crash or after one of the losses below
  durable,      \* history: the part of it a crash must leave
  doubtful,     \* history: databases whose pages were not written as a whole
  lost,         \* history: what else was taken from databases not in doubt, and how
  shifted,      \* history: a user was changed by a position that is not its slot
  ops, faults

serverVars == <<mode, disk, meta, status, loaded, current, manager>>

history == <<wanted, durable, doubtful, lost, shifted>>

bounds == <<ops, faults>>

vars == <<serverVars, history, bounds>>

Databases == Range(DbOrder)

NoFile == [state |-> "missing", json |-> NoDefs]

TornFile == [state |-> "torn", json |-> NoDefs]

NoDirectory == [data |-> FALSE, catalog |-> NoFile, sys |-> NoPages, pages |-> << >>]

AdminGrant(d) == [user |-> "admin", db |-> d, table |-> "", type |-> "ALL"]

NewUser(password, admin) == [password |-> password, admin |-> admin]

Nothing == [tables |-> NoDefs, grants |-> {}, users |-> NoDefs]

FreshlyWanted(d) == [Nothing EXCEPT !.grants = {AdminGrant(d)}]

-----------------------------------------------------------------------------
\* One database: what is in memory, and its directory.

PermissionsPage(db) == db.catalog.tables["sys_permissions"].page

UsersPage(db) == db.catalog.tables["users"].page

\* initializePermissionSystem
WithPermissions(d, db) ==
  LET page == Len(db.pages) + 1
  IN  IF tableExists(db.catalog, "sys_permissions") THEN db
      ELSE [db EXCEPT
              !.catalog = createTable(@, "sys_permissions", TableDef(page, PermissionColumns)),
              !.pages = grantPermission(Append(@, TablePageInit), page, AdminGrant(d))]

\* initializeUserSystem: the first page of the table is allocated and not
\* initialised, so that the records start on a second one.
WithUsers(db) ==
  LET page == Len(db.pages) + 1
  IN  IF tableExists(db.catalog, "users")
      THEN IF getAllUsers(db.pages, UsersPage(db)) # << >> THEN db
           ELSE [db EXCEPT !.pages = createUser(@, UsersPage(db), "admin", "admin", TRUE)]
      ELSE [db EXCEPT
              !.catalog = createTable(@, "users", TableDef(page, UserColumns)),
              !.pages = createUser(Append(@, BlankPage), page, "admin", "admin", TRUE)]

\* Allocating a page extends the file with a blank one.
Extended(image, db) ==
  [image EXCEPT !.pages =
     [p \in DOMAIN db.pages |-> IF p \in DOMAIN @ THEN @[p] ELSE BlankPage]]

flushAllPages(image, db) == [image EXCEPT !.sys = db.sys, !.pages = db.pages]

\* Mutant: the system pages stay in the pool.
Saved_Unflushed(image, db) ==
  IF mode = "file"
  THEN {[ok |-> TRUE, db |-> db,
         image |-> [image EXCEPT !.catalog = [state |-> "saved", json |-> ToJson(db.catalog)]]]}
  ELSE {[ok |-> s.ok, db |-> [db EXCEPT !.sys = s.pages], image |-> image] :
          s \in saveCatalog(db.catalog)}

\* Catalog::save: the file is written, or the system pages and then all pages of
\* the pool; if the catalog does not fit, no page is.
Saved(image, db) ==
  IF mode = "file"
  THEN {[ok |-> TRUE, db |-> db,
         image |-> [image EXCEPT !.catalog = [state |-> "saved", json |-> ToJson(db.catalog)]]]}
  ELSE {LET written == [db EXCEPT !.sys = s.pages]
        IN  [ok |-> s.ok, db |-> written,
             image |-> IF s.ok THEN flushAllPages(image, written) ELSE image] :
          s \in saveCatalog(db.catalog)}

\* Catalog::load
LoadedCatalog(image) ==
  IF mode = "file" THEN FromJson(image.catalog.json) ELSE loadCatalog(image.sys)

-----------------------------------------------------------------------------
\* The manager, as a value: the directories, the loaded databases, the current
\* one and databases.json.

Manager == [disk |-> disk, loaded |-> loaded, current |-> current, meta |-> meta]

IsLoaded(m, d) == d \in DOMAIN m.loaded

\* databaseExists looks for catalog.json, which there is only in file mode.
databaseExists(m, d) == IsLoaded(m, d) \/ m.disk[d].catalog.state # "missing"

CanLoad(m, d) ==
  \/ IsLoaded(m, d)
  \/ /\ m.disk[d].data
     /\ mode = "file" => m.disk[d].catalog.state = "saved"

Put(m, d, db, image) ==
  [m EXCEPT !.loaded = With(@, d, db), !.disk[d] = Extended(image, db)]

loadDatabase(m, d) ==
  IF IsLoaded(m, d) THEN m
  ELSE Put(m, d, WithPermissions(d, [catalog |-> LoadedCatalog(m.disk[d]),
                                     sys |-> m.disk[d].sys, pages |-> m.disk[d].pages]),
           m.disk[d])

useDatabase(m, d) ==
  IF d \in Databases /\ CanLoad(m, d) THEN [loadDatabase(m, d) EXCEPT !.current = d] ELSE m

saveToDisk(m) == [m EXCEPT !.meta = [state |-> "saved", current |-> m.current]]

\* createDatabase of a database that is not loaded: an empty catalog, whatever is
\* in the directory; new pages are allocated behind the old ones.
createDatabase(m, d) ==
  LET db == WithPermissions(d, [catalog |-> EmptyCatalog, sys |-> m.disk[d].sys,
                                pages |-> m.disk[d].pages])
      saved == CHOOSE s \in Saved(Extended([m.disk[d] EXCEPT !.data = TRUE], db), db) : TRUE
      put == Put(m, d, saved.db, saved.image)
  IN  saveToDisk([put EXCEPT !.current = IF @ = "" THEN d ELSE @])

\* closeDatabase: the result of saving the catalog is not looked at.
Closed(m, d) ==
  {flushAllPages(s.image, s.db) : s \in Saved(m.disk[d], m.loaded[d])}

\* All loaded databases closed, in every way their catalogs may be saved.
AllClosed(m) ==
  {[m EXCEPT !.disk = [d \in Databases |-> IF IsLoaded(m, d) THEN f[d] ELSE @[d]]] :
     f \in {f \in [DOMAIN m.loaded -> UNION {Closed(m, d) : d \in DOMAIN m.loaded}] :
              \A d \in DOMAIN m.loaded : f[d] \in Closed(m, d)}}

FirstOf(S) == DbOrder[CHOOSE i \in DOMAIN DbOrder : DbOrder[i] \in S /\ \A j \in 1..(i-1) : DbOrder[j] \notin S]

LastOf(S) == DbOrder[CHOOSE i \in DOMAIN DbOrder :
               DbOrder[i] \in S /\ \A j \in (i+1)..Len(DbOrder) : DbOrder[j] \notin S]

\* dropDatabase, when the directory can be removed.
dropDatabase(m, d) ==
  LET rest == DOMAIN m.loaded \ {d}
  IN  saveToDisk([m EXCEPT !.loaded = Without(@, {d}), !.disk[d] = NoDirectory,
        !.current = IF @ # d THEN @ ELSE IF rest = {} THEN "" ELSE FirstOf(rest)])

\* The manager's own start: the current database of the last session is loaded if
\* that is possible, and stays current if it is not.
loadFromDisk(m) ==
  IF m.meta.state # "saved" \/ m.meta.current = "" THEN m
  ELSE LET named == [m EXCEPT !.current = m.meta.current]
       IN  IF CanLoad(m, m.meta.current) THEN loadDatabase(named, m.meta.current) ELSE named

\* Mutant: the start is refused whenever the system database is there and is not
\* the one the last session ended with.
StartRefused_Unloaded(m) == databaseExists(m, "qindb") /\ ~IsLoaded(m, "qindb")

\* main: a system database that exists and cannot be loaded cannot be dropped
\* either, as it is not loaded.
StartRefused(m) == databaseExists(m, "qindb") /\ ~CanLoad(m, "qindb")

WithSystemDatabase(m) ==
  useDatabase(IF databaseExists(m, "qindb") THEN m ELSE createDatabase(m, "qindb"), "qindb")

WithAuthManager(m) == Put(m, "qindb", WithUsers(m.loaded["qindb"]), m.disk["qindb"])

SwitchBack(m, previous) ==
  IF previous \notin {"", "qindb"} /\ databaseExists(m, previous) THEN useDatabase(m, previous) ELSE m

-----------------------------------------------------------------------------
\* What the history expects.

Expect(d, w) == wanted' = [wanted EXCEPT ![d] = w]

\* After a flush all of it is durable; a catalog file alone has the tables.
DurableAfter(w, flushed, old) == IF flushed THEN w ELSE [old EXCEPT !.tables = w.tables]

Unsure(S) == doubtful' = doubtful \cup S

Differs(part, v, w) ==
  \/ part = "tables" /\ v.tables # w.tables
  \/ part = "grants" /\ v.grants # w.grants
  \/ part = "users" /\ v.users # w.users

\* What the step takes from a database that is there and not in doubt.
Taken(how) ==
  {how} \X {part \in {"tables", "grants", "users"} :
              \E d \in Databases \ doubtful :
                wanted[d] # Nothing /\ Differs(part, wanted[d], wanted'[d])}

LostBy(part) == {how \in {"start", "create", "signal"} : <<how, part>> \in lost}

Set(m) ==
  /\ disk' = m.disk
  /\ loaded' = m.loaded
  /\ current' = m.current
  /\ meta' = m.meta

Up == status = "up"

\* The system database is there: the authentication manager points into it.
Serving == Up /\ "qindb" \in DOMAIN loaded /\ ops < MaxOps

Counted == ops' = ops + 1 /\ UNCHANGED faults

UserTable == loaded["qindb"]

\* The session's user is "admin"; without that user, or as no administrator, it is
\* refused.
Admin == isUserAdmin(UserTable.pages, UsersPage(UserTable), "admin")

Known(name) == userExists(UserTable.pages, UsersPage(UserTable), name)

-----------------------------------------------------------------------------
Init ==
  /\ mode \in Modes
  /\ disk = [d \in Databases |-> NoDirectory]
  /\ meta = [state |-> "missing", current |-> ""]
  /\ status = "down"
  /\ loaded = NoDefs
  /\ current = ""
  /\ manager = ""
  /\ wanted = [d \in Databases |-> Nothing]
  /\ durable = [d \in Databases |-> Nothing]
  /\ doubtful = {}
  /\ lost = {}
  /\ shifted = FALSE
  /\ ops = 0 /\ faults = 0

\* main up to the first prompt.
Start ==
  LET m == loadFromDisk(Manager)
      system == WithSystemDatabase(m)
      created == ~databaseExists(m, "qindb")
      base == IF created THEN FreshlyWanted("qindb") ELSE wanted["qindb"]
      users == IF DOMAIN base.users = {} THEN "admin" :> NewUser("admin", TRUE) ELSE base.users
  IN
  /\ status # "up" /\ ops < MaxOps
  /\ ~StartRefused(m)
  /\ Set(SwitchBack(WithAuthManager(system), m.current))
  /\ status' = "up"
  /\ manager' = "qindb"
  /\ Expect("qindb", [base EXCEPT !.users = users])
  /\ durable' = [durable EXCEPT !["qindb"] =
       IF created THEN DurableAfter(base, mode = "database", Nothing) ELSE @]
  /\ doubtful' = IF created THEN doubtful \ {"qindb"} ELSE doubtful
  /\ lost' = IF created THEN lost \cup Taken("start") ELSE lost
  /\ ops' = ops + 1
  /\ UNCHANGED <<mode, shifted, faults>>

\* The system database can neither be loaded nor be dropped: main returns, and the
\* manager saves its state.
RefuseToStart ==
  LET m == loadFromDisk(Manager) IN
  /\ status # "up" /\ ops < MaxOps
  /\ StartRefused(m)
  /\ \E closed \in AllClosed(m) :
       Set([saveToDisk(closed) EXCEPT !.loaded = NoDefs, !.current = ""])
  /\ status' = "refused"
  /\ ops' = ops + 1
  /\ UNCHANGED <<mode, manager, history, faults>>

-----------------------------------------------------------------------------
CreateDatabase(d) ==
  /\ Serving /\ Admin
  /\ d \notin DOMAIN loaded
  /\ Set(createDatabase(Manager, d))
  /\ Expect(d, FreshlyWanted(d))
  /\ durable' = [durable EXCEPT ![d] = DurableAfter(FreshlyWanted(d), mode = "database", Nothing)]
  /\ doubtful' = doubtful \ {d}
  /\ lost' = lost \cup Taken("create")
  /\ Counted
  /\ UNCHANGED <<mode, status, manager, shifted>>

\* The permission manager of the dropped database may still be the executor's.
ManagerAfterDrop(d) == manager' = IF manager = d THEN "" ELSE manager

DropDatabase(d) ==
  /\ Serving /\ Admin
  /\ d \in DOMAIN loaded
  /\ Set(dropDatabase(Manager, d))
  /\ ManagerAfterDrop(d)
  /\ Expect(d, Nothing)
  /\ durable' = [durable EXCEPT ![d] = Nothing]
  /\ doubtful' = doubtful \ {d}
  /\ Counted
  /\ UNCHANGED <<mode, status, lost, shifted>>

\* The directory cannot be removed, or not all of it; the database is closed and
\* stays the current one if it was.
Remains(image) ==
  {image, [image EXCEPT !.catalog = NoFile],
   [NoDirectory EXCEPT !.catalog = image.catalog], NoDirectory}

DropDatabaseFails(d) ==
  /\ Serving /\ Admin /\ faults < MaxFaults
  /\ d \in DOMAIN loaded
  /\ \E image \in Closed(Manager, d) : \E remains \in Remains(image) :
       Set([Manager EXCEPT !.loaded = Without(@, {d}), !.disk[d] = remains])
  /\ ManagerAfterDrop(d)
  /\ Unsure({d})
  /\ faults' = faults + 1
  /\ ops' = ops + 1
  /\ UNCHANGED <<mode, status, wanted, durable, lost, shifted>>

Use(d) ==
  /\ Serving
  /\ CanLoad(Manager, d)
  /\ Set(useDatabase(Manager, d))
  /\ manager' = d
  /\ Counted
  /\ UNCHANGED <<mode, status, history>>

\* A statement on the catalog of the current database, which is then saved.
ChangeCatalog(db, w, flush) ==
  /\ \E s \in Saved(Extended(disk[current], db), db) :
       /\ Set(Put(Manager, current, s.db, IF flush THEN flushAllPages(s.image, s.db) ELSE s.image))
       /\ Unsure(IF s.ok THEN {} ELSE {current})
  /\ Expect(current, w)
  /\ durable' = [durable EXCEPT ![current] = DurableAfter(w, flush \/ mode = "database", @)]
  /\ Counted
  /\ UNCHANGED <<mode, status, manager, lost, shifted>>

Selected == Serving /\ current \in DOMAIN loaded

CreateTable(t) ==
  /\ Selected /\ Admin
  /\ ~tableExists(loaded[current].catalog, t)
  /\ ChangeCatalog(
       [loaded[current] EXCEPT
          !.catalog = createTable(@, t, TableDef(Len(loaded[current].pages) + 1, 1)),
          !.pages = Append(@, TablePageInit)],
       [wanted[current] EXCEPT !.tables = With(@, t, {})], FALSE)

DropTable(t) ==
  /\ Selected /\ Admin
  /\ tableExists(loaded[current].catalog, t)
  /\ ChangeCatalog([loaded[current] EXCEPT !.catalog = dropTable(@, t)],
                   [wanted[current] EXCEPT !.tables = Without(@, {t})], FALSE)

CreateIndex(i, t) ==
  /\ Selected
  /\ tableExists(loaded[current].catalog, t)
  /\ ~indexExists(loaded[current].catalog, i)
  /\ ChangeCatalog([loaded[current] EXCEPT !.catalog = createIndex(@, i, t)],
                   [wanted[current] EXCEPT !.tables = With(@, t, (IF t \in DOMAIN @ THEN @[t] ELSE {}) \cup {i})],
                   TRUE)

DropIndex(i) ==
  /\ Selected
  /\ indexExists(loaded[current].catalog, i)
  /\ ChangeCatalog([loaded[current] EXCEPT !.catalog = dropIndex(@, i)],
                   [wanted[current] EXCEPT !.tables = [t \in DOMAIN @ |-> @[t] \ {i}]], FALSE)

\* SAVE: nothing is flushed if the catalog could not be saved.
Save ==
  /\ Selected
  /\ \E s \in Saved(disk[current], loaded[current]) :
       /\ Set(Put(Manager, current, s.db, IF s.ok THEN flushAllPages(s.image, s.db) ELSE s.image))
       /\ Unsure(IF s.ok THEN {} ELSE {current})
  /\ durable' = [durable EXCEPT ![current] = wanted[current]]
  /\ Counted
  /\ UNCHANGED <<mode, status, manager, wanted, lost, shifted>>

-----------------------------------------------------------------------------
\* Users and permissions: records are changed in the pool only.

ChangePages(m, d, pages, w) ==
  /\ Set(Put(m, d, [m.loaded[d] EXCEPT !.pages = pages], m.disk[d]))
  /\ Expect(d, w)
  /\ Counted
  /\ UNCHANGED <<mode, status, manager, durable, doubtful, lost>>

ChangeUsers(pages, users) ==
  ChangePages(Manager, "qindb", pages, [wanted["qindb"] EXCEPT !.users = users])

CreateUser(name, password, admin) ==
  /\ Serving
  /\ ~Known(name)
  /\ ChangeUsers(createUser(UserTable.pages, UsersPage(UserTable), name, password, admin),
                 With(wanted["qindb"].users, name, NewUser(password, admin)))
  /\ UNCHANGED shifted

Shift(name) ==
  LET pages == UserTable.pages
  IN  shifted' = (shifted \/ ~PositionIsSlot(pages[PageOf(pages, UsersPage(UserTable), name)], name))

DropUser(name) ==
  /\ Serving
  /\ canDropUser(UserTable.pages, UsersPage(UserTable), name)
  /\ ChangeUsers(deleteUser(UserTable.pages, UsersPage(UserTable), name),
                 Without(wanted["qindb"].users, {name}))
  /\ Shift(name)

AlterUser(name, password) ==
  /\ Serving
  /\ Known(name)
  /\ ChangeUsers(updateUser(UserTable.pages, UsersPage(UserTable), name, password),
                 [n \in DOMAIN wanted["qindb"].users |->
                    IF n = name THEN [wanted["qindb"].users[n] EXCEPT !.password = password]
                    ELSE wanted["qindb"].users[n]])
  /\ Shift(name)

CanGrant(g) ==
  /\ Serving /\ Admin
  /\ manager \in DOMAIN loaded
  /\ Known(g.user)

\* For a table, the target database is made the current one to look the table up,
\* and then the current one again, if it can be used.
Switched(g) == IF g.table = "" THEN Manager ELSE useDatabase(Manager, g.db)

SwitchedBack(g) == IF g.table = "" THEN Manager ELSE useDatabase(Switched(g), current)

TableSeen(g) ==
  \/ g.table = ""
  \/ /\ IsLoaded(Switched(g), Switched(g).current)
     /\ tableExists(Switched(g).loaded[Switched(g).current].catalog, g.table)

Grant(g) ==
  LET m == SwitchedBack(g)
      pages == m.loaded[manager].pages
  IN
  /\ CanGrant(g)
  /\ databaseExists(Manager, g.db) /\ TableSeen(g)
  /\ ChangePages(m, manager, grantPermission(pages, PermissionsPage(m.loaded[manager]), g),
                 [wanted[manager] EXCEPT !.grants = @ \cup {g}])
  /\ UNCHANGED shifted

GrantRefused(g) ==
  /\ CanGrant(g)
  /\ databaseExists(Manager, g.db) /\ ~TableSeen(g)
  /\ Set(SwitchedBack(g))
  /\ Counted
  /\ UNCHANGED <<mode, status, manager, history>>

Revoke(g) ==
  LET db == loaded[manager]
  IN
  /\ CanGrant(g)
  /\ findPermission(db.pages, PermissionsPage(db), g)
  /\ ChangePages(Manager, manager, revokePermission(db.pages, PermissionsPage(db), g),
                 [wanted[manager] EXCEPT !.grants = @ \ {g}])
  /\ UNCHANGED shifted

-----------------------------------------------------------------------------
\* The ends of the process.

Down(m) ==
  /\ Set([m EXCEPT !.loaded = NoDefs, !.current = ""])
  /\ status' = "down"
  /\ manager' = ""
  /\ UNCHANGED <<mode, shifted, ops>>

AllDurable == durable' = [d \in Databases |-> IF d \in DOMAIN loaded THEN wanted[d] ELSE durable[d]]

\* exit: the destructor closes the loaded databases and writes databases.json.
Exit ==
  /\ Up
  /\ \E closed \in AllClosed(Manager) : Down(saveToDisk(closed))
  /\ AllDurable
  /\ UNCHANGED <<wanted, doubtful, lost, faults>>

\* The process dies when databases.json is open for writing.
ExitInterrupted ==
  /\ Up /\ faults < MaxFaults
  /\ \E closed \in AllClosed(Manager) :
       Down([closed EXCEPT !.meta = [state |-> "torn", current |-> ""]])
  /\ AllDurable
  /\ faults' = faults + 1
  /\ UNCHANGED <<wanted, doubtful, lost>>

\* SIGINT: the databases with a catalog.json are used one after another, flushed
\* and saved; loading one and saving it changes nothing on disk.  Catalogs in system
\* pages have no such file: then nothing is flushed, and what was not is lost.
Interrupt ==
  LET named == {d \in Databases : disk[d].catalog.state # "missing" /\ CanLoad(Manager, d)}
      saved == [d \in Databases |->
                  IF d \in named /\ d \in DOMAIN loaded
                  THEN (CHOOSE s \in Saved(flushAllPages(disk[d], loaded[d]), loaded[d]) : TRUE).image
                  ELSE disk[d]]
      last == IF named = {} \/ (current \in Databases /\ CanLoad(Manager, current))
              THEN current ELSE LastOf(named)
  IN
  /\ Up
  /\ Down(saveToDisk([Manager EXCEPT !.disk = saved, !.current = last]))
  /\ durable' = [d \in Databases |->
                   IF d \in named /\ d \in DOMAIN loaded THEN wanted[d] ELSE durable[d]]
  /\ wanted' = durable'
  /\ lost' = lost \cup Taken("signal")
  /\ UNCHANGED <<doubtful, faults>>

Crash ==
  /\ Up /\ faults < MaxFaults
  /\ Down(Manager)
  /\ wanted' = durable
  /\ faults' = faults + 1
  /\ UNCHANGED <<durable, doubtful, lost>>

\* The process dies in SAVE: with catalog.json open for writing, or between two
\* of the pages it writes, the system pages first.
CatalogTorn(d) == mode = "file" /\ disk' = [disk EXCEPT ![d].catalog = TornFile]

PartlyFlushed(d, k) ==
  \E s \in Saved(disk[d], loaded[d]) :
    LET n == IF mode = "file" THEN k ELSE k - 3
    IN  /\ s.ok
        /\ disk' = [disk EXCEPT ![d] =
             [s.image EXCEPT
                !.sys = [tables |-> IF k >= 1 THEN s.db.sys.tables ELSE disk[d].sys.tables,
                         columns |-> IF k >= 2 THEN s.db.sys.columns ELSE disk[d].sys.columns,
                         indexes |-> IF k >= 3 THEN s.db.sys.indexes ELSE disk[d].sys.indexes],
                !.pages = [p \in DOMAIN @ |-> IF p <= n THEN s.db.pages[p] ELSE disk[d].pages[p]]]]

CrashInSave(k) ==
  /\ Selected /\ faults < MaxFaults
  /\ (k = 0 /\ CatalogTorn(current)) \/ PartlyFlushed(current, k)
  /\ loaded' = NoDefs /\ current' = "" /\ manager' = "" /\ status' = "down"
  /\ wanted' = durable
  /\ Unsure({current})
  /\ faults' = faults + 1
  /\ UNCHANGED <<mode, meta, durable, lost, shifted, ops>>

Next ==
  \/ Start
  \/ RefuseToStart
  \/ \E d \in Databases : CreateDatabase(d)
  \/ \E d \in Databases : DropDatabase(d)
  \/ \E d \in Databases : DropDatabaseFails(d)
  \/ \E d \in Databases : Use(d)
  \/ \E t \in Tables : CreateTable(t)
  \/ \E t \in Tables : DropTable(t)
  \/ \E i \in IndexNames, t \in Tables : CreateIndex(i, t)
  \/ \E i \in IndexNames : DropIndex(i)
  \/ Save
  \/ \E name \in Users, password \in Passwords, admin \in BOOLEAN : CreateUser(name, password, admin)
  \/ \E name \in Users : DropUser(name)
  \/ \E name \in Users, password \in Passwords : AlterUser(name, password)
  \/ \E g \in Grants : Grant(g)
  \/ \E g \in Grants : GrantRefused(g)
  \/ \E g \in Grants : Revoke(g)
  \/ Exit
  \/ ExitInterrupted
  \/ Interrupt
  \/ Crash
  \/ \E k \in 0..4 : CrashInSave(k)

Spec == Init /\ [][Next]_vars

-----------------------------------------------------------------------------
\* What the managers show of a loaded database.

ShownTables(db) ==
  [t \in DOMAIN db.catalog.tables \ SystemTables |->
     {i.name : i \in db.catalog.tables[t].indexes}]

ShownGrants(db) == Range(LiveRecords(db.pages, PermissionsPage(db)))

ShownUsers(db) == getAllUsers(db.pages, UsersPage(db))

\* What a statement may ask for, and which grants allow it.
Asked == [user : Users, db : Databases, table : Tables, type : {"SELECT", "INSERT"}]

Covers(w, g) ==
  w.user = g.user /\ w.db = g.db /\ w.table \in {"", g.table} /\ w.type \in {"ALL", g.type}

Trusted == {d \in DOMAIN loaded : Up /\ d \notin doubtful}

\* The map of indexes and the tables' lists agree in every loaded catalog, whatever
\* was created, dropped, saved and loaded (catalog.cpp:152, 95, 381).
CatalogsAgree == \A d \in Trusted : IndexesAgree(loaded[d].catalog)

\* Every table and index that was created and not dropped is there, across exits,
\* signals and crashes: the catalog is saved before a statement is answered.  Not
\* so where a save was cut off or did not fit on the system pages, and where a
\* database was made anew over the one that was there (then wanted is what was made
\* since).  CREATE DATABASE does that to a database that is not loaded
\* (database_manager.cpp:58); a start does it to "qindb" only if catalogs are in
\* system pages and another database was the last current one, as databaseExists
\* looks for catalog.json (main.cpp:1440); a signal never takes a table.
TablesSurvive ==
  /\ \A d \in Trusted : ShownTables(loaded[d]) = wanted[d].tables
  /\ LostBy("tables") \subseteq (IF mode = "file" THEN {"create"} ELSE {"create", "start"})

\* The permissions are those granted and not revoked, each once, and what a user may
\* do is what they cover; a crash takes them back to the last flush
\* (permission_manager.cpp:56, 134, 199).  With catalogs in files nothing else but
\* CREATE DATABASE over an unloaded database takes one; in system pages so does the
\* start that makes "qindb" anew, and SIGINT, which then flushes nothing although
\* main.cpp:44 says that it saves all data.
GrantsAreExact ==
  /\ \A d \in Trusted :
       /\ {r.grant : r \in ShownGrants(loaded[d])} = wanted[d].grants
       /\ Len(LiveRecords(loaded[d].pages, PermissionsPage(loaded[d]))) = Cardinality(wanted[d].grants)
       /\ \A g \in Asked :
            hasPermission(loaded[d].pages, PermissionsPage(loaded[d]), g) <=>
              \E w \in wanted[d].grants : Covers(w, g)
  /\ mode = "file" => LostBy("grants") \subseteq {"create"}

\* As long as the position of a user's record was its slot whenever a user was
\* dropped or altered, the users are those created and not dropped, each once and
\* with its last password; a crash takes them back to the last flush.  With catalogs
\* in files nothing else takes a user; in system pages a start that makes "qindb"
\* anew and SIGINT do, but never a statement.
UsersAreExact ==
  /\ ("qindb" \in Trusted /\ ~shifted) =>
       /\ Len(ShownUsers(UserTable)) = Cardinality(DOMAIN wanted["qindb"].users)
       /\ \A r \in Range(ShownUsers(UserTable)) :
            /\ r.name \in DOMAIN wanted["qindb"].users
            /\ wanted["qindb"].users[r.name] = NewUser(r.password, r.admin)
  /\ LostBy("users") \subseteq (IF mode = "file" THEN {} ELSE {"start", "signal"})

\* Under the same condition an administrator is left (auth_manager.cpp:184).
AnAdminIsLeft ==
  ("qindb" \in Trusted /\ ~shifted) => \E r \in Range(ShownUsers(UserTable)) : r.admin

\* The process can always be started again, unless a crash tore the catalog of the
\* system database or a DROP left a part of its directory: no sequence of statements,
\* exits and signals alone leaves a catalog that cannot be read, or one without its
\* data file (main.cpp:1467).
RefusedOnlyAfterAFault == status = "refused" => "qindb" \in doubtful

=============================================================================
