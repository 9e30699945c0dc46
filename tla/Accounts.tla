------------------------------- MODULE Accounts -------------------------------
(***************************************************************************)
(* Users (src/auth/auth_manager.cpp) and permissions                       *)
(* (src/auth/permission_manager.cpp): records of two system tables, which  *)
(* the managers read and write on the table pages themselves, without      *)
(* transactions and without a log.                                         *)
(*                                                                         *)
(* The pages of a database are a sequence; a table is the chain of pages   *)
(* from its first one.  A page the file was extended with is not ready for *)
(* records.  A record keeps its slot when it is marked deleted.            *)
(***************************************************************************)
EXTENDS Integers, Sequences, Functions

CONSTANTS
  PageRecords,   \* records that fit on a page
  NameLength     \* of each user: all that the sizes of user records differ in

NoNext == 0

BlankPage == [ready |-> FALSE, slots |-> << >>, next |-> NoNext]

TablePageInit == [ready |-> TRUE, slots |-> << >>, next |-> NoNext]

\* The pages of a table, in the order of their links.
Chain(pages, first) ==
  LET from[p \in 0..Len(pages)] ==
        IF p = NoNext THEN << >> ELSE <<p>> \o from[pages[p].next]
  IN  from[first]

Live(slots) == SelectSeq(slots, LAMBDA r : ~r.deleted)

\* The records no one has deleted, in the order of the chain.
LiveRecords(pages, first) ==
  LET from[p \in 0..Len(pages)] ==
        IF p = NoNext THEN << >> ELSE Live(pages[p].slots) \o from[pages[p].next]
  IN  from[first]

HasRoom(page) == page.ready /\ Len(page.slots) < PageRecords

\* insertUser and insertPermissionRecord: the first page of the chain that takes
\* the record, or a new page at its end.
InsertRecord(pages, first, record) ==
  LET chain == Chain(pages, first)
      takes == SelectSeq(chain, LAMBDA p : HasRoom(pages[p]))
  IN  IF takes # << >> THEN [pages EXCEPT ![Head(takes)].slots = Append(@, record)]
      ELSE Append([pages EXCEPT ![chain[Len(chain)]].next = Len(pages) + 1],
                  [TablePageInit EXCEPT !.slots = <<record>>])

-----------------------------------------------------------------------------
UserRecord(name, password, admin) ==
  [name |-> name, password |-> password, admin |-> admin,
   size |-> NameLength[name], deleted |-> FALSE]

getAllUsers(pages, first) == LiveRecords(pages, first)

\* getUserFromDatabase: the first live record with the name, if there is one.
Found(pages, first, name) == SelectSeq(getAllUsers(pages, first), LAMBDA r : r.name = name)

userExists(pages, first, name) == Found(pages, first, name) # << >>

isUserAdmin(pages, first, name) ==
  userExists(pages, first, name) /\ Head(Found(pages, first, name)).admin

createUser(pages, first, name, password, admin) ==
  InsertRecord(pages, first, UserRecord(name, password, admin))

\* Mutant: the last administrator can be dropped.
canDropUser_LastAdmin(pages, first, name) == userExists(pages, first, name)

\* The last administrator cannot be dropped.
canDropUser(pages, first, name) ==
  /\ userExists(pages, first, name)
  /\ isUserAdmin(pages, first, name) =>
       Len(SelectSeq(getAllUsers(pages, first), LAMBDA r : r.admin)) > 1

\* The page of a user, and its position among the live records of the page.
PageOf(pages, first, name) ==
  Head(SelectSeq(Chain(pages, first), LAMBDA p : \E k \in DOMAIN pages[p].slots :
    pages[p].slots[k].name = name /\ ~pages[p].slots[k].deleted))

PositionOf(page, name) ==
  CHOOSE k \in DOMAIN Live(page.slots) :
    /\ Live(page.slots)[k].name = name
    /\ \A j \in 1..(k - 1) : Live(page.slots)[j].name # name

\* deleteUser takes that position for the number of the slot: it marks the record
\* there deleted, if it is not yet.
deleteUser(pages, first, name) ==
  LET p == PageOf(pages, first, name)
  IN  [pages EXCEPT ![p].slots[PositionOf(pages[p], name)].deleted = TRUE]

\* updateUser as well: a copy of the user's record with the new password goes to
\* that slot; if the record there is deleted or shorter, to the end of the page,
\* or to a new page after it.
Copied(page, name, password) ==
  [Live(page.slots)[PositionOf(page, name)] EXCEPT !.password = password, !.size = NameLength[name]]

InPlace(page, name) ==
  LET slot == page.slots[PositionOf(page, name)]
  IN  ~slot.deleted /\ NameLength[name] <= slot.size

\* Mutant: the copy never replaces the record.
updateUser_Append(pages, first, name, password) ==
  InsertRecord(pages, first, Copied(pages[PageOf(pages, first, name)], name, password))

updateUser(pages, first, name, password) ==
  LET p == PageOf(pages, first, name)
      record == Copied(pages[p], name, password)
  IN  CASE InPlace(pages[p], name) ->
             [pages EXCEPT ![p].slots[PositionOf(pages[p], name)] = record]
        [] ~InPlace(pages[p], name) /\ HasRoom(pages[p]) ->
             [pages EXCEPT ![p].slots = Append(@, record)]
        [] OTHER ->
             Append([pages EXCEPT ![p].next = Len(pages) + 1],
                    [ready |-> TRUE, slots |-> <<record>>, next |-> pages[p].next])

\* The position is the slot as long as no record before it is deleted.
PositionIsSlot(page, name) ==
  \A k \in 1..PositionOf(page, name) : ~page.slots[k].deleted

-----------------------------------------------------------------------------
\* A permission: who, on which table ("" for all) of which database, for what.
PermissionRecord(g) == [grant |-> g, deleted |-> FALSE]

findPermission(pages, first, g) ==
  \E k \in DOMAIN LiveRecords(pages, first) : LiveRecords(pages, first)[k].grant = g

\* Mutant: a grant is entered again.
grantPermission_Again(pages, first, g) == InsertRecord(pages, first, PermissionRecord(g))

grantPermission(pages, first, g) ==
  IF findPermission(pages, first, g) THEN pages
  ELSE InsertRecord(pages, first, PermissionRecord(g))

\* Every record of the permission is marked; here the list has the deleted ones too
\* and positions are slots.
revokePermission(pages, first, g) ==
  [p \in DOMAIN pages |->
     IF p \notin Range(Chain(pages, first)) THEN pages[p]
     ELSE [pages[p] EXCEPT !.slots = [k \in DOMAIN @ |->
             IF @[k].grant = g THEN [@[k] EXCEPT !.deleted = TRUE] ELSE @[k]]]]

\* A permission on the whole database, or for everything, is enough.
hasPermission(pages, first, g) ==
  \/ findPermission(pages, first, [g EXCEPT !.table = "", !.type = "ALL"])
  \/ findPermission(pages, first, [g EXCEPT !.type = "ALL"])
  \/ findPermission(pages, first, [g EXCEPT !.table = ""])
  \/ findPermission(pages, first, g)

=============================================================================
