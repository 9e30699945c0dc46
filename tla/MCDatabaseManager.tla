-------------------------- MODULE MCDatabaseManager --------------------------
(***************************************************************************)
(* A small server: the system database and one more, of which the second   *)
(* comes first in order.  A catalog kept in pages has room for three       *)
(* tables, five columns and one index, so that a save may stop half way.   *)
(***************************************************************************)
EXTENDS DatabaseManager

MCDbOrder == <<"d", "qindb">>

MCNameLength == [u \in Users |-> CASE u = "admin" -> 5 [] u = "bob" -> 3 [] OTHER -> 1]

MCGrants ==
  {[user |-> "bob", db |-> "d", table |-> "", type |-> "SELECT"],
   [user |-> "bob", db |-> "d", table |-> "t", type |-> "ALL"]}
=============================================================================
