CONSTANTS
  TableTuples = 3
  ColumnTuples = 5
  IndexTuples = 1
  PageRecords = 3
  NameLength <- MCNameLength
  Modes = {"file", "database"}
  DbOrder <- MCDbOrder
  Tables = {"t", "u"}
  IndexNames = {"i"}
  Users = {"admin", "bob"}
  Passwords = {"p"}
  Grants <- MCGrants
  PermissionColumns = 2
  UserColumns = 2
  MaxOps = 7
  MaxFaults = 1

SPECIFICATION Spec
CHECK_DEADLOCK FALSE

INVARIANTS CatalogsAgree TablesSurvive GrantsAreExact UsersAreExact AnAdminIsLeft RefusedOnlyAfterAFault
