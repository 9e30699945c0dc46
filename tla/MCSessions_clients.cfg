SPECIFICATION Spec
CONSTANTS
  Clients = {"c1", "c2"}
  Databases = {"qindb", "d"}
  Missing = "none"
  Limits = {1, 2}
  MaxRequests = 3
  MaxFaults = 1
INVARIANTS AnswersAreForTheRequest RowsAreWhereThePromptSaid TransactionsAreKept SessionsAreApart
PROPERTIES ConnectionsAreGivenBack
CHECK_DEADLOCK FALSE
