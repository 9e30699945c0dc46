CONSTANTS
  NewTree <- EmptyTree
  InsertInto <- TreeInsert
  RemoveFrom <- TreeRemove
  maxKeysPerPage = 3
  PageSpace = 8144
  Buckets = {0, 7, 9}
  BucketOf <- MCBucketOf
  Mode = "MIXED"
  StopWords = {"the"}
  TreeKeys <- MCTreeKeys
  RangeBounds <- MCRangeBounds
  HashKeys <- MCHashKeys
  RowIds = {1, 2}
  Documents = {1, 2}
  Texts <- MCTexts
  Threads = {1, 2}
  MaxOps <- MCMaxOps
SPECIFICATION Spec
INVARIANTS TreeFindsLastInsert TreeRangesAreExact TreeKeepsEntries HashFindsAllRows PostingsMatchTexts SearchesAgree
CHECK_DEADLOCK FALSE
