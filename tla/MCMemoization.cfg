SPECIFICATION MCSpec
CONSTANTS
  Threads = {"t1", "t2"}
  Nobody = "nobody"
  Functions = {"f", "g"}
  Keys = {"f0", "g1", "f2"}
  FunctionOf <- MCFunctionOf
  Calls <- MCCalls
  Rank <- MCRank
  Items = 2
  OneIterator = FALSE
  Sharing = FALSE
  MaxNext = 4
INVARIANTS
  MCTypeOK
  ComputedOnce
  ItemsInOrder
PROPERTIES
  ImplementsTable
  CallsAndNextReturn
CHECK_DEADLOCK FALSE
