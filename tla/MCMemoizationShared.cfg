SPECIFICATION MCSpec
CONSTANTS
  Threads = {"t1", "t2"}
  Nobody = "nobody"
  Functions = {"f", "g"}
  Keys = {"f0", "g1", "f2"}
  FunctionOf <- MCFunctionOf
  Calls <- MCCalls
  Rank <- MCRank
  Items = 2
  OneIterator = TRUE
  Sharing = TRUE
  MaxNext = 4
INVARIANT
  ItemsInOrder
CHECK_DEADLOCK FALSE
