SPECIFICATION MCSpec
CONSTANTS
  Main = "main"
  Children = {"c1"}
  Names = {"x", "y"}
  Values = {1, 2}
  Unbound = 0
  Lets <- MCLets
  Updates <- MCUpdates
  Defaults <- MCDefaults
  MaxScopes = 3
  MaxViews = 1
  MaxDepth = 4
  MaxRuns = 2
INVARIANTS
  MCTypeOK
  StacksFollowBlocks
  OnlyInheritedIsShared
  BookkeepingMatchesNesting
  FailuresAreReported
PROPERTY
  WholeUpdates
CHECK_DEADLOCK FALSE
