SPECIFICATION Spec
CONSTANTS
  Names = {"r", "proceed"}
  Types = {"C"}
  ControlError = "ControlError"
  RestartSets <- MCRestartSets
  ClauseLists <- MCClauseLists
  Contexts = {1, 2, 3, 4, 5, 6}
  MaxDepth = 5
INVARIANT UnwindsToMatching
CHECK_DEADLOCK FALSE
