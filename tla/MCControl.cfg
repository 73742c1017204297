SPECIFICATION MCSpec
CONSTANTS
  Threads = {"t1", "t2"}
  Keys = {"cat", "one"}
  SingletonClasses = {"one"}
  MaxObjects = 2
  Nobody = "nobody"
  NoObject = 0
  Tags = {"t"}
  None = None
  Trampolined = Trampolined
  Inert = Inert
  Uids = {"u1", "u2"}
  Lengths = {0, 2}
  MaxDepth = 4
  MaxEcs = 2
  Catchers <- MCCatchers
  Throws <- MCThrows
  Functions <- MCFunctions
  FixKeys = {"a", "b", "c"}
  Tco = {"a", "b"}
  Memo = {"a"}
  MaxCalls = 1
  Forcers = {"f1", "f2"}
  Thunks = {"returns", "raises", "escapes"}
  MaxRuns = 3
  MaxForces = 2
  Identifiers = {"x", "y", "_do0_result"}
  Reserved = {"set"}
  Malformed = {"2x"}
  Values = {1, 2}
  Mappings <- MCMappings
  Forms <- MCForms
  Unnamed = Unnamed
  Do0Result = "_do0_result"
  MaxMade = 5
  MaxNested = 1
  Entries = {"a", "b"}
  InitLists <- MCInitLists
  Slices <- MCSlices
  MaxLen = 3
  MaxViews = 2
INVARIANTS
  MCTypeOK
  OneObjectPerKey
  ForcedOnce
  ViewsAreLive
PROPERTIES
  EscapesArrive
  CyclesAreCut
  BindingsAreKept
CHECK_DEADLOCK FALSE
