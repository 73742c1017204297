SPECIFICATION MCSpec
CONSTANTS
  Sessions <- MCSessions
  Controls = {"c1"}
  Idents = {1, 2}
  Parts <- MCParts
  MaxParts = 3
  ChunkMax = 8
  Limit = 8
  Lines = {"stmt", "open", "big", "quit"}
  InCap = 1
  MaxLines = 2
  MaxInterrupts = 0
  Outputs <- MCOutputs
  ReadMax = 3
  MaxTyped = 1
  MaxCtrlC = 2
PROPERTY DroppedClientIsCleanedUp
CHECK_DEADLOCK FALSE
