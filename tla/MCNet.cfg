SPECIFICATION MCSpec
CONSTANTS
  Sessions <- MCSessions
  Controls = {"c1"}
  Idents = {1, 2}
  Parts <- MCParts
  MaxParts = 3
  ChunkMax = 8
  Limit = 8
  Lines = {"stmt", "open", "big", "quit"}
  InCap = 1
  MaxLines = 3
  MaxInterrupts = 1
  Outputs <- MCOutputs
  ReadMax = 3
  MaxTyped = 1
  MaxCtrlC = 2
INVARIANTS
  MCTypeOK
  MisdirectedOnlyAfterDeath
  InputInOrder
  ShownInOrder
  TransportHandedBack
  MessagesArrive
PROPERTIES
  HaltHonoured
  EndsAreReached
  PromptsAreAnswered
CHECK_DEADLOCK FALSE
