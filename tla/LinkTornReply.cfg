\* CMD_BUSY is about commands of the N64: the wait of a receive does not
\* wait for the message that the PC is still writing.
SPECIFICATION Spec
CONSTANTS
  LastWord = 1
  Levels = {}
  MaxCalls = 1
  BodyChunks = 1
  MaxResets = 0
  BusyCovers = {"send"}
  Faults = {}
INVARIANTS
  TransferComplete
CHECK_DEADLOCK FALSE
