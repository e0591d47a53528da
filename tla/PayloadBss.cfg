\* The static variables hold what an earlier run left in memory.
SPECIFICATION PayloadSpec
CONSTANTS
  LastWord = 1
  Levels = {}
  MaxCalls = 0
  BodyChunks = 1
  MaxResets = 1
  BusyCovers = {"send", "reply"}
  Faults = {}
  BootFrames = 2
  ErrorCodes = {3}
  BssCleared = FALSE
PROPERTIES
  WaitsForFrames
CHECK_DEADLOCK FALSE
