\* The payload's life on top of the link, with timeouts, a failure of each
\* step of the start and one reset: its order, and that it gets on.
SPECIFICATION FairPayloadSpec
CONSTANTS
  LastWord = 1
  Levels = {1}
  MaxCalls = 2
  BodyChunks = 1
  MaxResets = 1
  BusyCovers = {"send", "reply"}
  Faults = {"transient"}
  BootFrames = 2
  ErrorCodes = {3, 7}
  BssCleared = TRUE
INVARIANTS
  PayloadTypeOK
  CartBeforeLibrary
  CoinsTellError
PROPERTIES
  WaitsForFrames
  GameResumes
  StartEnds
CHECK_DEADLOCK FALSE
