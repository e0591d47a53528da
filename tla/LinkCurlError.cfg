\* A libcurl error other than a timeout leaves the receive without an end.
SPECIFICATION FairSpec
CONSTANTS
  LastWord = 1
  Levels = {}
  MaxCalls = 1
  BodyChunks = 1
  MaxResets = 0
  BusyCovers = {"send", "reply"}
  Faults = {"curl"}
PROPERTIES
  ReceiveReturns
CHECK_DEADLOCK FALSE
