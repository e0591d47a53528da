\* Progress with timeouts but no lasting failure, and a reset at any moment:
\* calls before it may be lost, every other returns.
SPECIFICATION FairSpec
CONSTANTS
  LastWord = 1
  Levels = {0}
  MaxCalls = 3
  BodyChunks = 2
  MaxResets = 1
  BusyCovers = {"send", "reply"}
  Faults = {"transient"}
INVARIANTS
  NeverStuck
PROPERTIES
  ReceiveReturns
  TransmitReturns
  ImplementsFairRpc
CHECK_DEADLOCK FALSE
