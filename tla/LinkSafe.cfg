\* Every interleaving of the driver, the cartridge and the PC, with
\* timeouts and retries, failures of every kind and two console resets.
SPECIFICATION Spec
CONSTANTS
  LastWord = 1
  Levels = {0, 3}
  MaxCalls = 3
  BodyChunks = 2
  MaxResets = 2
  BusyCovers = {"send", "reply"}
  Faults = {"transient", "curl", "usb", "crash", "flush"}
INVARIANTS
  TypeOK
  RepliesMatch
  RequestsWhole
  NothingUnasked
  IInv
  AnswersBounded
PROPERTIES
  NoWriteUnderSend
  PostedOnce
  StepsRunOut
  ImplementsRpc
CHECK_DEADLOCK FALSE
