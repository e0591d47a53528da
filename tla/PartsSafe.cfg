\* The parts that share no state with the others, one at a time.
SPECIFICATION PartsSpec
CONSTANTS
  Clobbers <- MCClobbers
  HomeSets <- MCHomeSets
  WideSets <- MCWideSets
  MaxFrames = 2
  HEAP_START_ADDR = 2
  CLN_STACK = 7
  STACK_SIZE = 2
  MaxBreak = 9
  Increments <- MCIncrements
  BssCleared = TRUE
  Clients <- MCClients
  Functions <- MCFunctions
  NoFunction = "none"
  Table <- MCTable
  ImageBlocks = 3
  PiAddresses = {1, 2}
  PiValues = {0, 1}
  MaxAccesses = 4
  MAX_FILESYSTEMS = 2
  HANDLE_MAX_BUCKETS = 1
  HANDLE_BUCKET_SIZE = 4
  rom = rom
  sd = sd
  Prefixes = {p, q, r}
  Filesystems = {rom, sd}
  Supports <- MCSupports
  PathCalls <- MCPathCalls
  Handles = {1, 2}
  Hash <- MCHash
  NULL = NULL
  CallocFails = FALSE
  DetachBusy = FALSE
INVARIANTS
  GameKeepsRegisters
  MemoryOnce
  CallsReachHooked
  ImageInPlace
  PathsResolve
  RegistersTrue
PROPERTIES
  ServedUntilUnhook
CHECK_DEADLOCK FALSE
