\* Clients detach a filesystem that has open files.
SPECIFICATION Spec
CONSTANTS
  MAX_FILESYSTEMS = 2
  HANDLE_MAX_BUCKETS = 2
  HANDLE_BUCKET_SIZE = 4
  rom = rom
  sd = sd
  Prefixes = {p, q}
  Filesystems = {rom, sd}
  Supports <- MCSupports
  Handles = {1, 2}
  Hash <- MCHash
  BssCleared = TRUE
  NULL = NULL
  CallocFails = FALSE
  DetachBusy = TRUE
INVARIANTS
  CallsRightFilesystem
CHECK_DEADLOCK FALSE
