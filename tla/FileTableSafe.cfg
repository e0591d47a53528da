\* Two filesystems, a table that grows, attach and detach in any order.
SPECIFICATION Spec
CONSTANTS
  MAX_FILESYSTEMS = 2
  HANDLE_MAX_BUCKETS = 2
  HANDLE_BUCKET_SIZE = 4
  rom = rom
  sd = sd
  Prefixes = {p, q}
  Filesystems = {rom, sd}
  Supports <- MCSupports
  Handles = {1, 2, 3, 4, 5}
  Hash <- MCHash
  BssCleared = TRUE
  NULL = NULL
  CallocFails = TRUE
  DetachBusy = FALSE
INVARIANTS
  TypeOK
  OpenCountMatches
  FilesResolve
  NoSlotLeak
PROPERTIES
  LostOnlyWhenFull
  ImplementsFiles
SYMMETRY MCSymmetry
CHECK_DEADLOCK FALSE
