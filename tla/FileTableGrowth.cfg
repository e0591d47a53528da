\* When the table grows, with a bucket of 8 handles.
SPECIFICATION Spec
CONSTANTS
  MAX_FILESYSTEMS = 1
  HANDLE_MAX_BUCKETS = 2
  HANDLE_BUCKET_SIZE = 8
  rom = rom
  sd = sd
  Prefixes = {p}
  Filesystems = {rom}
  Supports <- MCSupportsNoClose
  Handles = {1, 2, 3, 4, 5, 6, 7, 8, 9}
  Hash <- MCHash
  BssCleared = TRUE
  NULL = NULL
  CallocFails = FALSE
  DetachBusy = FALSE
PROPERTIES
  GrowsAt75
CHECK_DEADLOCK FALSE
