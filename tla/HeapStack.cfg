\* The heap alone: a memory of nine units, the stack at the end of the seventh.
SPECIFICATION HeapSpec
CONSTANTS
  HEAP_START_ADDR = 2
  CLN_STACK = 7
  STACK_SIZE = 2
  MaxBreak = 9
  Increments = {0, 1, 3}
  BssCleared = TRUE
INVARIANT HeapClearOfStack
