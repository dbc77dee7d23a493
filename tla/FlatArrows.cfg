\* Every arrow key, with what its undefined behaviour may leave behind.
SPECIFICATION FairFlatSpec
CONSTANTS
  LINE_CAPACITY = 2
  HISTORY_SLOTS = 2
  ARGV_CAPACITY = 2
  Chars = {"a"}
  Finals = {"A", "B", "C"}
  ExitCodes = {1}
  MayFail = TRUE
INVARIANTS
  SlotsTerminated
PROPERTIES
  FailedInputEnds
CHECK_DEADLOCK FALSE
