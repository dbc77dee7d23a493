\* A line that fills the buffer.
SPECIFICATION FlatSpec
CONSTANTS
  LINE_CAPACITY = 3
  HISTORY_SLOTS = 2
  ARGV_CAPACITY = 2
  Chars = {"a"}
  Finals = {}
  ExitCodes = {0, 1}
  MayFail = FALSE
INVARIANT
  LineTerminated
CHECK_DEADLOCK FALSE
