\* Lines of up to three words; two slots, no escape sequences.
SPECIFICATION FlatSpec
CONSTANTS
  LINE_CAPACITY = 5
  HISTORY_SLOTS = 2
  ARGV_CAPACITY = 3
  Chars = {"a"}
  Finals = {}
  ExitCodes = {1}
  MayFail = FALSE
INVARIANTS
  FlatTypeOK
  NewestIsLine
PROPERTIES
  HistoryIsQueue
CHECK_DEADLOCK FALSE
