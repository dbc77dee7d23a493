\* Lines of up to five characters; a table of two words.
SPECIFICATION WordsSpec
CONSTANTS
  LINE_CAPACITY = 6
  ARGV_CAPACITY = 2
  Typed <- MCTyped
INVARIANTS
  WordsAsQuoted
  AgreesWithParser
