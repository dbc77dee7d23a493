\* All lines of up to four of seven characters and of up to three of ten, and
\* calls of each builtin.
SPECIFICATION CommandSpec
CONSTANTS
  Backends = {"linux", "vibix"}
  Lines <- MCLines
  Earlier <- MCEarlier
  Files <- MCFiles
  Directories <- MCDirectories
  Environments <- MCEnvironments
  ShortCounts = {1}
  MaxCuts = 1
  CutLines <- MCCutLines
  MaxKept = 2
  BufferSize = 3
INVARIANTS
  CommandTypeOK
  TokensAsQuoted
  CommandsKeepEveryWord
  QuotedTextIsOneWord
  EchoDecodesBackslashes
  PrintenvFollowsCd
  OutputArrives
PROPERTIES
  LineEnds
CHECK_DEADLOCK FALSE
