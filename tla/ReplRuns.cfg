\* Both builds: two directories, lines of one byte, two entries.
CONSTANTS
  Capacity = 2
  LineMax = 1
  Chars = {"a", "b", " "}
  Blanks = {" "}
  High = {}
  Lead = Lead
  Shown = {"a", "b", " "}
  PromptText <- MCPrompt
  OutputEnds = {0}
  Output = "x"
  Width = 3
  Space = " "
  Glyphs = {"a", "b", "$", "x", " "}
  Unknown = Unknown
  Backends = {"linux", "vibix"}
  Dirs = {d1, d2}
  NoDir = NoDir
  ExitCodes = {256}
SPECIFICATION FairReplSpec
INVARIANTS
  ReplTypeOK
  RecordedBeforeRun
  TerminalMode
  PwdNamesCwd
PROPERTIES
  ClosedInputEndsShell
CHECK_DEADLOCK FALSE
