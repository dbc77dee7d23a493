\* The documented terminal guard against the exit builtin.
CONSTANTS
  Capacity = 2
  LineMax = 1
  Chars = {"a", " "}
  Blanks = {" "}
  High = {}
  Lead = Lead
  Shown = {"a", " "}
  PromptText <- MCPrompt
  OutputEnds = {0}
  Output = "x"
  Width = 3
  Space = " "
  Glyphs = {"a", "$", "x", " "}
  Unknown = Unknown
  Backends = {"linux"}
  Dirs = {d1, d2}
  NoDir = NoDir
  ExitCodes = {1, 256}
SPECIFICATION ReplSpec
INVARIANTS
  TerminalRestored
CHECK_DEADLOCK FALSE
