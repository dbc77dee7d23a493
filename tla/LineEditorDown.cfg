\* Arrow down where nothing is browsed.
CONSTANTS
  Capacity = 2
  LineMax = 1
  Chars = {"a", " "}
  Blanks = {" "}
  High = {}
  Lead = Lead
  Shown = {"a", " "}
  PromptText <- MCPrompt
  OutputEnds = {0}
  Output = "x"
  Width = 3
  Space = " "
  Glyphs = {"a", "$", "x", " "}
  Unknown = Unknown
SPECIFICATION EditorSpec
INVARIANTS
  NotBrowsingShowsDraft
CHECK_DEADLOCK FALSE
