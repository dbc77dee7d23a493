\* Four entries as in the shells, lines of two bytes and of one more if the last
\* is stored as two, a row of three columns, one for the prompt.  FF, the form
\* feed, is a blank for str::trim and moves the cursor.
CONSTANTS
  Capacity = 4
  LineMax = 2
  Chars = {"a", "FF"}
  Blanks = {"FF"}
  High = {"e"}
  Lead = Lead
  Shown = {"a"}
  PromptText <- MCPrompt
  OutputEnds = {0, 1}
  Output = "x"
  Width = 3
  Space = " "
  Glyphs = {"a", "$", "x", " "}
  Unknown = Unknown
SPECIFICATION EditorSpec
INVARIANTS
  EditorTypeOK
  BrowseInRange
  HistoryShape
  BrowseTracksLine
  LineBound
  ScreenShowsLine
PROPERTIES
  HistoryIsQueue
CHECK_DEADLOCK FALSE
