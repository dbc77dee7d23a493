------------------------------ MODULE LineEditor ------------------------------
(***************************************************************************)
(* The line editor of the Rust shell and the command history it browses:   *)
(* src/readline.rs, with the two things the callers of read_line do to it   *)
(* (src/main.rs and src/bin/vibix.rs, the same code): they start a line     *)
(* with a prompt and record the line that was entered.                      *)
(*                                                                         *)
(* A line is the sequence of its bytes, as in a Rust String, so Len is      *)
(* String::len.  The editor pushes every input byte b as the character      *)
(* U+00b: a byte below 0x80 is stored as it came, a byte of High becomes    *)
(* two bytes, of which the first (0xC2 or 0xC3) is abstracted to Lead.      *)
(*                                                                         *)
(* row is the terminal's row with the cursor (module Terminal).  What a byte *)
(* that is not in Shown does to it is left open: most control bytes show    *)
(* nothing, some move the cursor, and a byte of High is echoed as it came   *)
(* and redrawn as the character it was stored as.                           *)
(*                                                                         *)
(* draft and inStep are history variables: the line as the user last edited *)
(* it, which no arrow key changes, and whether the row has had a column     *)
(* to spare for every byte since the line was last drawn.                   *)
(***************************************************************************)
EXTENDS Terminal

CONSTANTS
  Capacity,  \* the argument of History::new; both shells pass 4
  LineMax,   \* LINE_MAX, 4096 in the code
  Chars,     \* input bytes below 0x80 that have no key binding
  Blanks,    \* the members of Chars that str::trim removes
  High,      \* input bytes from 0x80 up that str::trim keeps (not 0x85, 0xA0)
  Lead,      \* first byte of the stored form of a byte of High
  Shown,     \* the members of Chars that take one column: 0x20 to 0x7E
  PromptText,  \* the characters of PROMPT
  OutputEnds,  \* columns in which the output before a prompt may have ended
  Output,    \* a character of that output
  Unknown    \* a row that holds what depends on the terminal

ASSUME EditorAssumption ==
  /\ Capacity \in Nat \ {0}
  /\ LineMax \in Nat \ {0}
  /\ Blanks \subseteq Chars
  /\ Chars \cap High = {}
  /\ Lead \notin Chars \cup High
  /\ Shown \subseteq Chars \cap Glyphs
  /\ PromptText \in Seq(Glyphs)
  /\ OutputEnds \subseteq 0 .. Width /\ Output \in Glyphs
  /\ Unknown \notin Rows

VARIABLES
  entries,   \* History.entries, oldest first
  browse,    \* History.browse: 0 is None, i is Some(i - 1)
  pending,   \* History.pending
  buf,       \* read_line's buf; after it returned, the line it returned
  esc,       \* how much of an ESC [ x sequence has been read
  row,       \* the terminal's row with the cursor, or Unknown
  inStep,    \* the row has shown every byte since it was drawn (history variable)
  draft,     \* the line as last edited by the user (history variable)
  phase      \* where the caller's loop is

history == <<entries, browse, pending>>
terminal == <<row, inStep>>
editorVars == <<entries, browse, pending, buf, esc, terminal, draft, phase>>

Bytes == Chars \cup High \cup {Lead}
Lines == Seq(Bytes)
NotBrowsing == 0

Blank(line) == \A i \in 1 .. Len(line) : line[i] \in Blanks

Newest == entries[Len(entries)]

\* String::push(b as char)
Encoding(b) == IF b \in High THEN <<Lead, b>> ELSE <<b>>

\* String::pop: the last character, which is one byte or two
Popped(line) ==
  SubSeq(line, 1, Len(line) - (IF line[Len(line)] \in High THEN 2 ELSE 1))

AllShown(line) == \A i \in 1 .. Len(line) : line[i] \in Shown

\* PROMPT and a line are written at the cursor of a row.
Drawn(onto, line) == IF AllShown(line) THEN Write(onto, PromptText \o line) ELSE Unknown

\* The line takes a column for each byte and leaves one.
Legible(line) == AllShown(line) /\ Len(PromptText) + Len(line) < Width

\* The row becomes newRow, with the line at newBuf.
Show(newRow, redrawn, newBuf) ==
  /\ row' = newRow
  /\ inStep' = ((redrawn \/ inStep) /\ Legible(newBuf))

EditorInit ==
  /\ entries = << >>
  /\ browse = NotBrowsing
  /\ pending = << >>
  /\ buf = << >>
  /\ esc = "none"
  /\ row = BlankRow
  /\ inStep = FALSE
  /\ draft = << >>
  /\ phase = "idle"

-----------------------------------------------------------------------------
(* History. *)

\* A fault: the newest entry makes room.
AddEvictsNewest(line) ==
  LET kept == IF Len(entries) >= Capacity THEN SubSeq(entries, 1, Len(entries) - 1) ELSE entries
  IN  IF line = << >> \/ (entries # << >> /\ Newest = line)
      THEN UNCHANGED history
      ELSE /\ entries' = Append(kept, line)
           /\ browse' = NotBrowsing
           /\ UNCHANGED pending

\* A fault: the oldest entry goes one entry too late.
AddEvictsLate(line) ==
  LET kept == IF Len(entries) > Capacity THEN Tail(entries) ELSE entries
  IN  IF line = << >> \/ (entries # << >> /\ Newest = line)
      THEN UNCHANGED history
      ELSE /\ entries' = Append(kept, line)
           /\ browse' = NotBrowsing
           /\ UNCHANGED pending

\* A fault: the browse position is not reset.
AddKeepsPosition(line) ==
  LET kept == IF Len(entries) >= Capacity THEN Tail(entries) ELSE entries
  IN  IF line = << >> \/ (entries # << >> /\ Newest = line)
      THEN UNCHANGED history
      ELSE entries' = Append(kept, line) /\ UNCHANGED <<browse, pending>>

\* A fault: the line is compared with the oldest entry.
AddComparesOldest(line) ==
  LET kept == IF Len(entries) >= Capacity THEN Tail(entries) ELSE entries
  IN  IF line = << >> \/ (entries # << >> /\ Head(entries) = line)
      THEN UNCHANGED history
      ELSE /\ entries' = Append(kept, line)
           /\ browse' = NotBrowsing
           /\ UNCHANGED pending

\* History::add
Add(line) ==
  LET kept == IF Len(entries) >= Capacity THEN Tail(entries) ELSE entries
  IN  IF line = << >> \/ (entries # << >> /\ Newest = line)
      THEN UNCHANGED history
      ELSE /\ entries' = Append(kept, line)
           /\ browse' = NotBrowsing
           /\ UNCHANGED pending

\* History::reset_browse
ResetBrowse ==
  /\ browse' = NotBrowsing
  /\ pending' = << >>
  /\ UNCHANGED entries

-----------------------------------------------------------------------------
(* Keys that edit the line. *)

Reading == phase = "reading" /\ esc = "none"

\* The line becomes newBuf, and so does the draft: an edit of the user.
Edit(newBuf) ==
  /\ buf' = newBuf
  /\ draft' = newBuf
  /\ ResetBrowse
  /\ UNCHANGED <<esc, phase>>

\* A byte is echoed as it came.
Echoed(b) ==
  IF row = Unknown \/ b \notin Shown THEN Unknown ELSE Write(row, <<b>>)

\* A fault: the limit is checked with <= instead of <.
StoreCharOnePast(b) ==
  /\ Reading
  /\ Len(buf) <= LineMax
  /\ Edit(buf \o Encoding(b))
  /\ Show(Echoed(b), FALSE, buf')

\* A byte without a binding, when the line has room for it.
StoreChar(b) ==
  /\ Reading
  /\ Len(buf) < LineMax
  /\ Edit(buf \o Encoding(b))
  /\ Show(Echoed(b), FALSE, buf')

\* When it has not, the byte is dropped without an echo.
DropChar ==
  /\ Reading
  /\ Len(buf) >= LineMax
  /\ Edit(buf)
  /\ UNCHANGED terminal

\* "\b \b", whatever the character was.
Rubbed == IF row = Unknown THEN Unknown ELSE Back(Write(Back(row), <<Space>>))

Backspace ==
  /\ Reading
  /\ \/ /\ buf = << >>
        /\ Edit(buf)
        /\ UNCHANGED terminal
     \/ /\ buf # << >>
        /\ Edit(Popped(buf))
        /\ Show(Rubbed, FALSE, buf')

\* A fault: the row is redrawn from its start without being cleared.
RedrawnOver(line) == Drawn(IF row = Unknown THEN BlankRow ELSE Return(row), line)

\* "\r", ESC [ K, PROMPT and the line.
Redrawn(line) ==
  Drawn(IF row = Unknown THEN BlankRow ELSE ClearToEnd(Return(row)), line)

\* Ctrl+C and Ctrl+U.  The "^C" of the first is cleared as it is written, if
\* the row has room for it.
KillLine ==
  /\ Reading
  /\ Edit(<< >>)
  /\ IF buf = << >> THEN UNCHANGED terminal ELSE Show(Redrawn(<< >>), TRUE, << >>)

-----------------------------------------------------------------------------
(* ESC sequences: the editor reads one byte after ESC, and one more after   *)
(* "[", whatever they are.                                                  *)

Escape ==
  /\ Reading
  /\ esc' = "esc"
  /\ UNCHANGED <<history, buf, terminal, draft, phase>>

EscapeBracket ==
  /\ phase = "reading" /\ esc = "esc"
  /\ esc' = "bracket"
  /\ UNCHANGED <<history, buf, terminal, draft, phase>>

\* Any other byte, or the end of the input, at either place.
EscapeOther ==
  /\ phase = "reading" /\ esc # "none"
  /\ esc' = "none"
  /\ UNCHANGED <<history, buf, terminal, draft, phase>>

\* replace_line and the assignment to buf that follows it
Replace(line) ==
  /\ buf' = line
  /\ Show(Redrawn(line), TRUE, line)
  /\ UNCHANGED <<entries, draft>>

\* A fault: browsing starts behind the newest entry.
ArrowUpOnePast ==
  /\ phase = "reading" /\ esc = "bracket"
  /\ esc' = "none"
  /\ entries # << >> /\ browse = NotBrowsing
  /\ pending' = buf
  /\ browse' = Len(entries) + 1
  /\ Replace(Newest)
  /\ UNCHANGED phase

\* ESC [ A: History::navigate_up and what read_line does with its answer
ArrowUp ==
  /\ phase = "reading" /\ esc = "bracket"
  /\ esc' = "none"
  /\ \/ /\ entries = << >> \/ browse = 1
        /\ UNCHANGED <<history, buf, terminal, draft>>
     \/ /\ entries # << >> /\ browse = NotBrowsing
        /\ pending' = buf
        /\ browse' = Len(entries)
        /\ Replace(Newest)
     \/ /\ entries # << >> /\ browse > 1
        /\ browse' = browse - 1
        /\ Replace(entries[browse - 1])
        /\ UNCHANGED pending
  /\ UNCHANGED phase

\* ESC [ B: History::navigate_down and what read_line does with its answer.
\* A None answer empties the line, whatever the reason for it.
ArrowDown ==
  /\ phase = "reading" /\ esc = "bracket"
  /\ esc' = "none"
  /\ \/ /\ browse = NotBrowsing
        /\ Replace(<< >>)
        /\ UNCHANGED <<browse, pending>>
     \/ /\ browse # NotBrowsing /\ browse < Len(entries)
        /\ browse' = browse + 1
        /\ Replace(entries[browse + 1])
        /\ UNCHANGED pending
     \/ /\ browse # NotBrowsing /\ browse >= Len(entries)
        /\ browse' = NotBrowsing
        /\ pending' = << >>
        /\ Replace(pending)
  /\ UNCHANGED phase

-----------------------------------------------------------------------------
(* The ends of a line, and what the caller does between two lines. *)

Finish(outcome) ==
  /\ phase' = outcome
  /\ Show(BlankRow, FALSE, buf)
  /\ UNCHANGED <<history, buf, esc, draft>>

Enter == Reading /\ Finish("entered")

\* read_char returned None
EndOfInput ==
  /\ Reading
  /\ Finish(IF buf = << >> THEN "closed" ELSE "entered")

\* Ctrl+D, which is ignored on a line that is not empty
CtrlD ==
  /\ Reading
  /\ buf = << >>
  /\ Finish("closed")

\* The caller records the line unless it is blank.
Record ==
  /\ phase = "entered"
  /\ IF Blank(buf) THEN UNCHANGED history ELSE Add(buf)
  /\ phase' = "idle"
  /\ UNCHANGED <<buf, esc, terminal, draft>>

\* The caller prints the prompt and calls read_line.  What a command printed
\* may have left the cursor in any column.
Prompt ==
  /\ phase = "idle"
  /\ phase' = "reading"
  /\ buf' = << >>
  /\ draft' = << >>
  /\ \E n \in OutputEnds :
       /\ row' = Drawn(Write(BlankRow, [i \in 1 .. n |-> Output]), << >>)
       /\ inStep' = (n = 0 /\ Legible(<< >>))
  /\ UNCHANGED <<history, esc>>

Key ==
  \/ \E b \in Chars \cup High : StoreChar(b)
  \/ DropChar
  \/ Backspace
  \/ KillLine
  \/ Escape
  \/ EscapeBracket
  \/ EscapeOther
  \/ ArrowUp
  \/ ArrowDown
  \/ Enter
  \/ CtrlD

EditorNext == Key \/ EndOfInput \/ Record \/ Prompt

EditorSpec == EditorInit /\ [][EditorNext]_editorVars

-----------------------------------------------------------------------------
(* Properties. *)

EditorTypeOK ==
  /\ entries \in Seq(Lines)
  /\ browse \in 0 .. Capacity
  /\ pending \in Lines
  /\ buf \in Lines
  /\ esc \in {"none", "esc", "bracket"}
  /\ row \in Rows \cup {Unknown}
  /\ inStep \in BOOLEAN
  /\ draft \in Lines
  /\ phase \in {"idle", "reading", "entered", "closed"}

\* The browse position is the index of an entry.  It survives from line to
\* line and the entries change under it, and navigate_up and navigate_down
\* index the vector with it and with its neighbours without a check.
BrowseInRange == browse \in 0 .. Len(entries)

\* What the history holds: at most Capacity lines, none of them blank, and
\* no two neighbours equal, whatever was evicted between them.
HistoryShape ==
  /\ Len(entries) <= Capacity
  /\ \A i \in 1 .. Len(entries) : ~ Blank(entries[i])
  /\ \A i \in 1 .. Len(entries) - 1 : entries[i] # entries[i + 1]

\* While a position is browsed, the line being edited is that entry.  The one
\* exception is a position left over from an earlier line that add() found to
\* be a duplicate: then the new line is still empty, and the position holds
\* the newest text, so that an arrow key continues from there.
BrowseTracksLine ==
  browse # NotBrowsing =>
    /\ phase = "idle" => entries[browse] = Newest
    /\ phase \in {"reading", "entered"} =>
         \/ buf = entries[browse]
         \/ buf = << >> /\ entries[browse] = Newest

\* What BoundedQueue promises, as History keeps it: the entries are the newest
\* lines in the order in which they were entered, each recorded once at most,
\* and no key ever changes them.
Queue == INSTANCE BoundedQueue WITH
  queue <- entries, accepting <- (phase = "entered"), Bound <- Capacity

HistoryIsQueue == Queue!QueueSpec

\* The line, the line saved while browsing and the entries stay within
\* LINE_MAX, which a byte that is stored as two may exceed by one.
LineBound ==
  LET limit == IF High = {} THEN LineMax ELSE LineMax + 1
  IN  /\ Len(buf) <= limit
      /\ Len(pending) <= limit
      /\ \A i \in 1 .. Len(entries) : Len(entries[i]) <= limit

\* The row with the cursor shows the prompt and the line that Enter will submit,
\* the cursor right behind them and nothing else: after any keys that left a
\* column for every byte since the prompt or an arrow key, Ctrl+C or Ctrl+U drew
\* the line, whatever the row had come to show before it was drawn.
ScreenShowsLine ==
  phase = "reading" /\ inStep =>
    LET text == PromptText \o buf
    IN  /\ row.at = Len(text)
        /\ \A i \in 1 .. Width :
             row.cells[i] = IF i <= Len(text) THEN text[i] ELSE Space

\* readline.rs:27, "None means not browsing (at current input)": when no
\* entry is browsed, the line is the one the user typed.
NotBrowsingShowsDraft ==
  phase = "reading" /\ browse = NotBrowsing => buf = draft

=============================================================================
