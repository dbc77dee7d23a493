------------------------------- MODULE FlatWords -------------------------------
(***************************************************************************)
(* How the flat shell of src/vibix/vish.asm splits a line into words:       *)
(* tokenize_line, which cuts line_buffer in place and writes the addresses  *)
(* of the words to argv_table, with the keys of read_line that decide what  *)
(* is in line_buffer, in front of the terminator and behind it.  FlatShell  *)
(* has the rest of the loop, and what happens to a line that fills the      *)
(* buffer; here the line is shorter, and is terminated.                     *)
(*                                                                         *)
(* An address is an index of line_buffer, from 1 on.  Neither array is ever *)
(* cleared.  The Rust parser of module Parser is what the words are         *)
(* compared with.                                                           *)
(***************************************************************************)
EXTENDS Parser, Integers

CONSTANTS
  LINE_CAPACITY,  \* 256 in the code
  ARGV_CAPACITY,  \* 16 in the code
  Typed           \* the characters that can be typed: no operators, which only
                  \* the Rust parser knows

ASSUME WordsAssumption ==
  /\ LINE_CAPACITY \in Nat /\ LINE_CAPACITY >= 2
  /\ ARGV_CAPACITY \in Nat \ {0}
  /\ Typed \cap {"NUL", "|", ">", "<", "#"} = {}

VARIABLES
  at,          \* "reading", "entered" or "dispatch"
  lineBuffer,  \* line_buffer
  index,       \* bytes of the line so far
  argvTable,   \* argv_table; 0 is a slot that was never written
  argc,        \* what tokenize_line returned
  line         \* the line that was entered (history variable)

wordsVars == <<at, lineBuffer, index, argvTable, argc, line>>

NUL == "NUL"
LineCells == 1 .. LINE_CAPACITY

WordsInit ==
  /\ at = "reading"
  /\ lineBuffer = [i \in LineCells |-> NUL]
  /\ index = 0
  /\ argvTable = [k \in 1 .. ARGV_CAPACITY |-> 0]
  /\ argc = 0
  /\ line = << >>

-----------------------------------------------------------------------------
(* read_line. *)

\* A printable byte.  (Bound: the line leaves room for its terminator.)
StoreByte(c) ==
  /\ at = "reading" /\ index < LINE_CAPACITY - 1
  /\ lineBuffer' = [lineBuffer EXCEPT ![index + 1] = c]
  /\ index' = index + 1
  /\ UNCHANGED <<at, argvTable, argc, line>>

\* Backspace, or Ctrl+C with nothing left: the bytes stay where they are.
EraseTo(n) ==
  /\ at = "reading" /\ n < index /\ n \in {0, index - 1}
  /\ index' = n
  /\ UNCHANGED <<at, lineBuffer, argvTable, argc, line>>

\* Enter.  A line of no bytes would end the shell.
EnterLine ==
  /\ at = "reading" /\ index # 0
  /\ at' = "entered"
  /\ lineBuffer' = [lineBuffer EXCEPT ![index + 1] = NUL]
  /\ line' = SubSeq(lineBuffer, 1, index)
  /\ index' = 0
  /\ UNCHANGED <<argvTable, argc>>

-----------------------------------------------------------------------------
(* tokenize_line. *)

\* .skip_ws: the first place from i on that is no blank.
SkipBlanks(i) ==
  CHOOSE n \in i .. LINE_CAPACITY :
    lineBuffer[n] \notin Blanks /\ \A m \in i .. n - 1 : lineBuffer[m] \in Blanks

\* A fault: a backslash in double quotes protects nothing.
AfterInDoubleUnescaped(i) == i + 1

\* .scan_dq: where the scan goes on behind a character in double quotes.
AfterInDouble(i) == IF lineBuffer[i] = "\\" THEN i + 2 ELSE i + 1

\* .scan_token, .scan_sq and .scan_dq: where the word ends that starts at start,
\* at a blank or at the terminator; end[i][mode] is where a scan ends that has
\* come to i.  Quotes stay in the word.
WordEnd(start) ==
  LET end[i \in LineCells] ==
        [mode \in {"plain"} \cup Quotes |->
          LET c == lineBuffer[i]
          IN  CASE c = NUL -> i
                [] mode = "plain" /\ c \in Blanks -> i
                [] mode = "plain" /\ c \in Quotes -> end[i + 1][c]
                [] mode \in Quotes /\ c = mode -> end[i + 1]["plain"]
                [] mode = "\"" /\ c \notin {NUL, mode} ->
                     IF c = "\\" /\ lineBuffer[i + 1] = NUL THEN i + 1
                     ELSE end[AfterInDouble(i)][mode]
                [] OTHER -> end[i + 1][mode]]
  IN  end[start]["plain"]

\* The words of the line, as long as the table has room for them; from[room][i]
\* are those from i on.
WordStarts ==
  LET from[room \in 0 .. ARGV_CAPACITY] ==
        [i \in LineCells |->
          LET start == SkipBlanks(i)
          IN  CASE room = 0 \/ lineBuffer[start] = NUL -> << >>
                [] OTHER -> <<start>> \o
                     (IF lineBuffer[WordEnd(start)] = NUL THEN << >>
                      ELSE from[room - 1][WordEnd(start) + 1])]
  IN  from[ARGV_CAPACITY][1]

\* A fault: the word that fills the table is not ended.
TokenizeLineUnended ==
  /\ at = "entered"
  /\ LET starts == WordStarts
         ended == SubSeq(starts, 1, IF Len(starts) = ARGV_CAPACITY THEN Len(starts) - 1 ELSE Len(starts))
     IN  /\ argc' = Len(starts)
         /\ argvTable' = [k \in DOMAIN argvTable |->
                            IF k <= Len(starts) THEN starts[k] ELSE argvTable[k]]
         /\ lineBuffer' = [i \in LineCells |->
                             IF i \in {WordEnd(start) : start \in ToSet(ended)} THEN NUL
                             ELSE lineBuffer[i]]
  /\ at' = "dispatch"
  /\ UNCHANGED <<index, line>>

\* The slots behind the words keep what earlier lines left in them.
TokenizeLine ==
  /\ at = "entered"
  /\ LET starts == WordStarts
     IN  /\ argc' = Len(starts)
         /\ argvTable' = [k \in DOMAIN argvTable |->
                            IF k <= Len(starts) THEN starts[k] ELSE argvTable[k]]
         /\ lineBuffer' = [i \in LineCells |->
                             IF i \in {WordEnd(start) : start \in ToSet(starts)} THEN NUL
                             ELSE lineBuffer[i]]
  /\ at' = "dispatch"
  /\ UNCHANGED <<index, line>>

\* The command, if there is one, reads its arguments and returns.
Dispatch ==
  /\ at = "dispatch"
  /\ at' = "reading"
  /\ argc' = 0
  /\ line' = << >>
  /\ UNCHANGED <<lineBuffer, index, argvTable>>

WordsNext ==
  \/ \E c \in Typed : StoreByte(c)
  \/ \E n \in 0 .. LINE_CAPACITY : EraseTo(n)
  \/ EnterLine
  \/ TokenizeLine
  \/ Dispatch

WordsSpec == WordsInit /\ [][WordsNext]_wordsVars

-----------------------------------------------------------------------------
(* Properties. *)

\* The string at an address of line_buffer.
StringAt(start) ==
  LET end == CHOOSE n \in start .. LINE_CAPACITY :
        lineBuffer[n] = NUL /\ \A m \in start .. n - 1 : lineBuffer[m] # NUL
  IN  SubSeq(lineBuffer, start, end - 1)

\* The words that dispatch_command is given.
Arguments == [k \in 1 .. argc |-> StringAt(argvTable[k])]

\* What is open in front of each character of the line and behind the last one:
\* nothing, quotes, or a backslash in double quotes.
QuoteStates ==
  LET next(state, c) ==
        CASE state = "none" -> IF c \in Quotes THEN c ELSE "none"
          [] state = "'" -> IF c = "'" THEN "none" ELSE "'"
          [] state = "\"" -> IF c = "\"" THEN "none" ELSE IF c = "\\" THEN "escape" ELSE "\""
          [] state = "escape" -> "\""
      states[i \in 1 .. Len(line) + 1] ==
        IF i = 1 THEN "none" ELSE next(states[i - 1], line[i - 1])
  IN  states

\* The line cut at the blanks that no quotes enclose.
LineWords ==
  LET inWord == {i \in DOMAIN line : ~ (QuoteStates[i] = "none" /\ line[i] \in Blanks)}
      starts == InOrder({i \in inWord : i - 1 \notin inWord})
      end(i) == CHOOSE n \in inWord : n >= i /\ i .. n \subseteq inWord /\ n + 1 \notin inWord
  IN  [k \in DOMAIN starts |-> SubSeq(line, starts[k], end(starts[k]))]

\* vish.asm:631, "whitespace splitting, single/double quotes": the words are the
\* line cut at its unquoted blanks, the first ARGV_CAPACITY of them, whatever
\* earlier lines left in the buffer behind the terminator and in the table.
WordsAsQuoted ==
  at = "dispatch" =>
    Arguments = SubSeq(LineWords, 1, IF Len(LineWords) < ARGV_CAPACITY
                                     THEN Len(LineWords) ELSE ARGV_CAPACITY)

\* Both shells find the same words in a line without operators and comments: if
\* the Rust parser takes it, and no backslash stands outside of quotes, where
\* only Rust gives it a meaning, each word of the flat shell, by itself, parses
\* to the word that the parser finds at its place in the line.
AgreesWithParser ==
  at = "dispatch" =>
    LET plainBackslash == \E i \in DOMAIN line : line[i] = "\\" /\ QuoteStates[i] = "none"
        parsed == ParseLine(line)
        argv(text) == ParseLine(text).commands[1].argv
    IN  parsed.error = "none" /\ ~ plainBackslash =>
          \A k \in 1 .. argc : argv(Arguments[k]) = <<argv(line)[k]>>

=============================================================================
