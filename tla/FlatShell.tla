------------------------------- MODULE FlatShell -------------------------------
(***************************************************************************)
(* The flat VIBIX shell of src/vibix/vish.asm: the loop from the prompt to  *)
(* the dispatch of a command, with its line editor, its history and the     *)
(* splitting of a line into words.  A command is here only what it does to   *)
(* the loop: ExternalCommand has the commands that are not built in.         *)
(*                                                                         *)
(* line_buffer and history_buffer are the byte arrays of the program.       *)
(* index is r14 of read_line; length is what read_line returned.            *)
(*                                                                         *)
(* read(2) is external.  The kernel blocks the caller until there is input  *)
(* and then returns 0; the next read returns the byte.  It may so return 0  *)
(* before any byte.  A negative result means that the input has failed.     *)
(***************************************************************************)
EXTENDS Integers, Sequences, FiniteSets

CONSTANTS
  LINE_CAPACITY,  \* 256 in the code
  HISTORY_SLOTS,  \* 4 in the code
  ARGV_CAPACITY,  \* 16 in the code
  Chars,          \* printable bytes besides the blank
  Finals,         \* last bytes of the arrow keys that are pressed: "A", "B", "C"
  ExitCodes,      \* arguments of exit
  MayFail         \* the input may fail

ASSUME FlatAssumption ==
  /\ LINE_CAPACITY \in Nat /\ LINE_CAPACITY >= 2
  /\ HISTORY_SLOTS \in Nat \ {0}
  /\ ARGV_CAPACITY \in Nat \ {0}
  /\ Finals \subseteq {"A", "B", "C"}
  /\ Chars \cap {"[", "A", "B", "C", " ", "NUL"} = {}
  /\ ExitCodes \subseteq 0 .. 255
  /\ MayFail \in BOOLEAN

VARIABLES
  at,            \* "prompt", "reading", "entered", "recorded", "dispatch",
                 \* "cat", "exited" or "faulted"
  lineBuffer,    \* line_buffer
  index,         \* r14: bytes of the line so far
  length,        \* what read_line returned
  esc,           \* how much of an ESC [ x sequence read_line has seen
  owed,          \* bytes of a pressed arrow key that are still to come
  historyBuffer, \* history_buffer, HISTORY_SLOTS slots of LINE_CAPACITY bytes
  historyCount,  \* history_count
  historyBrowse, \* history_browse
  argc,          \* what tokenize_line returned
  exitFlag,      \* exit_flag
  exitCode,      \* exit_code_storage
  status,        \* the code sys_exit was given, -1 before
  input          \* "open", or "failed" once read returns an error

readVars == <<index, length, esc>>
historyVars == <<historyBuffer, historyCount, historyBrowse>>
commandVars == <<argc, exitFlag, exitCode, status>>
flatVars == <<at, lineBuffer, readVars, owed, historyVars, commandVars, input>>

NUL == "NUL"
Typed == Chars \cup {" "}
FlatBytes == Typed \cup {"[", NUL} \cup Finals

HISTORY_STRIDE == LINE_CAPACITY
LineCells == 0 .. LINE_CAPACITY - 1
HistoryCells == 0 .. HISTORY_SLOTS * HISTORY_STRIDE - 1

\* The string that starts at an address of an array and ends before the first
\* NUL, or with the array's row.
Text(mem, base) ==
  LET terminators == {n \in LineCells : mem[base + n] = NUL}
      size == IF terminators = {} THEN LINE_CAPACITY
              ELSE CHOOSE n \in terminators : \A m \in terminators : n <= m
  IN  [n \in 1 .. size |-> mem[base + n - 1]]

Slot(i) == (i - 1) * HISTORY_STRIDE
Entry(i) == Text(historyBuffer, Slot(i))

\* mov byte [line_buffer + i], b
WriteLine(i, b) == lineBuffer' = [lineBuffer EXCEPT ![i] = b]

\* shell_init, and the zeroed memory of the image
FlatInit ==
  /\ at = "prompt"
  /\ lineBuffer = [i \in LineCells |-> NUL]
  /\ index = 0 /\ length = 0
  /\ esc = "none" /\ owed = << >>
  /\ historyBuffer = [i \in HistoryCells |-> NUL]
  /\ historyCount = 0 /\ historyBrowse = 0
  /\ argc = 0 /\ exitFlag = FALSE /\ exitCode = 0 /\ status = -1
  /\ input = "open"

-----------------------------------------------------------------------------
(* read_line. *)

Prompt ==
  /\ at = "prompt"
  /\ at' = "reading"
  /\ index' = 0
  /\ esc' = "none"
  /\ UNCHANGED <<lineBuffer, length, owed, historyVars, commandVars, input>>

\* read_line returns n; the caller's r14 is back.
Returned(n) == at' = "entered" /\ length' = n /\ index' = 0

\* .read_char finds the buffer full, and returns without a terminator.
BufferFull ==
  /\ at = "reading" /\ esc = "none"
  /\ index >= LINE_CAPACITY
  /\ Returned(index)
  /\ UNCHANGED <<lineBuffer, esc, owed, historyVars, commandVars, input>>

\* read_line asks for a byte, of a key or of what is left of an arrow key.
\* A fault: the limit is checked with <= instead of <.
AsksOnePast == at = "reading" /\ esc = "none" /\ index <= LINE_CAPACITY
Asks == at = "reading" /\ esc = "none" /\ index < LINE_CAPACITY
Byte(b) ==
  /\ input = "open"
  /\ IF owed = << >> THEN owed' = owed
     ELSE b = Head(owed) /\ owed' = Tail(owed)

StoreByte(b) ==
  /\ Asks /\ Byte(b)
  /\ owed = << >> => b \in Typed
  /\ WriteLine(index, b)
  /\ index' = index + 1
  /\ UNCHANGED <<at, length, esc, historyVars, commandVars, input>>

\* The keys below are pressed when no byte of an arrow key is on its way.
Pressed == Asks /\ input = "open" /\ owed = << >>

EraseByte ==
  /\ Pressed
  /\ index # 0
  /\ index' = index - 1
  /\ UNCHANGED <<at, lineBuffer, length, esc, owed, historyVars, commandVars, input>>

EnterLine ==
  /\ Pressed
  /\ WriteLine(index, NUL)
  /\ Returned(index)
  /\ UNCHANGED <<esc, owed, historyVars, commandVars, input>>

ControlD ==
  /\ Pressed
  /\ index = 0
  /\ Returned(0)
  /\ UNCHANGED <<lineBuffer, esc, owed, historyVars, commandVars, input>>

ControlC ==
  /\ Pressed
  /\ index' = 0
  /\ UNCHANGED <<at, lineBuffer, length, esc, owed, historyVars, commandVars, input>>

\* A fault: an error is tried again, like a read of nothing.
ReadFailsAgain == Asks /\ input = "failed" /\ UNCHANGED flatVars

\* .check_eof: what was typed so far is dropped.
ReadFails ==
  /\ Asks /\ input = "failed"
  /\ Returned(0)
  /\ UNCHANGED <<lineBuffer, esc, owed, historyVars, commandVars, input>>

\* An arrow key is pressed: ESC is read, two more bytes follow.
PressArrow(final) ==
  /\ Pressed
  /\ esc' = "esc"
  /\ owed' = <<"[", final>>
  /\ UNCHANGED <<at, lineBuffer, index, length, historyVars, commandVars, input>>

\* ESC is pressed by itself: the next byte is that of the next key.
PressEscape ==
  /\ Pressed
  /\ esc' = "esc"
  /\ UNCHANGED <<at, lineBuffer, index, length, owed, historyVars, commandVars, input>>

\* That byte is no "[" and is swallowed, whatever key it is of; of an arrow key
\* it is the ESC, and the other two are read as text.
SwallowKey ==
  /\ at = "reading" /\ esc = "esc"
  /\ input = "open" /\ owed = << >>
  /\ esc' = "none"
  /\ owed' \in {<< >>} \cup {<<"[", final>> : final \in Finals}
  /\ UNCHANGED <<at, lineBuffer, index, length, historyVars, commandVars, input>>

ReadBracket ==
  /\ at = "reading" /\ esc = "esc"
  /\ Byte("[") /\ owed # << >>
  /\ esc' = "bracket"
  /\ UNCHANGED <<at, lineBuffer, index, length, historyVars, commandVars, input>>

\* Inside the sequence read returns 0 or an error: the sequence is given up.
SequenceCut ==
  /\ at = "reading" /\ esc # "none"
  /\ owed # << >> \/ input = "failed"
  /\ esc' = "none"
  /\ UNCHANGED <<at, lineBuffer, index, length, owed, historyVars, commandVars, input>>

\* A sequence that is no arrow up or down.
OtherSequence ==
  /\ at = "reading" /\ esc = "bracket"
  /\ Byte("C") /\ owed # << >>
  /\ esc' = "none"
  /\ UNCHANGED <<at, lineBuffer, index, length, historyVars, commandVars, input>>

\* The program touches memory it does not have, and the kernel ends it.
Fault ==
  /\ at' = "faulted"
  /\ UNCHANGED <<lineBuffer, index, historyBuffer>>

\* .history_up and history_navigate_up.  string_copy leaves rdi at the start
\* of line_buffer and rcx at LINE_CAPACITY, so that the terminator is written
\* over the first byte and the length is that of a string at address 256:
\* either a fault or any number; a larger one acts as LINE_CAPACITY does.
ArrowUp ==
  /\ at = "reading" /\ esc = "bracket"
  /\ Byte("A") /\ owed # << >>
  /\ esc' = "none"
  /\ \/ /\ historyBrowse >= historyCount
        /\ UNCHANGED <<at, lineBuffer, index, historyBrowse>>
     \/ /\ historyBrowse < historyCount
        /\ historyBrowse' = historyBrowse + 1
        /\ \/ Fault
           \/ LET entry == Entry(historyCount - historyBrowse)
              IN  /\ lineBuffer' = [i \in LineCells |->
                       IF i = 0 THEN NUL
                       ELSE IF i < Len(entry) THEN entry[i + 1]
                       ELSE IF i = Len(entry) THEN NUL
                       ELSE lineBuffer[i]]
                  /\ \E n \in 0 .. LINE_CAPACITY : index' = IF n = 0 THEN index ELSE n
                  /\ UNCHANGED at
  /\ UNCHANGED <<length, historyBuffer, historyCount, commandVars, input>>

\* .history_down and history_navigate_down.  It takes the address of the line
\* buffer from rcx, where the loop has left a small number, the entry point or
\* the address of a system call: it faults, or writes behind none of the arrays.
ArrowDown ==
  /\ at = "reading" /\ esc = "bracket"
  /\ Byte("B") /\ owed # << >>
  /\ esc' = "none"
  /\ historyBrowse' = IF historyBrowse = 0 THEN 0 ELSE historyBrowse - 1
  /\ \/ Fault
     \/ /\ \E n \in 0 .. LINE_CAPACITY :
             index' = IF historyBrowse = 0 THEN 0 ELSE n
        /\ UNCHANGED <<at, lineBuffer, historyBuffer>>
  /\ UNCHANGED <<length, historyCount, commandVars, input>>

-----------------------------------------------------------------------------
(* The loop: record_history, tokenize_line, dispatch_command.  length and    *)
(* argc are in rax and are gone once they are used: they are cleared then.   *)

Smaller(m, n) == IF m <= n THEN m ELSE n

\* record_history makes room, and copies the line into slot with its terminator.
\* The variants are faults: one slot too far, a full history not shifted, and
\* no byte left for the terminator.
SlotToWriteOnePast == Smaller(historyCount, HISTORY_SLOTS) * HISTORY_STRIDE
SlotToWrite == Smaller(historyCount, HISTORY_SLOTS - 1) * HISTORY_STRIDE
ShiftedNot == historyBuffer
Shifted ==
  IF historyCount < HISTORY_SLOTS THEN historyBuffer
  ELSE [i \in HistoryCells |->
          IF i < (HISTORY_SLOTS - 1) * HISTORY_STRIDE
          THEN historyBuffer[i + HISTORY_STRIDE] ELSE historyBuffer[i]]
CopiedWhole == Smaller(length, LINE_CAPACITY)
Copied == Smaller(length, LINE_CAPACITY - 1)
Recorded ==
  [i \in HistoryCells |->
     IF i \in SlotToWrite .. SlotToWrite + Copied - 1
     THEN lineBuffer[i - SlotToWrite]
     ELSE IF i = SlotToWrite + Copied THEN NUL ELSE Shifted[i]]

RepeatsNewest == historyCount # 0 /\ Text(lineBuffer, 0) = Entry(historyCount)

\* A line of no bytes ends the shell, whatever ended the line.
EmptyLine ==
  /\ at = "entered" /\ length = 0
  /\ at' = "exited"
  /\ status' = 0
  /\ UNCHANGED <<lineBuffer, readVars, owed, historyVars, argc, exitFlag, exitCode, input>>

RecordHistory ==
  /\ at = "entered" /\ length # 0
  /\ at' = "recorded"
  /\ IF RepeatsNewest THEN UNCHANGED <<historyBuffer, historyCount>>
     ELSE /\ historyBuffer' = Recorded
          /\ historyCount' = Smaller(historyCount + 1, HISTORY_SLOTS)
  /\ UNCHANGED <<lineBuffer, readVars, owed, historyBrowse, commandVars, input>>

\* tokenize_line ends each of the first ARGV_CAPACITY words in place.  A line
\* without a terminator is read on into argv_table, as far as the third byte of
\* its first pointer, which is zero, as the program is at 0x2000000 and shorter
\* than 64 KiB.  The two bytes before it may be blanks, and are then ended in
\* place, or may begin words of their own.  argv_table is not in this module.
TokenizeLine ==
  LET text == Text(lineBuffer, 0)
      starts == {n \in DOMAIN text : text[n] # " " /\ (n = 1 \/ text[n - 1] = " ")}
      isEnd(n) == /\ n > 1 /\ text[n] = " " /\ text[n - 1] # " "
                  /\ Cardinality({m \in starts : m < n}) <= ARGV_CAPACITY
      wordsBehind == IF Len(text) = LINE_CAPACITY THEN 0 .. 2 ELSE {0}
  IN  /\ at = "recorded"
      /\ \E more \in wordsBehind :
            argc' = Smaller(Cardinality(starts) + more, ARGV_CAPACITY)
      /\ at' = IF argc' = 0 THEN "prompt" ELSE "dispatch"
      /\ lineBuffer' = [i \in LineCells |->
            IF i + 1 \in DOMAIN text /\ isEnd(i + 1) THEN NUL ELSE lineBuffer[i]]
      /\ length' = 0
      /\ UNCHANGED <<index, esc, owed, historyVars, exitFlag, exitCode, status, input>>

Dispatched ==
  /\ argc' = 0
  /\ UNCHANGED <<lineBuffer, readVars, owed, historyVars, input>>

\* repl_exit: sys_exit clears the code it is given.
Leave == at' = "exited" /\ status' = 0

BuiltinExit ==
  /\ at = "dispatch"
  /\ \/ /\ argc = 1
        /\ exitCode' = 0
        /\ exitFlag' = TRUE
        /\ Leave
     \/ /\ argc = 2
        /\ exitCode' \in ExitCodes
        /\ exitFlag' = TRUE
        /\ Leave
     \/ /\ argc > 2
        /\ exitCode' = 0
        /\ exitFlag' = FALSE
        /\ at' = "prompt"
        /\ UNCHANGED status
  /\ Dispatched

\* cat without arguments, or with "-" among them, reads its input.
BuiltinCat ==
  /\ at = "dispatch"
  /\ at' = "cat"
  /\ UNCHANGED <<exitFlag, exitCode, status>>
  /\ Dispatched

\* Every other command comes back to the loop and leaves its state alone.
OtherCommand ==
  /\ at = "dispatch"
  /\ at' = "prompt"
  /\ UNCHANGED <<exitFlag, exitCode, status>>
  /\ Dispatched

\* .cat_stdin_loop: only a read of 0 bytes ends it.  A negative result is
\* taken for a length, and the loop reads again.
CatReads ==
  /\ at = "cat"
  /\ \/ /\ input = "open"
        /\ at' = "prompt"
        /\ UNCHANGED owed
     \/ /\ input = "open"
        /\ owed' = << >>
        /\ UNCHANGED at
     \/ /\ input = "failed"
        /\ UNCHANGED <<at, owed>>
  /\ UNCHANGED <<lineBuffer, readVars, historyVars, commandVars, input>>

\* The terminal behind the input is gone; this is not the program's doing.
InputFails ==
  /\ MayFail
  /\ input = "open"
  /\ at \notin {"exited", "faulted"}
  /\ input' = "failed"
  /\ owed' = << >>
  /\ UNCHANGED <<at, lineBuffer, readVars, historyVars, commandVars>>

Keys ==
  \/ \E b \in Typed \cup {"["} \cup Finals : StoreByte(b)
  \/ EraseByte \/ EnterLine \/ ControlD \/ ControlC
  \/ \E final \in Finals : PressArrow(final)
  \/ PressEscape \/ SwallowKey
  \/ ReadBracket \/ OtherSequence \/ ArrowUp \/ ArrowDown

\* The steps that wait for no key.
Runs ==
  \/ Prompt \/ BufferFull \/ ReadFails \/ SequenceCut
  \/ EmptyLine \/ RecordHistory \/ TokenizeLine
  \/ BuiltinExit \/ BuiltinCat \/ OtherCommand \/ CatReads

FlatNext == Keys \/ Runs \/ InputFails

FlatSpec == FlatInit /\ [][FlatNext]_flatVars

\* The program runs as long as it waits for no key: nothing else has its
\* processor for ever.  Nobody has to press a key.
FairFlatSpec == FlatSpec /\ WF_flatVars(Runs)

-----------------------------------------------------------------------------
(* Properties. *)

FlatTypeOK ==
  /\ at \in {"prompt", "reading", "entered", "recorded", "dispatch", "cat",
             "exited", "faulted"}
  /\ lineBuffer \in [LineCells -> FlatBytes]
  /\ index \in 0 .. LINE_CAPACITY /\ length \in 0 .. LINE_CAPACITY
  /\ esc \in {"none", "esc", "bracket"}
  /\ owed \in {<< >>} \cup {<<f>> : f \in Finals} \cup {<<"[", f>> : f \in Finals}
  /\ historyBuffer \in [HistoryCells -> FlatBytes]
  /\ historyCount \in 0 .. HISTORY_SLOTS
  /\ historyBrowse \in 0 .. HISTORY_SLOTS
  /\ argc \in 0 .. ARGV_CAPACITY
  /\ exitFlag \in BOOLEAN /\ exitCode \in {0} \cup ExitCodes
  /\ status \in {-1, 0}
  /\ input \in {"open", "failed"}

Entries == [i \in 1 .. historyCount |-> Entry(i)]

\* Every slot in use holds a terminator, which history, string_equal and
\* string_copy all rely on, and every slot not in use is still zero: the copy
\* of a line never runs into its neighbour.
SlotsTerminated ==
  \A i \in 1 .. HISTORY_SLOTS :
    IF i <= historyCount
    THEN \E n \in LineCells : historyBuffer[Slot(i) + n] = NUL
    ELSE \A n \in LineCells : historyBuffer[Slot(i) + n] = NUL

\* A line that was recorded is the newest entry, cut to what a slot holds:
\* when it was full, when it was shifted in and when it repeats the newest.
NewestIsLine ==
  at = "recorded" =>
    /\ historyCount > 0
    /\ Entry(historyCount) = [n \in 1 .. Copied |-> lineBuffer[n - 1]]

\* What BoundedQueue promises, as the history slots keep it: once for each line
\* that was read the entries may take it in, behind the others, of which only
\* the oldest goes.  Dispatch and the reading of a line never change an entry.
Queue == INSTANCE BoundedQueue WITH
  queue <- Entries, accepting <- (at = "entered"), Bound <- HISTORY_SLOTS

HistoryIsQueue == Queue!QueueSpec

\* Once the input has failed, wherever it was (inside an arrow key, say), the
\* shell ends: it exits or faults, unless it is in cat, which takes the error
\* for data and never leaves its loop.
FailedInputEnds == input = "failed" ~> at \in {"exited", "faulted", "cat"}

\* vish.asm:633 and 651 say that the line is terminated when it is split.  A
\* line of LINE_CAPACITY bytes has no terminator.
LineTerminated ==
  at = "recorded" => \E i \in LineCells : lineBuffer[i] = NUL

=============================================================================
