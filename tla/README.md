# vish in TLA+

vish is a small shell with two builds of one Rust core (a Linux program and a
`no_std` ELF for the VIBIX kernel) and a separate flat binary for VIBIX written
in assembly.  This directory holds TLA+ modules for its stateful parts, TLC
configurations that check them on small instances, and proofs that TLAPS checks
for every value of the constants.  Paths below are relative to the repository.

## The system

| part | state it keeps | operations | code |
|---|---|---|---|
| line editor, history | entries, browse position, pending line; the line | keys, escape sequences, end of input, `History::add`, navigate | `src/readline.rs` |
| Rust shells | environment, history, terminal mode, working directory | read, record, parse, execute, exit | `src/main.rs`, `src/bin/vibix.rs`, `src/exec.rs`, `src/builtins/` |
| raw mode | the saved terminal mode | enter, drop | `src/linux/terminal.rs` |
| parser | none between calls | `parse_line` | `src/parse.rs` |
| builtins | none, but `cd` (PWD) and `exit` | one call each | `src/builtins/*.rs` |
| writers | Linux: the line buffer of the standard library | `write_str`, `write_char` | `src/main.rs`, `src/vibix/runtime.rs` |
| allocator | list of blocks in memory from `brk` | alloc, dealloc | `src/vibix/allocator.rs` |
| system calls | none | read with retry, write, exit | `src/vibix/runtime.rs` |
| flat shell | line buffer, argument table, history slots, browse position, exit flag | read, record, split, dispatch, builtins | `src/vibix/vish.asm` |
| external commands | saved name, arguments, environment, PID; the stack | look up, fork, exec, wait | `vish.asm`, `try_find_and_exec` |

How they interact.  The loop calls `read_line` with the history, records the
line, parses it and executes the first command; the editor and the loop share
the history, and `cd`, `printenv` and the loop share the environment.  On VIBIX
all strings and vectors live on the heap of the allocator.  The flat shell
shares no code with the Rust core.  It forks children, and it shares the process
table and the file system with other processes.  Everything else that happens
concurrently is outside the shell: the terminal, the kernel, and other processes.

What is hard:

- state that outlives a line: the browse position, the pending line, the slots
  of the flat shell, the argument table;
- system calls that clear registers, return early, fail, or block;
- other processes that remove directories and files, take PIDs and reap children;
- limits: a full line, a full history, two-byte characters, a block that just
  fits, a break that is not aligned;
- the ends: a closed input inside a line or an escape sequence, `exit`, a panic
  with the terminal in raw mode;
- writes that take a part of a text or nothing, and a terminal that goes away;
- a language of quotes, escapes and operators, read by two parsers that share no
  code, one of which cuts the line in place behind what earlier lines left there.

What makes each part correct: the history is a bounded queue without repeated
neighbours and every index into it is valid; the terminal's row shows the line that
will be run; a line is recorded before it runs; the terminal mode comes back; PWD
names the working directory; live allocations are disjoint and freed memory is
whole again; an external command is waited for exactly once, runs what was
found, leaks nothing, and always comes back to the prompt; a line is cut into the
words that its quotes make, no word is lost, and any text can be written as a
word; output arrives in its order, and a line ends whatever happens to its output.

`PROJECT.json` lists each hazard at its line with the properties aimed at it.

## Modules

| module | models | state and actions |
|---|---|---|
| `Terminal` | the row of the terminal that the cursor is on; external | operators: what characters, `\b`, `\r` and ESC [ K do to the cells of the row and to the cursor |
| `LineEditor` | `read_line`, `replace_line`, `History`, and the two things a caller does between lines; EXTENDS `Terminal` | `entries`, `browse`, `pending`, `buf` are the fields and the local of the same name (`browse` 0 is `None`, i is `Some(i - 1)`); one action per key, per byte of an escape sequence, and for the end of the input; `Record` and `Prompt` are the caller's; `row` is what was written to the terminal |
| `Repl` | both Rust shells; EXTENDS `LineEditor` | one action per point where the loop may stop: start, its failures, a key, the end of the input, recording, parsing, `execute`, `update_pwd`; other processes remove and make directories between `chdir` and `getcwd` |
| `Parser` | `parse.rs`: `ReadWord`, `NextToken`, `ParseLine` | none: recursive functions over the positions of a line; `Items` is the reference definition |
| `Builtins` | `src/builtins`, `exec::execute`; EXTENDS `Parser` | none: a builtin is an operator that gives its writes call by call, its exit code and the environment after it |
| `CommandLines` | a line through both Rust shells, and the writers below; EXTENDS `Builtins` | `EnterLine` reads, parses and executes; then one action per attempt to write, `WriteTakesAll`, `WriteTakes`, `WriteRefused`, and `BufferText` where nothing reaches the kernel |
| `ExternalCommand` | `try_find_and_exec` and its call | one action per stretch of code between two system calls; `regs` and `saved` follow what survives a call, `stack` is pushed and popped value by value |
| `Heap` | `allocator.rs`, in bytes | `blocks` is the linked list, `backLink` the word before each pointer; `AllocFromList`, `AllocRefused`, `AllocAfterGrowth`, `Dealloc` |
| `AllocatorContract` | what `GlobalAlloc` promises | `live` allocations and the break; `Heap` implements it (`HeapMeetsContract`, with the variables of the same name) |
| `FlatShell` | the loop of `vish.asm`: line editor, history, splitting, dispatch | the buffers are byte arrays; `index` is `r14`, `length` what `read_line` returned; a handler that relies on registers nobody set has the outcomes it can have |
| `FlatWords` | `tokenize_line` with quotes; EXTENDS `Parser` for the comparison | `lineBuffer` and `argvTable` are the arrays, never cleared; `StoreByte`, `EraseTo`, `EnterLine`, `TokenizeLine`, `Dispatch` |
| `BoundedQueue` | what a history promises | a queue that takes a line at most once and evicts the oldest; `LineEditor` implements it with `entries`, `FlatShell` with the strings of its slots (`HistoryIsQueue` in both) |
| `LineEditorProofs`, `ReplProofs`, `ExternalCommandProofs`, `HeapProofs`, `FlatShellProofs`, `FlatWordsProofs`, `CommandLinesProofs` | theorems about the module each is named after | see Proofs |
| `BuiltinsProofs` | lemmas about the parser and the builtins, for `CommandLinesProofs`, which EXTENDS it | see Proofs |
| `MC*` | the modules as TLC checks them | the layouts, which a `.cfg` cannot write |

Abstractions:

- *Lines and commands.*  Bytes are model values from a small set.  What a line
  parses to is open in `Repl`: any command, or a parse error.  The commands are
  those that change the shell in different ways.  What it really parses to is in
  `CommandLines`, where characters are strings of length one, and how the line was
  edited is left to `LineEditor`.
- *Messages.*  In `Builtins` a fixed message is one element of a text, a byte that
  cannot be written as a character another.  Numbers of `exit` are left to `Repl`.
- *The Linux writer.*  `stdout.write` and `stdout.flush` go through the standard
  library's line buffer, which is external.  It holds `BufferSize` bytes (1024 in the
  library): a text goes to the kernel up to its last newline, one without a newline
  goes there if it is as long as the buffer, and the rest waits for the flush; what
  waits goes first if it ends a line, or if the text has a newline or does not fit
  behind it.  Of what the kernel took a part of, the library keeps what fits, as
  lines if it can, and its result says how far; `StdoutWriter` looks at no result, and
  `lost` records that something was given up.  Two texts lose their end: a short
  write of one without a newline that is as long as the buffer; and, even without a
  short write, one whose last newline has a bufferful or more behind it, of which older
  releases of the library keep a bufferful and later ones nothing (`KeptTo` has
  both).  Sizes are counted in elements of a text; a fixed message is one.
- *High bytes.*  The Rust editor stores a byte from 0x80 up as a character of
  two bytes; the first is abstracted to `Lead`.  0x85 and 0xA0, which `trim`
  takes for blanks, are left out of `High`.
- *Registers and stack.*  `regs` are the five registers that a callee preserves, with
  what `dispatch_command` has in them when it calls (`Calling`); the caller needs them
  afterwards (`vish.asm:862`).  `stack` reaches down to the return address.  A path
  that pops too little or too much would hand the caller other values, or return to
  something that is no return address.
- *Full lines in the flat shell.*  `tokenize_line` reads a line without a terminator on
  into `argv_table`, which lies behind it, and stops at the third byte of the first
  pointer, a zero for an image at 0x2000000 of less than 64 KiB.  The two bytes before it
  may be blanks, one of which is then overwritten with a terminator, or make words.
  `TokenizeLine` has each number of words that can come out; the table is not in the
  module, and that the command is then given another argument is not followed.
- *Terminal.*  `row` is the row the cursor is on, with `Width` columns; rows above it
  are never written again, the row below is blank, and what a command printed before
  the prompt ends in some column of it (`OutputEnds`).  Bytes of `Shown` (0x20 to 0x7E)
  take a column.  The editor also stores and echoes control bytes without a binding
  (Ctrl+A, BEL, a vertical tab) and bytes from 0x80 up, as they came; what these do to
  the row depends on the terminal, so that it is `Unknown` until it is redrawn.
  `ScreenShowsLine` is therefore about a line whose bytes all take a column, and which
  leaves one, since it was last drawn (`inStep`).  Of a longer line an arrow key or a
  kill redraws only the cursor's row; that row is then right, the line's first rows
  stay above it, and the property does not speak of those.  DEL after a control byte
  rubs out the column of another character, and the row is `Unknown` by then.  The "^C"
  of Ctrl+C is written over at once.
- *Blanks.*  `str::trim` strips the form feed and the vertical tab, which can be typed
  and which the parser takes for characters of a word.
- *Quotes in the flat shell.*  In `FlatShell`, `TokenizeLine` splits at blanks and
  `Chars` has no quotes: what matters there are the bytes of the line and the
  history.  `FlatWords` has quotes and the argument table, and leaves full lines,
  which have no terminator, to `FlatShell`.
- *Undefined behaviour.*  Arrow up in the flat shell takes the length of whatever
  lies at address 256, arrow down writes where an unset register points.  Both
  may fault, or give any length; a length above the capacity acts as the
  capacity does.  That register holds what earlier lines left in it: the entry point, the
  capacity of the argument table, a small count, or the address of a system call.
  None of them is in an array of the loop, but the last is in the code: what a program
  does that was written over is not followed.
- *Kernel.*  `read`, `fork`, `exec`, `waitpid`, `brk`, the process table and the
  file system are external and modelled from how the code uses them.
- *Builds and breaks.*  `backend` and `brkStart` are chosen once, so that one run
  covers both builds and both alignments.
- *History variables* (`draft`, `ending`, `moved`, `found`, `stolen`, `live`,
  `inStep`, `wanted`, `cwd`, `lost`, `refused`) only record; no guard of the code's actions reads them,
  except that `Dealloc` is given a live pointer, as Rust guarantees.

A definition whose comment begins with "A fault" (or that is named as a variant
in one) is a wrong version of the definition that follows.  No specification
uses it; it takes the place of the right one to show that a property notices.

## Runs

| run | question | result |
|---|---|---|
| `LineEditorRuns` | does the browse position stay valid and track the line, does the history keep its shape and implement a bounded queue, do lines stay bounded, does the row show the line? | holds, with one byte more than LINE_MAX for a byte stored as two, and for rows in step |
| `LineEditorDown` | is the typed line there when nothing is browsed (`readline.rs:27`)? | no: arrow down erases it |
| `ReplRuns` | is a line recorded before it runs, is the terminal mode right, does PWD follow `cd`, does a closed input end the shell, in both builds? | holds |
| `ReplExit` | is the terminal restored whenever the shell ends (`main.rs:62`)? | no: not after `exit` |
| `CommandLines` | does the parser read a line as its quotes say, is no word lost or given to another command, can any text be quoted, does `echo -e` decode what was encoded, does `printenv` see `cd`, does the output arrive in order, and does every line end? | holds; lost are texts that are refused and, on Linux, what neither the kernel nor the line buffer took of a text |
| `ExternalCommands` | is each child awaited, does it run what was found, does every path give the caller its stack and registers back, does every command come back even if somebody else reaps the child? | holds |
| `ExternalEnv` | does the child get the environment (`vish.asm:853`)? | no: the end of the command table |
| `HeapBlocks` | are blocks apart, merged, whole when empty, and is the contract met, from an aligned break and from another? | holds |
| `FlatRuns` | does the history implement a bounded queue, is the newest entry the line, and does every index stay in range? | holds |
| `FlatArrows` | do the slots stay terminated whatever the arrow keys do, short of a fault, and does a failed input end the shell? | holds, but `cat` never ends |
| `FlatFullLine` | is the line terminated when it is split (`vish.asm:633`)? | no: not a full one |
| `FlatWords` | is a line cut at its unquoted blanks, whatever earlier lines left in the arrays, and does the Rust parser find the same words? | holds |

`CHECK_DEADLOCK FALSE` stands where the system may really stop: a shell that has
exited or whose output nobody takes any more, a closed session, a heap with nothing left to give.

Other places where the code and its comments part, visible in the modules (the
last one only in the source) but without a run of their own:

- `readline.rs:107` says that the browse state is reset after a line is committed;
  `Add` leaves it when the line repeats the newest entry (`BrowseTracksLine` says
  what holds instead).
- `readline.rs:17` calls LINE_MAX the maximum; a byte from 0x80 up is pushed as
  two, so that a line may have one byte more (`LineBound` has the limit the code keeps;
  `LineEditorRuns` reaches it).  The same bytes are echoed as they came, so that UTF-8
  is not passed through (`docs/goals.md:71`).
- `readline.rs:226` calls the bytes that are stored printable; control bytes without a
  binding are stored and echoed too.  `readline.rs:248` says that the whole line is
  cleared before it is redrawn; of a line that has wrapped, one row is.
- `vish.asm:1814` says that 0 means found and executed; it is also returned when
  exec failed in the child.
- `vish.asm:83` says that empty lines are skipped; `EmptyLine` ends the shell.
- `vish.asm:1757` has `sys_exit(code)`; the code is cleared, and `exit N` ends with 0.
- `main.rs:43` calls `write`, whose count is not looked at.  The line buffer repairs
  most of that.  What is lost: what `cat` or `echo -e` write behind the last newline of
  one text, when the kernel takes only a part of the lines before it; the rest of a
  text of 1024 bytes or more without a newline, a long word of `echo` for instance, of
  which the kernel takes a part; and, whatever the kernel does, the end of a text with
  1024 bytes or more behind its last newline.
- `vish.asm:172` says that a read of nothing is tried again; inside an arrow key
  (`vish.asm:297`) it gives up the sequence, and the rest of it is typed into the
  line.
- `allocator.rs:131` leaves out the rounding of the pointer and of the span: for
  4049 bytes with align 1 it gets 4096 where 4112 are needed, and `alloc` returns
  null although brk was granted; the build plan (line 25 of
  `docs/superpowers/plans/2026-10-04-vish-bare-metal-build.md`) says that the heap
  "is bounded by VIBIX `brk` failures".
- `echo.rs:118` pushes a character back; it prints it and drops the rest of the
  argument (`WriteEscaped`).  `\c` stops its argument, not the output, and
  `echo -nx` turns the newline off and prints `-nx`.
- `parse.rs:4` has a command on each side of a pipe; pipes with nothing between
  them are accepted.  `>&` is read as a merge of stderr (`parse.rs:210`).  The line
  is trimmed before it is parsed, so that an escaped blank at its end is a
  "trailing backslash".  Of a pipeline the first command runs, and redirections do
  nothing, as `exec.rs:21` says.
- `io.rs:10` has `None` for the end of the input; VIBIX tries a read of 0 again and
  ends on errors only.
- `vish.asm:631` handles quotes, but leaves them in the words; `dispatch_command`
  passes the argument table to `exec` without a terminator, so that words of
  earlier lines follow those of this one; `join_path` runs over the end of
  `path_buffer` with a name of 250 bytes.
- `vish.asm:1129` takes the length of a name through a register that does not hold
  it, and `printenv NAME` of the flat shell depends on what lies there.
- `vish.asm:414` says that arrow up returns the length of the entry; it is taken
  at the wrong address, and the terminator overwrites the first byte of the line.
- `echo -e` of the flat shell is not modelled, but read: `vish.asm:1603` pushes a
  register that no path pops, so that `write_escaped` returns through a saved
  register after a `\0NNN`.  After three digits `r12` stands on the last of them,
  where line 1622 has it "past the octal digits".  The "char" of an unknown escape
  (line 1541) is what the write of the backslash left in `al`.  A backslash that
  ends an argument is not printed, where `echo.rs` prints it.

### Bounds, and why they are enough

- *Line editor.*  Four entries are the shells' own capacity.  Lines of two bytes (three
  with a byte stored as two at the limit) of a character, a form feed that is a blank
  for `trim`, and a byte of `High` are enough to fill the history, evict, repeat the
  newest and repeat an evicted one.  A row of three columns, one of them the prompt,
  is filled by a line of two: lines that leave a column, reach the margin and wrap all
  occur, from a prompt at the start of a row and behind other output.
- *Repl.*  Lines of one byte and two entries: the editor has its own run, and what
  the loop adds depends on the line only through being blank or a repetition.  Two
  directories are enough for PWD to name the wrong one; exit code 256 is the
  smallest that is cut to another status on Linux.
- *Command lines.*  All lines of up to four of the seven characters that quoting,
  pipes and redirections give a meaning, all of up to three of these and `2`, `&`
  and `#`, and calls of each builtin with its flags and errors: four characters hold a
  quoted operator, an escape inside quotes that stay open, or a pipe between two
  words.  A terminal that works cuts or refuses `MaxCuts` writes of a line, for the
  lines of `CutLines`: a second cut meets the same writers with a shorter text.  One
  that broke stays broken.  `MaxKept` ends the run when refused texts pile up in the
  line buffer.  The buffer holds three elements, so that texts are shorter than it, as
  long and longer, with and without a newline, and lines behind what waits in it
  empty it first; 1024 and 4096 stand in the same order.
- *External commands.*  Three process slots beside the shell let a child, a
  stranger and a free slot coexist; there is never more than one child.
- *Heap.*  Two pages and three layouts: a small one, one with an alignment above
  16, and one that nearly fills a page.  They split, fill, outgrow and fragment a
  region, and make growth extend the last block or, from a break that is not
  aligned, add one.
- *Flat words.*  Lines of up to five bytes of five (a letter, a blank, both quotes, the
  backslash), any number of them one after the other in any stage of editing, and
  a table of two words: a line may have a word too many, and leave bytes and
  addresses behind that the next one could run into.
- *Flat shell.*  `FlatRuns`: two slots and lines of five bytes, so that a line may
  have three words, fill the buffer and be cut when it is recorded.  `FlatArrows`:
  lines of two bytes, all arrow keys and a failing input.  Each limit of the code
  (`LINE_CAPACITY`, `HISTORY_SLOTS`, `ARGV_CAPACITY`) is reached.  `MayFail`
  says whether the input may fail.

### Fairness

- `FairReplSpec`: weak fairness of what the process does without waiting.  A
  process that is ready is scheduled; reading on a closed input returns at once.
  Nobody is assumed to press a key or to close the input.
- `CommandSpec`: weak fairness of the shell's writes and of the kernel's answers to
  them.  Nobody is assumed to enter a line, to break the terminal or to mend it.
- `FairExternalSpec`: weak fairness of the shell's steps, of waking a blocked
  parent, and of the child and its program.  VIBIX wakes a blocked waiter again
  and again (that is why the code retries on 0), and a program that never ended
  would rightly keep the shell waiting.  Other processes owe nothing.
- `FairFlatSpec`: weak fairness of the steps that wait for no key.

## Proofs

TLAPS checks each theorem for every value of the constants that the module's own
assumption admits (`TerminalAssumption`, `EditorAssumption`, `ReplAssumption`, `ExternalAssumption`,
`HeapAssumption`, `FlatAssumption`, `WordsAssumption`, `CommandAssumption`,
`FileAssumption`, `StringAssumption`, `EscapeAssumption`; TLC evaluates them in every run that uses the
constants).  Where a theorem has a hypothesis of its own, it is given below.  Each module
follows the same argument: an inductive invariant, checked with TLC first, that holds
at the start and is kept by each action (a lemma per action or group of actions), and
from which the properties follow.

| module | theorem | states |
|---|---|---|
| `LineEditorProofs` | `EditorInvariance` | the inductive invariant `EditorInv` |
| | `EditorTypeCorrect` | `EditorTypeOK`: types, and the position within the capacity |
| | `BrowsePositionValid` | `BrowseInRange`: the position is the index of an entry |
| | `HistoryKeepsShape` | `HistoryShape`: bounded, no blank line, no repeated neighbours |
| | `BrowsedEntryIsLine` | `BrowseTracksLine`: the browsed entry is the line, or the line is empty and the entry holds the newest text |
| | `LinesBounded` | `LineBound`: every line within its limit |
| | `ScreenIsLine` | `ScreenShowsLine`: a row in step shows prompt and line and nothing else, for every width |
| | `HistoryIsBoundedQueue` | `HistoryIsQueue`: the editor implements `BoundedQueue` with `entries` |
| `ReplProofs` | `ReplUsesEditor` | `ReplSpec => EditorSpec`: the shells implement the editor's specification, so that its theorems hold in them |
| | `ReplInvariance` | the inductive invariants `ReplInv` and `EditorInv` |
| | `ReplTypeCorrect` | `ReplTypeOK` |
| | `LineIsRecordedBeforeRun` | `RecordedBeforeRun`: a line is the newest entry before anything is done with it |
| | `TerminalModeKept` | `TerminalMode`: keys are read in raw mode only, and every way out but `exit` gives the mode back |
| | `PwdFollowsCd` | `PwdNamesCwd`: after `cd`, PWD names the working directory while it exists |
| `ExternalCommandProofs` | `ExternalInvariance` | the inductive invariant `ExternalInv` |
| | `ExternalTypeCorrect` | `ExternalTypeOK` |
| | `OnlyChildIsAwaited` | `ChildrenAwaited`: a child exists only while the shell waits for it |
| | `ChildRunsCommand` | `ChildRunsWhatWasFound`: path and arguments survive the calls that clear registers |
| | `StackAndDescriptorsBalanced` | `NothingLeftBehind`: on every path back the caller's registers and stack are as they were, and nothing is open |
| | `WaitFailsForTheftOnly` | `WaitFailsOnlyIfStolen` |
| `HeapProofs` | `HeapInvariance` | the inductive invariant `HeapInv` |
| | `HeapTypeCorrect` | `HeapTypeOK`: there is a back link for each live pointer and no other |
| | `BlocksStayApart` | `BlocksApart`: aligned, large enough, in order, disjoint, in granted memory |
| | `LiveHasItsBlock` | `LiveInOwnBlock` |
| | `NeighboursCoalesce` | `NoFreeNeighbours` |
| | `NothingLeaks` | `EmptyHeapIsWhole` |
| | `AllocatorMeetsContract` | `HeapMeetsContract`: `Heap` implements `AllocatorContract` |
| `FlatShellProofs` | `FlatTypeCorrect` | `FlatTypeOK` |
| | `SlotsStayTerminated` | `SlotsTerminated`: for every key, the undefined ones included |
| | `HistoryIsBoundedQueue` | `HistoryIsQueue`: the slots implement `BoundedQueue`; for every key |
| | `NewestIsTheLine` | `NewestIsLine`, if neither arrow up nor arrow down is pressed |
| `FlatWordsProofs` | `WordsInvariance` | the inductive invariant `WordsInv` |
| | `WordsTypeCorrect` | `WordsTypeOK`: the last cell of the line is a terminator at all times |
| | `ArgumentsAreWords` | `WordsAsQuoted`: the arguments are the line cut at its unquoted blanks |
| `CommandLinesProofs` | `SessionInvariance` | the inductive invariant `SessionInv` of the loop: what a line is given and what it leaves to the next |
| | `PrintenvFollows` | `PrintenvFollowsCd`: after `cd`, `printenv PWD` prints the directory, whatever ran since |
| | `AnyTextIsAWord` | `QuotedTextIsOneWord`: any text, quoted in any of three ways, is parsed to one argument |
| | `BackslashesAreDecoded` | `EchoDecodesBackslashes`: `echo -e` prints any text whose backslashes are written as escapes |
| | `ArrivalInvariance` | the inductive invariant `ArrivalInv` of the writers |
| | `CommandTypeCorrect` | `CommandTypeOK`: whatever a line is parsed to, it makes writes of texts |
| | `OutputArrivesInOrder` | `OutputArrives`: in order and once, for every size of the line buffer, until a write is refused or some of a text given up |

*Line editor.*  `BrowseInRange` is not inductive: `add` evicts an entry and could
leave the position beyond the end or on another line.  It does not, because an
entered line that is browsed is an entry, so that either `add` resets the position
or the line repeats the newest and nothing changes; `BrowseTracksLine` states that,
and it needs `HistoryShape` (no repeated neighbours, no blank entries) to survive a
step.  `EditorInv` is their conjunction with the types and `LineBound`.  One lemma
per kind of step (edits, arrows, recording) shows that it is kept; `PoppedIsLine`,
`StoredIsLine` and `AddKeepsShape` are the facts about the data they rest on.
`HistoryIsBoundedQueue` maps `entries` to the queue and "the line was entered" to
its being ready for one: `Record` is a push or leaves the queue alone, every other
step waits; that the history never exceeds its capacity (`HistoryShape`) makes the
eviction of `add` that of the queue.
`ScreenIsLine` needs `RowInv`: a row in step is exactly what one drawing of prompt and
line on an empty row would be (`RowOf`).  `DrawnIsRow`, `EchoedIsRow` and `RubbedIsRow` show
that drawing, echoing a character and rubbing one out each lead from one such row to the
next, from the cells and the cursor that `Terminal` gives.

*Loop.*  `ReplStepIsEditorStep` shows that each step of the loop is one of the
editor or leaves its variables alone; the editor's theorems then hold as they
stand.  What is left for `ReplInv` is where the editor is while the loop is
elsewhere (`EditorAtRest`), without which `RecordedBeforeRun` could be broken by a
key, and how the terminal's mode depends on the shell's state (`TerminalState`).
`RecordedLineIsNewest` is the fact about `add`, and it rests on `BrowseTracksLine`.

*External commands.*  Nothing the shell keeps in registers survives a system call, so
that `ChildRunsWhatWasFound` needs to be known before there is a child:
`SearchState` says, for each point of the search, where name, path and arguments
are, `WaitState` that the slot which is waited for holds the only child or was
reaped by somebody else, and `Descriptors` what is open.  `StackState` says how much lies
on top of the caller's frame at each point (nothing while searching, three values before
the fork, four while waiting, however often the wait was woken); `ReturnRestores` then has each way
out drop just that much and find the five registers in their order.  Other processes take part
in every step; `TableEntries` tells theirs from the shell's.

*Heap.*  The properties are about the list; the invariant also has to say that the
blocks of an aligned heap leave no gap (`Covers`), for `EmptyHeapIsWhole`, and that
each live allocation leads back to its block (`Accounted`).  The proof has three
layers: arithmetic of alignment (`AlignUpProperties` ... `GrowBytesProperties`: with
the sizes that `GrowBytes` asks for, what was granted and what is used stay
multiples of 16); operations on lists (`SpliceProperties`, `CoalescedProperties`,
`SplitKeeps`, `RegionKeeps` and others, about any list between any two addresses);
and allocations on top of them (`FreshMemory`, `HandOutKeeps`, `DeallocKeeps`).
Merging is the step that could break the most: `CoalescedKeeps` shows that it
neither loses a used block nor leaves two free neighbours (`CoalescedApart`).  The
refinement of `AllocatorContract` follows from `HeapInv`: the block that is handed
out is in nobody's use, thus apart from every live allocation.

*Flat shell.*  The history is one array, and everything depends on where a slot
begins: `SlotOrder` and `SlotCells` prove that slots do not overlap, for every
stride and count (the products are what the solver must not see all at once).  `FlatTypeOK`
is inductive, also for the arrow keys, whose outcomes are open.  `SlotsTerminated`
is inductive on it, since every step but recording leaves the slots alone and recording ends
the slot it writes.  `TextProperties` says what the string in a slot is, `PushFromPlaces`
that copying slots down is the queue's `Tail`; so `RecordHistory` is a push.
`NewestIsLine` needs `LineInv`: the line has no terminator inside, and has one behind
it unless it fills the buffer.  Arrow up breaks that (it leaves a terminator at the
front and any length), and `NewestIsLine` with it, as TLC finds when "A" is a member of `Finals`;
arrow down gives any length, too.  So this theorem has as a hypothesis that these keys do
not occur, which is the case in run `FlatRuns`.

*Words of the flat shell.*  `tokenize_line` runs along the bytes of the line; the
property speaks of places: where a word starts, and which blanks no quotes enclose.
To the prover a recursive function is a `CHOOSE` of which nothing is known, so
`EndsExists`, `FollowsExists` and `FromsExists` build those of `WordEnd`,
`QuoteStates` and `WordStarts`, and no induction is used to follow them: if the scan
of a word could stop elsewhere than at its first cut, there would be a last place
from which it does (`Largest`), and one step from there (`ScanStep`) contradicts it.
So `WordEndScans` has the scan of a word stop at the first blank outside quotes or
at the terminator (`WordEndsAtCut`, with the states that `QuotesFollow` gives); an
escaped byte in double quotes is stepped over without missing a cut.
`WordStartsListed` says that the table gets the places of words in their order,
looking for the smallest number of free entries for which it does not, and
`InOrderListed` that counting the places below each one gives the same order.
`WordCutOut` is about the arrays: the terminators that are stored behind the words
leave each word as it was, ended by its own, whatever lies behind the line.  `WordsInv`
adds what that rests on: the entered line stands in `lineBuffer` in front of a
terminator (`LineStored`), and the last cell is a terminator at all times, also
after every `StoreByte` and whatever was tokenized before; without that the scan
could run out of the buffer.

*Writers.*  `OutputArrives` is kept by each write, however much of it is taken: what
moves from the front of the remaining text appears on the screen (VIBIX), or goes
through the line buffer (Linux).  `ArrivalInv` adds where the flush stands: only
Linux buffers, never more than the buffer holds, and a flush is under way only while it
holds something; with that, a text that is given to the kernel directly never overtakes
the buffer.
`WrittenFirst` says that what a sequence of writes contains is the first text and
then the rest; `FlattenSeq` is defined by recursion, and the lemma rests on
`JoinExists` and `JoinIsUnique`, which look for the smallest number where the
recursion could go wrong.

*Lines and builtins.*  That the writers are given texts at all depends on everything
a line passes through: the parser, the builtin that runs, and the environment that
earlier lines left.  `ReadWord`, `ParseLine`, `WriteEscaped` and the flags of `echo` are
recursive functions over the places of a text, and `RecursionToTheEnd` and
`RecursionToTheFront` show that such a function exists and has its type whenever a
step looks only at the places behind it (or in front), by looking for the
last (or first) place where it could not.  With them `ReadWordType` says that
a word is a text and that at least one character is taken, without which `ParseLine`
could ask for a token at a place it stands on; `ParseLineType` that a pipeline has
commands made of texts, `EscapeStepType` that no escape reads beyond the end of its
text and each writes bytes, and `ExecuteType` that every builtin makes writes of texts; `EnterMeans`
puts them together for a line.  `SessionInv` carries the environment from line to
line.  `PrintenvFollowsCd` alone is not inductive, since it does not say that the entry
which `printenv` finds is the one the next `cd` changes: `HasPwd` says where it is,
`UpdatedPwdDefines` that `update_pwd` leaves it there or adds the only one.

`QuotedTextIsOneWord` says what `ReadWord` returns, and for texts of any length.  A
quoted text is put together by `FlattenSeq` from one chunk for each character (the
character, or a backslash and the character); `FlattenPlaces` says at which place each
chunk stands.  `SpellingsRead` then goes from the end of the text to its front: if
there were a character from which `ReadWord` does not give the rest of the text, the
last one would be followed by a place from which it does, and one step of the scan
over its chunk joins the two.  `QuotingIsWord` adds the quotes around it, and
`ThreeWords` puts the tokens of a line together to a command.  `EchoDecodesBackslashes`
follows the same argument through `write_escaped`: `MaskedRead` is its step, where
`DigitsInARow` has an escape take its digits and no more, and `MaskedWritten` goes from
the end of the text to its front; `EchoOfOne` reads the flags in front of it.

To the provers a string is an atom without characters, so `StringAssumption`
says what they need to know of the strings in the code: that each message is a
string, that `"PWD="` is `"PWD"` with one character more, and that commands with different names
have different texts.  `EscapeAssumption` has the characters of the flags and escapes, which of
them are digits, and that `5c` in base 16 and `134` in base 8 are the backslash's number.  Neither
has a constant; TLC evaluates both.

Only model-checked:

- liveness under fairness, which is out of the prover's reach: `ClosedInputEndsShell`,
  `CommandReturns`, `LineEnds`, `FailedInputEnds`;
- `TokensAsQuoted` and `CommandsKeepEveryWord`: they compare the recursive functions
  of `Parser` with a reader's view of the whole line, its quotes, words and operators
  in their order.  The library's induction theorems cannot be instantiated, and the
  argument of `SpellingsRead` would have to be made for every kind of token;
- `AgreesWithParser` of `FlatWords`: it compares the words with those of the Rust
  parser, whose names of tokens are strings taken apart.

## Not modelled

The printing builtins of the flat shell, the probe program, and the build (see
"components" in `PROJECT.json`); the writers and readers for tests in `io.rs`; the
allocator's spin lock, since the shell has one thread; the default `realloc`, which
is an alloc, a copy and a dealloc; overflow of sizes near 2^64, which no layout of
the shell comes near; the offsets of parse errors, which nobody reads; `echo`'s
characters above 127, which `c as u8` cuts.

## Plan

Done: the core (`LineEditor`, `Repl`, `ExternalCommand`, `Heap` with
`AllocatorContract`, `FlatShell`); the parser, the builtins and the writers (`Parser`,
`Builtins`, `CommandLines`); the flat shell's words (`FlatWords`); `BoundedQueue`,
implemented and proved for both histories; the safety properties of the core, of
the flat shell's words, and of lines from the parser to the writers, proved.  Left, in this order:

1. Abstract specifications: a `Command` that is started at most once and always
   returns, implemented by `ExternalCommand`; a `Session` of accepted lines,
   implemented by `Repl`.
2. The flat shell's `echo` and `printenv` as operators beside those of `Builtins`, and
   where the two differ; `join_path` with its bound.
