----------------------------- MODULE CommandLines -----------------------------
(***************************************************************************)
(* One line after the other through the Rust shells: entered, trimmed,      *)
(* parsed, run, and its output written piece by piece to a terminal that    *)
(* may take less than it is given.  This composes Parser and Builtins with  *)
(* the writers of src/main.rs (StdoutWriter) and src/vibix/runtime.rs       *)
(* (VibixWriter).  How a line is edited and recorded is in LineEditor; here *)
(* any line of Lines may be entered, behind the lines of Earlier.           *)
(***************************************************************************)
EXTENDS Builtins

CONSTANTS
  Backends,      \* the builds: "linux", "vibix"
  Lines,         \* the lines a user may enter
  Earlier,       \* the entries of the history before, fewer than it can hold
  Environments,  \* the environments a Linux shell may start with
  ShortCounts,   \* what a write may take instead of all it is given
  MaxCuts,       \* bound: how many writes of a line a terminal that works cuts
                 \* short or refuses
  CutLines,      \* bound: the lines during whose output a terminal fails, and
                 \* that are entered after it failed
  MaxKept,       \* bound: what the line buffer may keep when a line is entered
  BufferSize     \* Linux: what the standard library's line buffer holds

ASSUME CommandAssumption ==
  /\ Backends \subseteq {"linux", "vibix"}
  /\ Lines \subseteq Seq(STRING)
  /\ Earlier \in Seq(Seq(STRING)) /\ Len(Earlier) \in 0 .. 3
  /\ Environments \subseteq Seq(Seq(STRING))
  /\ ShortCounts \subseteq Nat \ {0}
  /\ MaxCuts \in Nat
  /\ CutLines \subseteq Lines
  /\ MaxKept \in Nat
  /\ BufferSize \in Nat \ {0}

VARIABLES
  backend,  \* which build this is; it never changes
  at,       \* "reading", "printing", "leaving" (the last writes) or "exited"
  line,     \* the line that was entered
  env,      \* the environment the shell keeps
  cwd,      \* the directory the last cd went to, << >> before (history variable)
  todo,     \* the writes that are still to be made
  screen,   \* what arrived at the terminal for this line
  wanted,   \* what waited in the buffer before, and all that was written for
            \* it (history variable)
  buffer,   \* Linux: what waits in the standard library's line buffer
  emptying, \* Linux: the buffer goes to the kernel ahead of the first of todo
  flushing, \* Linux: the first of todo has been written, its flush goes on
  broken,   \* the terminal takes nothing any more
  cuts,     \* how many writes were cut short or refused while it worked
  lost,     \* a write took only a part of its text, as its result said
            \* (history variable)
  refused   \* a write took nothing (history variable)

lineVars == <<backend, line, env, cwd>>
writeVars == <<todo, screen, wanted, buffer, emptying, flushing, broken,
              cuts, lost, refused>>
commandVars == <<at, lineVars, writeVars>>

Std == backend = "linux"
Prompt == <<"vish$ ">>

\* The characters of a sequence of writes.
Written(writes) == FlattenSeq([i \in DOMAIN writes |-> writes[i].text])

\* str::trim, which strips more than the parser takes for white space; of what
\* can be typed, U+0085 and U+00A0 are left out.
White == {" ", "\t", "\f", "VT"}

Trimmed(text) ==
  LET black == {i \in DOMAIN text : text[i] \notin White}
  IN  IF black = {} THEN << >>
      ELSE SubSeq(text, CHOOSE i \in black : \A k \in black : i <= k,
                        CHOOSE i \in black : \A k \in black : k <= i)

CommandInit ==
  /\ backend \in Backends
  /\ env \in (IF backend = "linux" THEN Environments ELSE {<< >>})
  /\ at = "reading"
  /\ line = << >> /\ cwd = << >>
  /\ todo = << >> /\ screen = << >> /\ wanted = << >>
  /\ buffer = << >> /\ emptying = FALSE /\ flushing = FALSE
  /\ broken = FALSE /\ cuts = 0 /\ lost = FALSE /\ refused = FALSE

-----------------------------------------------------------------------------
(* The loop: read_line returns l, and what it means is worked out before     *)
(* the first write.                                                         *)

\* A write_str of nothing writes nothing.
Made(write) == IF write.text = << >> THEN << >> ELSE <<write>>

\* The writes of a line and, unless the shell leaves, of the next prompt.
AllWrites(writes, leave) == IF leave THEN writes ELSE Append(writes, Write(Prompt))

\* They are to be made; what is still in the buffer is ahead of them.
Output(writes, leave) ==
  /\ at' = IF leave THEN "leaving" ELSE "printing"
  /\ todo' = LET all == AllWrites(writes, leave)
             IN  FlattenSeq([i \in DOMAIN all |-> Made(all[i])])
  /\ wanted' = buffer \o Written(todo')
  /\ UNCHANGED <<backend, screen, buffer, emptying, flushing, broken, cuts, lost, refused>>

BlankLine(l) ==
  /\ Trimmed(l) = << >>
  /\ Output(<< >>, FALSE)
  /\ UNCHANGED <<env, cwd>>

RefuseLine(parsed) ==
  /\ parsed.error # "none"
  /\ Output(IF Std THEN <<Write(<<"parse error: ", parsed.error>> \o Crlf)>>
            ELSE <<Write(<<"parse error: ">>), Write(<<parsed.error>>), Write(Crlf)>>, FALSE)
  /\ UNCHANGED <<env, cwd>>

\* add() leaves a line out that repeats the newest entry.
Recorded(l) ==
  IF Earlier # << >> /\ Last(Earlier) = l THEN Earlier ELSE Append(Earlier, l)

\* The directory a command changes to.
Moved(argv) ==
  LET args == Tail(argv)
  IN  IF /\ Std /\ argv # << >> /\ argv[1] = Text("cd")
         /\ args # << >> /\ args[1] \in DOMAIN Directories
      THEN Directories[args[1]] ELSE cwd

Executed(result) ==
  /\ Output(result.output, result.leave)
  /\ env' = result.env

RunLine(l, parsed) ==
  /\ parsed.error = "none"
  /\ Executed(Execute(parsed.commands, env, Recorded(l), Std))
  /\ cwd' = Moved(parsed.commands[1].argv)

ParseAndRun(l, parsed) == RefuseLine(parsed) \/ RunLine(l, parsed)

EnterLine(l) ==
  /\ at = "reading"
  /\ broken \/ buffer # << >> => l \in CutLines
  /\ Len(buffer) <= MaxKept
  /\ line' = l
  /\ \/ BlankLine(l)
     \/ Trimmed(l) # << >> /\ ParseAndRun(l, ParseLine(Trimmed(l)))

-----------------------------------------------------------------------------
(* The writers. *)

\* A fault: the position is one too far.
RestOfTextPast(text, count) == SubSeq(text, count + 2, Len(text))

\* What is left of a text of which count bytes were taken.
RestOfText(text, count) == SubSeq(text, count + 1, Len(text))

\* A fault: the loop goes on when nothing is left.
AfterWriteOnce(count) ==
  IF Head(todo).call = "write_str"
  THEN <<Write(RestOfText(Head(todo).text, count))>> \o Tail(todo)
  ELSE Tail(todo)

\* The writes that are left after the first one took count bytes: VibixWriter's
\* write_str writes what is left again, its write_char makes one attempt.
AfterWrite(count) ==
  LET rest == RestOfText(Head(todo).text, count)
  IN  IF rest # << >> /\ Head(todo).call = "write_str"
      THEN <<Write(rest)>> \o Tail(todo)
      ELSE Tail(todo)

\* StdoutWriter makes one write and one flush, and looks at the result of
\* neither.  The line buffer behind them gives the kernel a text up to its last
\* newline, and one without a newline that is as long as the buffer; the rest
\* it keeps until the flush.  What it keeps goes first if it ends a line, or if
\* the text has a newline or does not fit behind it.
ThroughNewline(text) == SubSeq(text, 1, SelectLastInSeq(text, LAMBDA c : c = "\n"))

Unbuffered(text) ==
  IF ThroughNewline(text) # << >> THEN ThroughNewline(text)
  ELSE IF Len(text) >= BufferSize THEN text ELSE << >>

GivesBuffer ==
  /\ Std /\ buffer # << >>
  /\ \/ flushing \/ emptying \/ Last(buffer) = "\n"
     \/ ThroughNewline(Head(todo).text) # << >>
     \/ Len(Head(todo).text) > BufferSize - Len(buffer)

\* What the kernel is given next.
Given ==
  IF ~ Std THEN Head(todo).text
  ELSE IF GivesBuffer THEN buffer ELSE Unbuffered(Head(todo).text)

Printing == todo # << >>
MayFail == line \in CutLines

\* A short text without a newline is buffered; the kernel is given nothing.
BufferText ==
  /\ Printing /\ Std /\ Given = << >>
  /\ buffer' = buffer \o Head(todo).text
  /\ flushing' = TRUE
  /\ UNCHANGED <<at, lineVars, todo, screen, wanted, emptying, broken, cuts, lost, refused>>

\* Of what the kernel takes a part of, the rest stays in the buffer.
RestTaken(count) ==
  /\ buffer' = RestOfText(buffer, count)
  /\ emptying' = (~ flushing /\ buffer' # << >>)
  /\ flushing' = (flushing /\ buffer' # << >>)
  /\ todo' = IF flushing /\ buffer' = << >> THEN Tail(todo) ELSE todo
  /\ UNCHANGED lost

\* How far the buffer keeps a text of which the kernel took count bytes.  Of a
\* text without a newline it keeps nothing.  Behind lines that were all taken it
\* keeps the text to its end if it is shorter than the buffer; otherwise a
\* bufferful, or in later releases of the library nothing.  Of lines that were
\* not all taken it keeps the others if it can hold them, or those it can
\* hold, or a bufferful of the first.
KeptTo(text, count) ==
  LET lines == Len(ThroughNewline(text))
      full == SubSeq(text, count + 1, count + BufferSize)
  IN  CASE lines = 0 -> {count}
        [] lines # 0 /\ count >= lines ->
             IF Len(text) - lines < BufferSize THEN {Len(text)}
             ELSE {lines, lines + BufferSize}
        [] lines # 0 /\ count < lines ->
             IF lines - count <= BufferSize THEN {lines}
             ELSE {count + IF ThroughNewline(full) # << >>
                           THEN Len(ThroughNewline(full)) ELSE BufferSize}

\* The kernel took count bytes of a text.  What is behind the kept part of it
\* the library leaves to the caller, who does not look.
TextTaken(count) ==
  LET text == Head(todo).text
  IN  \E end \in KeptTo(text, count) :
        /\ buffer' = SubSeq(text, count + 1, end)
        /\ flushing' = (buffer' # << >>)
        /\ todo' = IF buffer' = << >> THEN Tail(todo) ELSE todo
        /\ lost' = (lost \/ end < Len(text))
        /\ UNCHANGED emptying

LinuxTakes(count) == IF GivesBuffer THEN RestTaken(count) ELSE TextTaken(count)

Takes(count) ==
  /\ ~ broken
  /\ screen' = screen \o SubSeq(Given, 1, count)
  /\ IF Std THEN LinuxTakes(count)
     ELSE todo' = AfterWrite(count) /\ UNCHANGED <<buffer, emptying, flushing, lost>>
  /\ UNCHANGED <<at, lineVars, wanted, broken, refused>>

WriteTakesAll ==
  /\ Printing /\ Given # << >>
  /\ Takes(Len(Given))
  /\ UNCHANGED cuts

WriteTakes(count) ==
  /\ Printing /\ MayFail /\ cuts < MaxCuts
  /\ count < Len(Given)
  /\ Takes(count)
  /\ cuts' = cuts + 1

\* A fault: only an error ends the loop.
AfterRefusalAgain == IF backend = "vibix" THEN todo ELSE Tail(todo)

\* The writes that are left when the first one was refused.
AfterRefusal == Tail(todo)

\* The kernel takes nothing, or answers with an error: the rest of the text is
\* dropped.  On Linux the flush comes nevertheless, and what is in the buffer
\* stays there.
WriteRefused ==
  LET flushes == GivesBuffer /\ ~ flushing
  IN  /\ Printing /\ Given # << >>
      /\ broken \/ (MayFail /\ cuts < MaxCuts)
      /\ emptying' = FALSE
      /\ flushing' = flushes
      /\ todo' = IF flushes THEN todo ELSE AfterRefusal
      /\ cuts' = IF broken THEN cuts ELSE cuts + 1
      /\ refused' = TRUE
      /\ UNCHANGED <<at, lineVars, screen, wanted, buffer, broken, lost>>

\* The prompt has been written, or the process ends.
LineDone ==
  /\ at \in {"printing", "leaving"} /\ todo = << >>
  /\ at' = IF at = "leaving" THEN "exited" ELSE "reading"
  /\ line' = << >> /\ screen' = << >> /\ wanted' = buffer
  /\ cuts' = 0 /\ lost' = FALSE /\ refused' = FALSE
  /\ UNCHANGED <<backend, env, cwd, todo, buffer, emptying, flushing, broken>>

\* The other end of the terminal is gone.
TerminalBreaks ==
  /\ Printing /\ ~ broken /\ MayFail
  /\ broken' = TRUE
  /\ UNCHANGED <<at, lineVars, todo, screen, wanted, buffer, emptying, flushing, cuts, lost,
                 refused>>

\* The shell's writes and the kernel's answers.
Proceed ==
  \/ BufferText
  \/ WriteTakesAll
  \/ \E count \in ShortCounts : WriteTakes(count)
  \/ WriteRefused
  \/ LineDone

CommandNext == Proceed \/ TerminalBreaks \/ \E l \in Lines : EnterLine(l)

\* The process runs as long as it need not wait for a key.
CommandSpec == CommandInit /\ [][CommandNext]_commandVars /\ WF_commandVars(Proceed)

-----------------------------------------------------------------------------
(* Properties. *)

\* Nothing of the line's output has been written yet.
Unwritten == at \in {"printing", "leaving"} /\ ~ broken /\ ~ flushing /\ Written(todo) = wanted

IsText(text) == text \in Seq(STRING)

\* What is still to be written: texts, and for write_char a single character.
WritesOK ==
  /\ todo \in Seq([call : {"write_str", "write_char"}, text : Seq(STRING) \ {<< >>}])
  /\ \A i \in DOMAIN todo : todo[i].call = "write_char" => Len(todo[i].text) = 1

CommandTypeOK ==
  /\ backend \in Backends
  /\ at \in {"reading", "printing", "leaving", "exited"}
  /\ line \in Lines \cup {<< >>}
  /\ \A i \in DOMAIN env : IsText(env[i])
  /\ IsText(cwd) /\ IsText(screen) /\ IsText(wanted)
  /\ WritesOK
  /\ IsText(buffer) /\ Len(buffer) <= BufferSize
  /\ flushing \/ emptying => Std /\ buffer # << >> /\ todo # << >>
  /\ ~ (flushing /\ emptying)
  /\ {emptying, flushing, broken, lost, refused} \subseteq BOOLEAN
  /\ cuts \in 0 .. MaxCuts

\* The words and operators that the tokenizer finds in a line are those that a
\* reader sees who follows the quotes from left to right, and it rejects the
\* line exactly when a quote or an escape is still open at its end.
TokensAsQuoted ==
  Unwritten =>
    LET text == Trimmed(line)
    IN  IF LeftOpen(text) THEN ParseLine(text).error # "none"
        ELSE Tokens(text) = Items(text)

\* The items between two pipes make a command each.
KeepsEveryWord(items, parsed) ==
  LET isTarget(i) == i > 1 /\ items[i - 1].kind = "redirect"
      pipe(i) == Cardinality({k \in 1 .. i : items[k].kind = "pipe"})
      targets == {i \in DOMAIN items : items[i].kind = "word" /\ isTarget(i)}
      plain == {i \in DOMAIN items : items[i].kind = "word" /\ ~ isTarget(i)}
      segments == InOrder({pipe(i) : i \in targets \cup plain})
      within(set, k) == InOrder({i \in set : pipe(i) = segments[k]})
      command(k) ==
        Command([n \in DOMAIN within(plain, k) |-> items[within(plain, k)[n]].text],
                [n \in DOMAIN within(targets, k) |->
                   LET i == within(targets, k)[n]
                   IN  [how |-> items[i - 1].how, target |-> items[i].text]])
      complete == \A i \in DOMAIN items :
        items[i].kind = "redirect" => i < Len(items) /\ items[i + 1].kind = "word"
  IN  /\ parsed.error = "none" <=> complete
      /\ complete => parsed.commands =
           IF segments = << >> THEN <<NoCommand>>
           ELSE [k \in DOMAIN segments |-> command(k)]

\* No word is lost, doubled or given to another command: between two pipes the
\* words behind redirections are their targets and the others the arguments,
\* in their order; pipes with nothing between them count once, and a line is
\* rejected only if something is open at its end or a redirection has no target.
CommandsKeepEveryWord ==
  Unwritten /\ ~ LeftOpen(Trimmed(line)) =>
    KeepsEveryWord(Items(Trimmed(line)), ParseLine(Trimmed(line)))

\* Any text can be given as one argument, whatever characters are in it.
QuotedTextIsOneWord ==
  Unwritten =>
    \A q \in Quotings(line) :
      ParseLine(q \o <<" ">> \o q \o <<" ", "n">>) =
        [commands |-> <<Command(<<line, line, <<"n">>>>, << >>)>>, error |-> "none"]

\* echo -e prints a text in which each backslash is written as an escape, in
\* any of the three ways to do so, whatever follows it.
EchoDecodesBackslashes ==
  Unwritten =>
    \A escape \in BackslashEscapes :
      Written(Echo(<<Text("-e"), Text("--"), Masked(line, escape)>>)) = line \o Crlf

\* After a cd, printenv PWD prints the directory it went to: cd changes the
\* entry that printenv finds, wherever PWD is in the environment, if it is.
PrintenvFollowsCd ==
  cwd # << >> => Written(Printenv(<<Text("PWD")>>, env)) = cwd \o Crlf

\* What arrives is what was written, in its order and without repetitions, with
\* the rest still to be written, unless a write was refused or, on Linux, the
\* library's write took a part of its text and said so: write_str does not look
\* at how much was taken (main.rs:43).
OutputArrives ==
  ~ refused /\ ~ lost =>
    screen \o buffer \o Written(IF flushing THEN Tail(todo) ELSE todo) = wanted

\* Every line comes to its end, even if nothing it prints is taken.
LineEnds == at \in {"printing", "leaving"} ~> at \in {"reading", "exited"}

=============================================================================
