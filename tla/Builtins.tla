------------------------------- MODULE Builtins -------------------------------
(***************************************************************************)
(* The builtins of the Rust shells, src/builtins, and exec::execute, which  *)
(* picks one.  A builtin is an operator that gives what it writes, call by  *)
(* call, its exit code, and the environment it leaves behind.               *)
(*                                                                         *)
(* A text is a sequence of ASCII characters.  The fixed messages are single *)
(* elements of a text, and so are the bytes that have no character here.    *)
(* Files and directories are external: Files maps the names that can be     *)
(* read to their contents, Directories the names that cd may be given to    *)
(* what getcwd then answers.  std says whether the build has the standard   *)
(* library: src/main.rs has, the VIBIX shell has not.                       *)
(***************************************************************************)
EXTENDS Parser, Integers, TLC

CONSTANTS Files, Directories

ASSUME FileAssumption ==
  /\ \A name \in DOMAIN Files : Files[name] \in Seq(STRING)
  /\ \A name \in DOMAIN Directories : Directories[name] \in Seq(STRING)

\* The characters of a string.
Text(string) == [i \in 1 .. Len(string) |-> SubSeq(string, i, i)]

Crlf == <<"\r", "\n">>

Write(text) == [call |-> "write_str", text |-> text]
WriteByte(c) == [call |-> "write_char", text |-> <<c>>]
Say(message) == Write(<<message>> \o Crlf)

\* The byte of value v.
Byte(v) ==
  LET printable ==
        " !\"#$%&'()*+,-./0123456789:;<=>?@ABCDEFGHIJKLMNOPQRSTUVWXYZ[\\]^_"
      lower == "abcdefghijklmnopqrstuvwxyz{|}~"
  IN  CASE v \in 32 .. 95 -> SubSeq(printable, v - 31, v - 31)
        [] v = 96 -> Backquote
        [] v \in 97 .. 126 -> SubSeq(lower, v - 96, v - 96)
        [] v = 9 -> "\t"
        [] v = 10 -> "\n"
        [] v = 13 -> "\r"
        [] OTHER -> "byte " \o ToString(v)

-----------------------------------------------------------------------------
(* Numbers in escapes. *)

DigitValue(c) ==
  CHOOSE v \in 0 .. 16 :
    \/ v = 16
    \/ c \in {SubSeq("0123456789abcdef", v + 1, v + 1), SubSeq("0123456789ABCDEF", v + 1, v + 1)}

IsDigit(c, base) == \E v \in 0 .. base - 1 :
  c \in {SubSeq("0123456789abcdef", v + 1, v + 1), SubSeq("0123456789ABCDEF", v + 1, v + 1)}

\* How many digits stand in a row from i on, at most limit of them.
DigitRun(text, i, base, limit) ==
  CHOOSE k \in 0 .. limit :
    /\ i + k <= Len(text) + 1
    /\ \A m \in i .. i + k - 1 : IsDigit(text[m], base)
    /\ k < limit /\ i + k <= Len(text) => ~ IsDigit(text[i + k], base)

\* u8::from_str_radix(digits, base).unwrap_or(0)
Value(digits, base) == FoldLeft(LAMBDA n, c : n * base + DigitValue(c), 0, digits)
Number(digits, base) ==
  IF Value(digits, base) \in 0 .. 255 THEN Value(digits, base) ELSE 0

-----------------------------------------------------------------------------
(* echo. *)

\* The bytes of the escapes that are one letter.
SimpleEscapes ==
  [c \in {"a", "b", "e", "E", "f", "r", "t", "v", "\\", "'", "\""} |->
    CASE c = "a" -> 7 [] c = "b" -> 8 [] c \in {"e", "E"} -> 27 [] c = "f" -> 12
      [] c = "r" -> 13 [] c = "t" -> 9 [] c = "v" -> 11
      [] c = "\\" -> 92 [] c = "'" -> 39 [] c = "\"" -> 34]

\* A fault: the second digit is not read.
HexLimitOne == 1

\* The digits of a \x escape.
HexLimit == 2

\* write_escaped.  out[i] is what is written from i on.  An octal escape that a
\* character follows too early writes the two and ends the text.
WriteEscaped(text) ==
  LET end == Len(text) + 1
      hex(i) == DigitRun(text, i, 16, HexLimit)
      octal(i) == DigitRun(text, i, 8, 3)
      out[i \in 1 .. end] ==
        IF i = end THEN << >>
        ELSE IF text[i] # "\\" THEN <<Write(<<text[i]>>)>> \o out[i + 1]
        ELSE IF i + 1 = end THEN <<WriteByte("\\")>>
        ELSE LET c == text[i + 1]
                 after == i + 2 + hex(i + 2)
                 literal == <<Write(<<"\\", "x">>), Write(SubSeq(text, i + 2, after - 1))>>
                 next == i + 1 + octal(i + 1)
                 octalByte == <<WriteByte(Byte(Number(SubSeq(text, i + 1, next - 1), 8)))>>
             IN  CASE c = "c" -> << >>
                   [] c = "n" -> <<Write(Crlf)>> \o out[i + 2]
                   [] c \in DOMAIN SimpleEscapes -> <<WriteByte(Byte(SimpleEscapes[c]))>> \o out[i + 2]
                   [] c = "x" /\ hex(i + 2) = HexLimit ->
                        <<WriteByte(Byte(Number(SubSeq(text, i + 2, after - 1), 16)))>> \o out[after]
                   [] c = "x" /\ hex(i + 2) < HexLimit ->
                        IF after = end THEN literal
                        ELSE literal \o <<WriteByte(text[after])>> \o out[after + 1]
                   [] IsDigit(c, 8) ->
                        IF octal(i + 1) = 3 \/ next = end THEN octalByte \o out[next]
                        ELSE octalByte \o <<Write(<<text[next]>>)>>
                   [] OTHER -> <<WriteByte("\\"), WriteByte(c)>> \o out[i + 2]
  IN  out[1]

\* The flags in front of the arguments, read so far: where the arguments
\* start, and what the flags say.  The letters of a word that turns out not to
\* be a flag count up to the one that is wrong.
ReadFlags(flags, arg) ==
  LET letters == {"n", "e", "E"}
      valid == CHOOSE k \in 1 .. Len(arg) :
        /\ \A m \in 2 .. k : arg[m] \in letters
        /\ k < Len(arg) => arg[k + 1] \notin letters
      switches == {m \in 2 .. valid : arg[m] \in {"e", "E"}}
      seen(start, done) ==
        [start |-> start, done |-> done,
         newline |-> flags.newline /\ \A m \in 2 .. valid : arg[m] # "n",
         escapes |-> IF switches = {} THEN flags.escapes ELSE arg[Max(switches)] = "e"]
  IN  CASE flags.done -> flags
        [] ~ flags.done /\ arg = Text("--") -> [flags EXCEPT !.start = @ + 1, !.done = TRUE]
        [] ~ flags.done /\ arg # Text("--") /\ Len(arg) > 1 /\ arg[1] = "-" ->
             IF valid = Len(arg) THEN seen(flags.start + 1, FALSE)
             ELSE seen(flags.start, TRUE)
        [] OTHER -> [flags EXCEPT !.done = TRUE]

\* echo::echo
Echo(args) ==
  LET read[k \in 0 .. Len(args)] ==
        IF k = 0 THEN [start |-> 1, newline |-> TRUE, escapes |-> FALSE, done |-> FALSE]
        ELSE ReadFlags(read[k - 1], args[k])
      flags == read[Len(args)]
      rest == SubSeq(args, flags.start, Len(args))
      printed(i) ==
        (IF i > 1 THEN <<WriteByte(" ")>> ELSE << >>)
          \o (IF flags.escapes THEN WriteEscaped(rest[i]) ELSE <<Write(rest[i])>>)
  IN  FlattenSeq([i \in DOMAIN rest |-> printed(i)])
        \o (IF flags.newline THEN <<Write(Crlf)>> ELSE << >>)

\* A text with each backslash written as an escape, in one of three ways.
BackslashEscapes == {"\\\\", "\\x5c", "\\134"}
Masked(text, escape) ==
  FlattenSeq([i \in DOMAIN text |-> IF text[i] = "\\" THEN Text(escape) ELSE <<text[i]>>])

-----------------------------------------------------------------------------
(* The other builtins. *)

\* What an entry of the environment that defines name starts with.
DefinitionPrefix(name) == Append(name, "=")

Defines(entry, name) == IsPrefix(DefinitionPrefix(name), entry)

\* The first entry that defines name, 0 if there is none.
FirstDefining(env, name) == SelectInSeq(env, LAMBDA entry : Defines(entry, name))

\* printenv::printenv
Printenv(args, env) ==
  LET value(entry, name) == SubSeq(entry, Len(name) + 2, Len(entry))
      printed(name) ==
        IF FirstDefining(env, name) = 0 THEN << >>
        ELSE <<Write(value(env[FirstDefining(env, name)], name)), Write(Crlf)>>
  IN  IF args = << >>
      THEN FlattenSeq([i \in DOMAIN env |-> <<Write(env[i]), Write(Crlf)>>])
      ELSE FlattenSeq([i \in DOMAIN args |-> printed(args[i])])

PrintenvCode(args, env) ==
  IF args = << >> \/ \E i \in DOMAIN args : FirstDefining(env, args[i]) # 0 THEN 0 ELSE 1

\* A fault: the entry is added without a look for the one that is there.
UpdatedPwdAppends(env, path) == Append(env, Text("PWD=") \o path)

\* cd::update_pwd, when getcwd answers path.
UpdatedPwd(env, path) ==
  LET entry == Text("PWD=") \o path
      i == FirstDefining(env, Text("PWD"))
  IN  IF i = 0 THEN Append(env, entry) ELSE [env EXCEPT ![i] = entry]

\* cat::cat; a build without the standard library reads no file.
NoStdin == "cat: reading from stdin (not yet supported)"
Readable(name, std) == std /\ name \in DOMAIN Files
Cat(args, std) ==
  LET printed(name) ==
        CASE name = <<"-">> -> <<Say(NoStdin)>>
          [] name # <<"-">> /\ Readable(name, std) -> <<Write(Files[name])>>
          [] OTHER -> <<Write(<<"cat: ">>), Write(name), Say(": No such file or directory")>>
  IN  IF args = << >> THEN <<Say(NoStdin)>>
      ELSE FlattenSeq([i \in DOMAIN args |-> printed(args[i])])

CatCode(args, std) ==
  IF args # << >> /\ \A i \in DOMAIN args : args[i] = <<"-">> \/ Readable(args[i], std) THEN 0 ELSE 1

BuiltinNames ==
  <<"cat", "cd", "clear", "echo", "exit", "false", "help", "history", "printenv", "true">>

Help ==
  <<Say("vish, built-in commands:")>>
    \o FlattenSeq([i \in DOMAIN BuiltinNames |-> <<Write(<<"  ">>), Write(<<BuiltinNames[i]>>), Write(Crlf)>>])
    \o <<Write(Crlf), Say("Use 'man' or external commands for detailed help.")>>

\* history_builtin::show_history
ShowHistory(entries) ==
  IF entries = << >> THEN <<Say("no history")>>
  ELSE [i \in DOMAIN entries |-> Write(<<"  ", ToString(i), "  ">> \o entries[i] \o Crlf)]

\* str::parse::<i32>, for words too short to overflow.
IsNumber(word) ==
  LET digits == IF word # << >> /\ word[1] \in {"+", "-"} THEN Tail(word) ELSE word
  IN  digits # << >> /\ \A i \in DOMAIN digits : IsDigit(digits[i], 10)

-----------------------------------------------------------------------------
(* execute and dispatch. *)

Result(output, code, env) == [output |-> output, code |-> code, env |-> env, leave |-> FALSE]

Exit(args, env) ==
  CASE Len(args) = 0 \/ (Len(args) = 1 /\ IsNumber(args[1])) ->
         [Result(<< >>, 0, env) EXCEPT !.leave = TRUE]
    [] Len(args) = 1 /\ ~ IsNumber(args[1]) ->
         Result(<<Write(<<"exit: numeric argument required: ">>), Write(args[1]), Write(Crlf)>>, 2, env)
    [] OTHER -> Result(<<Say("exit: too many arguments")>>, 1, env)

\* cd::cd
Cd(args, env, std) ==
  LET refused == IF std THEN "No such file or directory" ELSE "cd not yet implemented for this platform"
  IN  CASE args = << >> -> Result(<<Say("cd: no directory argument")>>, 1, env)
        [] args # << >> /\ std /\ args[1] \in DOMAIN Directories ->
             Result(<< >>, 0, UpdatedPwd(env, Directories[args[1]]))
        [] OTHER -> Result(<<Write(<<"cd: ">>), Write(args[1]), Write(<<": ">>),
                             Write(<<refused>>), Write(Crlf)>>, 1, env)

\* exec::execute.  Only the first command of the pipeline runs, its
\* redirections do nothing, and the number that exit is given is left to Repl.
Execute(commands, env, entries, std) ==
  LET argv == commands[1].argv
      name == argv[1]
      args == Tail(argv)
      is(string) == name = Text(string)
  IN  IF argv = << >> THEN Result(<< >>, 0, env)
      ELSE CASE is("history") -> Result(ShowHistory(entries), 0, env)
             [] is("echo") -> Result(Echo(args), 0, env)
             [] is("cat") -> Result(Cat(args, std), CatCode(args, std), env)
             [] is("printenv") -> Result(Printenv(args, env), PrintenvCode(args, env), env)
             [] is("clear") -> Result(<<Write(<<"clear screen">>)>>, 0, env)
             [] is("true") -> Result(<< >>, 0, env)
             [] is("false") -> Result(<< >>, 1, env)
             [] is("exit") -> Exit(args, env)
             [] is("help") -> Result(Help, 0, env)
             [] is("cd") -> Cd(args, env, std)
             [] OTHER -> Result(<<Write(name), Say(": command not found")>>, 127, env)

-----------------------------------------------------------------------------
(* What is so for the strings above, and what a prover, to which a string is *)
(* an atom, cannot see.                                                      *)

\* The characters and messages that are written, and the parser's words.
Literals ==
  {"\\", "'", "\"", "n", "\n", "\t", "\r", " ", "x", "=", "none", "vish$ ", "parse error: ",
   "unterminated single quote", "unterminated double quote", "trailing backslash",
   "unterminated escape in double quote", "expected filename after redirect",
   "Output", "Append", "StderrOutput", "StderrAppend", "StderrMerge", "Input",
   "cat: reading from stdin (not yet supported)", "cat: ", ": No such file or directory",
   "vish, built-in commands:", "  ", "Use 'man' or external commands for detailed help.",
   "cat", "cd", "clear", "echo", "exit", "false", "help", "history", "printenv", "true",
   "no history", "exit: numeric argument required: ", "exit: too many arguments",
   "No such file or directory", "cd not yet implemented for this platform",
   "cd: no directory argument", "cd: ", ": ", "clear screen", ": command not found"}

CommandNames ==
  {"history", "echo", "cat", "printenv", "clear", "true", "false", "exit", "help", "cd"}

ASSUME StringAssumption ==
  /\ Literals \subseteq STRING
  /\ \A v \in 0 .. 255 : Byte(v) \in STRING
  /\ \A i \in 1 .. 4 : ToString(i) \in STRING
  /\ Text("PWD") \in Seq(STRING) /\ Text("PWD=") = Append(Text("PWD"), "=")
  /\ \A a, b \in CommandNames : Text(a) = Text(b) => a = b

\* The flags of echo, and the escapes of a backslash.
ASSUME EscapeAssumption ==
  /\ {"-", "e", "c", "1", "3", "4", "5"} \subseteq STRING
  /\ Text("-e") = <<"-", "e">> /\ Text("--") = <<"-", "-">>
  /\ Text("\\\\") = <<"\\", "\\">>
  /\ Text("\\x5c") = <<"\\", "x", "5", "c">> /\ Text("\\134") = <<"\\", "1", "3", "4">>
  /\ \A c \in {"5", "c"} : IsDigit(c, 16)
  /\ \A c \in {"1", "3", "4"} : IsDigit(c, 8)
  /\ \A c \in {"\\", "x"} : ~ IsDigit(c, 8)
  /\ Number(<<"5", "c">>, 16) = 92 /\ Number(<<"1", "3", "4">>, 8) = 92 /\ Byte(92) = "\\"

=============================================================================
