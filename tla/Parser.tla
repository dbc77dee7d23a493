-------------------------------- MODULE Parser --------------------------------
(***************************************************************************)
(* The parser of the Rust shells, src/parse.rs: a line is cut into words    *)
(* and operators, and these make a pipeline of commands.                    *)
(*                                                                         *)
(* A line is a sequence of characters, each a string of length one.  The    *)
(* tokenizer's pos is the index of the next character; a token says in its  *)
(* field next where it left off.  The offset of a ParseError, which no      *)
(* caller uses, is left out.                                                *)
(***************************************************************************)
EXTENDS Naturals, Sequences, SequencesExt

\* The backquote, which cannot be written in a string.
Backquote == "backquote"

Blanks == {" ", "\t"}
EndsWord == Blanks \cup {"|", ">", "<"}
Quotes == {"'", "\""}

\* A fault: a quote that is protected keeps its backslash.
UnescapedQuote(c) ==
  CASE c \in {"\\", "$", Backquote} -> <<c>>
    [] c = "n" -> <<"\n">>
    [] c = "t" -> <<"\t">>
    [] c = "r" -> <<"\r">>
    [] OTHER -> <<"\\", c>>

\* What a backslash and c stand for in double quotes.
Unescaped(c) ==
  CASE c \in {"\"", "\\", "$", Backquote} -> <<c>>
    [] c = "n" -> <<"\n">>
    [] c = "t" -> <<"\t">>
    [] c = "r" -> <<"\r">>
    [] OTHER -> <<"\\", c>>

Unterminated(mode) ==
  IF mode = "'" THEN "unterminated single quote" ELSE "unterminated double quote"

Unfinished(mode) ==
  IF mode = "plain" THEN "trailing backslash"
  ELSE "unterminated escape in double quote"

\* A fault: in single quotes, too.
EscapesAnywhere(mode) == mode \in {"plain"} \cup Quotes

\* Where a backslash protects the next character.
Escapes(mode) == mode # "'"

\* Tokenizer::read_word from start.  A mode is "plain" or the quote that is
\* open; scan[i][mode] is the rest of the word: its text from i on, where it
\* ends, and the error that cut it short.
ReadWord(line, start) ==
  LET end == Len(line) + 1
      Stop(i) == [text |-> << >>, next |-> i, error |-> "none"]
      Fail(error) == [text |-> << >>, next |-> end, error |-> error]
      Before(text, rest) == [rest EXCEPT !.text = text \o @]
      scan[i \in 1 .. end] == [mode \in {"plain"} \cup Quotes |->
        CASE i = end ->
               IF mode = "plain" THEN Stop(i) ELSE Fail(Unterminated(mode))
          [] i < end /\ mode = "plain" /\ line[i] \in EndsWord -> Stop(i)
          [] i < end /\ mode = "plain" /\ line[i] \in Quotes -> scan[i + 1][line[i]]
          [] i < end /\ mode = line[i] -> scan[i + 1]["plain"]
          [] i < end /\ Escapes(mode) /\ line[i] = "\\" ->
               IF i + 1 = end THEN Fail(Unfinished(mode))
               ELSE Before(IF mode = "plain" THEN <<line[i + 1]>>
                           ELSE Unescaped(line[i + 1]), scan[i + 2][mode])
          [] OTHER -> Before(<<line[i]>>, scan[i + 1][mode])]
  IN  scan[start]["plain"]

-----------------------------------------------------------------------------
(* Tokens. *)

WordToken(word) ==
  IF word.error = "none"
  THEN [kind |-> "word", text |-> word.text, next |-> word.next]
  ELSE [kind |-> "error", error |-> word.error, next |-> word.next]

\* The redirection whose first ">" is at i.
Arrow(line, i, output, append) ==
  LET second == IF i < Len(line) THEN line[i + 1] ELSE "end"
      Redirect(how, next) == [kind |-> "redirect", how |-> how, next |-> next]
  IN  CASE second = ">" -> Redirect(append, i + 2)
        [] second = "&" -> Redirect("StderrMerge", i + 2)
        [] OTHER -> Redirect(output, i + 1)

\* Tokenizer::skip_whitespace: the first index from start on that is no blank.
SkipWhitespace(line, start) ==
  CHOOSE i \in start .. Len(line) + 1 :
    /\ \A k \in start .. i - 1 : line[k] \in Blanks
    /\ i <= Len(line) => line[i] \notin Blanks

\* At the start of a token, "2>" is a redirection.
IsStderrArrow(line, i) == line[i] = "2" /\ i < Len(line) /\ line[i + 1] = ">"

\* The token whose first character is at i.  A line has no newline in it, so that
\* a comment takes the rest of it.
TokenAt(line, i) ==
  IF i > Len(line) THEN [kind |-> "eof", next |-> i]
  ELSE CASE line[i] = "|" -> [kind |-> "pipe", next |-> i + 1]
         [] line[i] = ">" -> Arrow(line, i, "Output", "Append")
         [] line[i] = "<" -> [kind |-> "redirect", how |-> "Input", next |-> i + 1]
         [] IsStderrArrow(line, i) -> Arrow(line, i + 1, "StderrOutput", "StderrAppend")
         [] line[i] = "#" -> [kind |-> "newline", next |-> Len(line) + 1]
         [] OTHER -> WordToken(ReadWord(line, i))

\* Tokenizer::next_token from start.
NextToken(line, start) == TokenAt(line, SkipWhitespace(line, start))

\* The token and those behind it, up to the end of the line or the first error.
Listed(token, from) ==
  IF token.kind \in {"eof", "newline", "error"} THEN << >>
  ELSE <<[field \in DOMAIN token \ {"next"} |-> token[field]]>> \o from[token.next]

\* The words and operators of the line.
Tokens(line) ==
  LET from[i \in 1 .. Len(line) + 1] == Listed(NextToken(line, i), from)
  IN  from[1]

-----------------------------------------------------------------------------
(* Commands. *)

Command(argv, redirects) == [argv |-> argv, redirects |-> redirects]

\* A fault: a command needs words and redirections to count.
PushedIfBoth(command, later) ==
  IF command.argv # << >> /\ command.redirects # << >>
  THEN <<command>> \o later ELSE later

\* A command without words and redirections is not pushed.
Pushed(command, later) ==
  IF command # Command(<< >>, << >>) THEN <<command>> \o later ELSE later

\* What a part of the line makes: what it adds to the command at hand, the
\* commands behind it, and the error.
Part(command, later, error) == [command |-> command, later |-> later, error |-> error]
NoCommand == Command(<< >>, << >>)
Failed(error) == Part(NoCommand, << >>, error)

BehindPipe(part) == Part(NoCommand, Pushed(part.command, part.later), part.error)

\* The part that begins with a redirection and its target; rest[i] is the part
\* that begins at i.
FromRedirect(how, target, rest) ==
  CASE target.kind = "word" ->
         [rest[target.next] EXCEPT !.command.redirects =
            <<[how |-> how, target |-> target.text]>> \o @]
    [] target.kind = "error" -> Failed(target.error)
    [] OTHER -> Failed("expected filename after redirect")

\* The part that begins with the token.
FromToken(line, token, rest) ==
  CASE token.kind = "word" ->
         [rest[token.next] EXCEPT !.command.argv = <<token.text>> \o @]
    [] token.kind = "redirect" -> FromRedirect(token.how, NextToken(line, token.next), rest)
    [] token.kind = "pipe" -> BehindPipe(rest[token.next])
    [] token.kind \in {"newline", "eof"} -> Part(NoCommand, << >>, "none")
    [] token.kind = "error" -> Failed(token.error)

\* A pipeline has at least one command.
Pipeline(part) ==
  LET commands == Pushed(part.command, part.later)
  IN  [commands |-> IF commands = << >> THEN <<NoCommand>> ELSE commands,
       error |-> part.error]

\* parse_line
ParseLine(line) ==
  LET rest[i \in 1 .. Len(line) + 1] == FromToken(line, NextToken(line, i), rest)
  IN  Pipeline(rest[1])

-----------------------------------------------------------------------------
(* What parsing should do: a reading of the line from left to right, one    *)
(* character after the other, that knows nothing of tokens.                 *)

\* How the character at i is read after what is before it.  Outside of words
\* the reading is "between" them, behind an "arrow" that may go on, or in a
\* "comment".
Reading(line, before, i) ==
  LET c == line[i]
      starting == before \in {"between", "arrow"}
  IN  CASE before = "comment" -> "comment"
        [] before = "single" -> IF c = "'" THEN "word" ELSE "single"
        [] before = "double" /\ c = "\"" -> "word"
        [] before = "double" /\ c = "\\" -> "double escape"
        [] before = "double" /\ c \notin {"\"", "\\"} -> "double"
        [] before = "double escape" -> "double"
        [] before = "escape" -> "word"
        [] before = "arrow" /\ c \in {">", "&"} -> "between"
        [] starting /\ c = "#" -> "comment"
        [] starting /\ c = "2" /\ i < Len(line) /\ line[i + 1] = ">" -> "between"
        [] OTHER -> CASE c \in {" ", "\t", "|", "<"} -> "between"
                      [] c = ">" -> "arrow"
                      [] c = "'" -> "single"
                      [] c = "\"" -> "double"
                      [] c = "\\" -> "escape"
                      [] OTHER -> "word"

\* The readings of a line: r[i] is that in front of the character at i.
Readings(line) ==
  FoldLeftDomain(LAMBDA r, i : Append(r, Reading(line, Last(r), i)), <<"between">>, line)

InWord == {"word", "single", "double", "escape", "double escape"}

\* What the character at i adds to its word, as parse.rs:8-9 has it.
Contribution(line, r, i) ==
  LET c == line[i]
      special == [d \in {"n", "t", "r"} |-> CASE d = "n" -> "\n" [] d = "t" -> "\t" [] d = "r" -> "\r"]
      protected == {"\"", "\\", "$", Backquote}
  IN  CASE r[i] = "single" -> IF c = "'" THEN << >> ELSE <<c>>
        [] r[i] = "double" -> IF c \in {"\"", "\\"} THEN << >> ELSE <<c>>
        [] r[i] = "double escape" ->
             IF c \in DOMAIN special THEN <<special[c]>>
             ELSE IF c \in protected THEN <<c>> ELSE <<"\\", c>>
        [] r[i] = "escape" -> <<c>>
        [] OTHER -> IF r[i + 1] = "word" THEN <<c>> ELSE << >>

\* The numbers of a set from the smallest to the largest.
InOrder(numbers) ==
  [k \in 1 .. Cardinality(numbers) |->
     CHOOSE i \in numbers : Cardinality({m \in numbers : m < i}) = k - 1]

\* The words and operators of the line with the readings r, each where its
\* first character is.
ItemsRead(line, r) ==
  LET isWord(i) == r[i + 1] \in InWord /\ r[i] \notin InWord
      isPipe(i) == r[i + 1] = "between" /\ line[i] = "|"
      isInput(i) == r[i + 1] = "between" /\ line[i] = "<"
      isArrow(i) == r[i + 1] = "arrow"
      wordEnd(i) == CHOOSE k \in i .. Len(line) :
        /\ \A m \in i .. k : r[m + 1] \in InWord
        /\ k < Len(line) => r[k + 2] \notin InWord
      word(i) == FlattenSeq([k \in 1 .. wordEnd(i) - i + 1 |-> Contribution(line, r, i + k - 1)])
      stderr(i) == i > 1 /\ line[i - 1] = "2" /\ r[i] = "between"
      goesOn(i, c) == i < Len(line) /\ r[i + 2] = "between" /\ line[i + 1] = c
      item(i) ==
        CASE isWord(i) -> [kind |-> "word", text |-> word(i)]
          [] isPipe(i) -> [kind |-> "pipe"]
          [] isInput(i) -> [kind |-> "redirect", how |-> "Input"]
          [] isArrow(i) -> [kind |-> "redirect", how |->
               IF goesOn(i, "&") THEN "StderrMerge"
               ELSE (IF stderr(i) THEN "Stderr" ELSE "")
                      \o (IF goesOn(i, ">") THEN "Append" ELSE "Output")]
      order == InOrder({i \in 1 .. Len(line) : isWord(i) \/ isPipe(i) \/ isInput(i) \/ isArrow(i)})
  IN  [k \in DOMAIN order |-> item(order[k])]

Items(line) == ItemsRead(line, Readings(line))

\* The quoting of the line is left open at its end.
LeftOpen(line) == Last(Readings(line)) \in InWord \ {"word"}

\* The ways to write a text as one word: in single quotes if it has none, in
\* double quotes with backslashes, or with a backslash before each character.
InSingleQuotes(text) == <<"'">> \o text \o <<"'">>
InDoubleQuotes(text) ==
  <<"\"">> \o FlattenSeq([i \in DOMAIN text |->
              IF text[i] \in {"\"", "\\"} THEN <<"\\", text[i]>> ELSE <<text[i]>>]) \o <<"\"">>
Backslashed(text) == FlattenSeq([i \in DOMAIN text |-> <<"\\", text[i]>>])

Quotings(text) ==
  (IF "'" \in ToSet(text) THEN {} ELSE {InSingleQuotes(text)})
    \cup {InDoubleQuotes(text)}
    \cup (IF text = << >> THEN {} ELSE {Backslashed(text)})

=============================================================================
