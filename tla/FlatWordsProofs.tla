--------------------------- MODULE FlatWordsProofs ----------------------------
(***************************************************************************)
(* Proofs about the words of the flat shell: for every capacity of the line *)
(* and of the table, and whatever can be typed, the words that tokenize_line *)
(* leaves in its arrays are the line cut at its unquoted blanks.  The        *)
(* recursive functions of FlatWords are shown to exist, and are followed     *)
(* from the smallest or largest place where they could go astray.           *)
(***************************************************************************)
EXTENDS FlatWords, SequenceTheorems, FiniteSetTheorems, WellFoundedInduction, TLAPS

-----------------------------------------------------------------------------
(* Sets of numbers. *)

\* A set of natural numbers has a smallest member.
LEMMA Smallest ==
  ASSUME NEW T, T \subseteq Nat, T # {}
  PROVE  \E x \in T : \A y \in T : x <= y
<1> DEFINE R == {pair \in Nat \X Nat : pair[1] < pair[2]}
<1>1. IsWellFoundedOn(R, Nat)
  BY NatLessThanWellFounded DEF OpToRel
<1>2. \A x, y \in Nat : <<y, x>> \notin R => x <= y
  OBVIOUS
<1> HIDE DEF R
<1>3. PICK x \in T : \A y \in T : ~ (<<y, x>> \in R)
  BY <1>1, WFMin
<1> QED  BY <1>2, <1>3

\* A bounded one has a largest member.
LEMMA Largest ==
  ASSUME NEW n \in Nat, NEW T, T \subseteq 1 .. n, T # {}
  PROVE  \E x \in T : \A y \in T : y <= x
<1> DEFINE Below == {d \in Nat : n - d \in T}
<1>1. \A x \in T : x \in Int /\ n - x \in Nat /\ n - (n - x) = x
  OBVIOUS
<1>2. \A x \in T : n - x \in Below
  BY <1>1
<1>3. Below \subseteq Nat /\ Below # {}
  BY <1>2
<1>4. PICK d \in Below : \A m \in Below : d <= m
  <2> HIDE DEF Below
  <2> QED  BY <1>3, Smallest
<1>5. n - d \in T /\ d \in Nat
  OBVIOUS
<1>6. \A y \in T : y <= n - d
  <2> TAKE y \in T
  <2>1. d <= n - y /\ y \in Int
    BY <1>1, <1>2, <1>4
  <2> QED  BY <1>5, <2>1
<1> QED  BY <1>5, <1>6

-----------------------------------------------------------------------------
(* The recursive functions. *)

Modes == {"plain"} \cup Quotes

\* One step of the scan of WordEnd.
EndStep(end, i) ==
  [mode \in {"plain"} \cup Quotes |->
    LET c == lineBuffer[i]
    IN  CASE c = NUL -> i
          [] mode = "plain" /\ c \in Blanks -> i
          [] mode = "plain" /\ c \in Quotes -> end[i + 1][c]
          [] mode \in Quotes /\ c = mode -> end[i + 1]["plain"]
          [] mode = "\"" /\ c \notin {NUL, mode} ->
               IF c = "\\" /\ lineBuffer[i + 1] = NUL THEN i + 1
               ELSE end[AfterInDouble(i)][mode]
          [] OTHER -> end[i + 1][mode]]

Ends(f) == f = [i \in LineCells |-> EndStep(f, i)]

\* The last cell of line_buffer is the terminator of every line that fills it.
Terminated ==
  /\ lineBuffer \in [LineCells -> Typed \cup {NUL}]
  /\ lineBuffer[LINE_CAPACITY] = NUL

\* WordEnd is a function of that kind, if there is one.
LEMMA WordEndUnfolds ==
  ASSUME NEW start
  PROVE  WordEnd(start) = (CHOOSE f : Ends(f))[start]["plain"]
BY DEF WordEnd, Ends, EndStep

\* The scan reads no further than the last cell.
LEMMA EndStepsAgree ==
  ASSUME Terminated, NEW i \in LineCells, NEW f, NEW g,
         \A j \in i + 1 .. LINE_CAPACITY : f[j] = g[j]
  PROVE  EndStep(f, i) = EndStep(g, i)
<1>1. LINE_CAPACITY \in Nat /\ i \in 1 .. LINE_CAPACITY
  BY WordsAssumption DEF LineCells
<1>2. lineBuffer[i] # NUL => i + 1 \in i + 1 .. LINE_CAPACITY /\ f[i + 1] = g[i + 1]
  <2>1. lineBuffer[i] # NUL => i # LINE_CAPACITY
    BY DEF Terminated
  <2>2. i # LINE_CAPACITY => i + 1 \in i + 1 .. LINE_CAPACITY
    BY <1>1
  <2> QED  BY <2>1, <2>2
<1>3. lineBuffer[i] = "\\" /\ lineBuffer[i + 1] # NUL /\ lineBuffer[i] # NUL => f[i + 2] = g[i + 2]
  <2>1. lineBuffer[i] = "\\" /\ lineBuffer[i + 1] # NUL /\ lineBuffer[i] # NUL
          => i # LINE_CAPACITY /\ i + 1 # LINE_CAPACITY
    BY DEF Terminated
  <2>2. i # LINE_CAPACITY /\ i + 1 # LINE_CAPACITY => i + 2 \in i + 1 .. LINE_CAPACITY
    BY <1>1
  <2> QED  BY <2>1, <2>2
<1> DEFINE c == lineBuffer[i]
           step(h, mode) ==
             CASE c = NUL -> i
               [] mode = "plain" /\ c \in Blanks -> i
               [] mode = "plain" /\ c \in Quotes -> h[i + 1][c]
               [] mode \in Quotes /\ c = mode -> h[i + 1]["plain"]
               [] mode = "\"" /\ c \notin {NUL, mode} ->
                    IF c = "\\" /\ lineBuffer[i + 1] = NUL THEN i + 1
                    ELSE h[AfterInDouble(i)][mode]
               [] OTHER -> h[i + 1][mode]
<1>4. ASSUME NEW mode \in Modes
      PROVE  step(f, mode) = step(g, mode)
  <2>1. CASE c = NUL
    BY <2>1 DEF NUL, Blanks, Quotes
  <2>2. CASE c # NUL
    <3>1. f[i + 1] = g[i + 1]
      BY <1>2, <2>2
    <3>2. lineBuffer[i + 1] # NUL \/ c # "\\" => f[AfterInDouble(i)] = g[AfterInDouble(i)]
      BY <1>3, <2>2, <3>1 DEF AfterInDouble
    <3> QED  BY <2>2, <3>1, <3>2
  <2> QED  BY <2>1, <2>2
<1>5. /\ EndStep(f, i) = [mode \in Modes |-> step(f, mode)]
      /\ EndStep(g, i) = [mode \in Modes |-> step(g, mode)]
  BY Zenon DEF EndStep, Modes
<1> HIDE DEF step
<1> QED  BY <1>4, <1>5, Zenon

\* There is one.
LEMMA EndsExists ==
  ASSUME Terminated
  PROVE  \E f : Ends(f)
<1> DEFINE n == LINE_CAPACITY
           From(k, f) == f = [i \in k .. n |-> EndStep(f, i)]
           Wrong == {k \in 1 .. n : ~ \E f : From(k, f)}
<1>1. n \in Nat /\ n >= 2
  BY WordsAssumption
<1>2. ASSUME Wrong # {} PROVE FALSE
  <2>1. PICK k \in Wrong : \A m \in Wrong : m <= k
    <3>1. Wrong \subseteq 1 .. n
      OBVIOUS
    <3> HIDE DEF Wrong
    <3> QED  BY <1>1, <1>2, <3>1, Largest
  <2>2. k \in 1 .. n /\ k \in LineCells
    BY DEF LineCells
  <2>3. PICK g : \A i \in k + 1 .. n : g[i] = EndStep(g, i)
    <3>1. CASE k = n
      BY <1>1, <3>1
    <3>2. CASE k # n
      <4>1. k + 1 \in 1 .. n /\ ~ k + 1 <= k
        BY <1>1, <2>2, <3>2
      <4>2. k + 1 \notin Wrong
        <5> HIDE DEF Wrong
        <5> QED  BY <2>1, <4>1
      <4>3. \E g : From(k + 1, g)
        BY <4>1, <4>2
      <4>4. PICK g : From(k + 1, g)
        BY <4>3
      <4>5. \A i \in k + 1 .. n : g[i] = EndStep(g, i)
        BY <4>4
      <4> QED  BY <4>5
    <3> QED  BY <3>1, <3>2
  <2> DEFINE f == [i \in k .. n |-> IF i > k THEN g[i] ELSE EndStep(g, k)]
  <2>4. \A j \in k + 1 .. n : f[j] = g[j]
    BY <1>1, <2>2
  <2>5. f[k] = EndStep(g, k) /\ DOMAIN f = k .. n /\ f = [i \in k .. n |-> f[i]]
    BY <1>1, <2>2
  <2> HIDE DEF f
  <2>6. \A i \in k .. n : EndStep(f, i) = EndStep(g, i)
    <3> TAKE i \in k .. n
    <3>1. i \in LineCells
      BY <1>1, <2>2 DEF LineCells
    <3>2. \A j \in i + 1 .. n : f[j] = g[j]
      <4>1. \A j \in i + 1 .. n : j \in k + 1 .. n
        BY <1>1, <2>2
      <4> QED  BY <2>4, <4>1
    <3> QED  BY <3>1, <3>2, EndStepsAgree
  <2>7. \A i \in k .. n : f[i] = EndStep(f, i)
    <3> TAKE i \in k .. n
    <3>1. CASE i = k
      BY <2>5, <2>6, <3>1
    <3>2. CASE i # k
      <4>1. i \in k + 1 .. n
        BY <1>1, <2>2, <3>2
      <4> QED  BY <2>3, <2>4, <2>6, <4>1
    <3> QED  BY <3>1, <3>2
  <2>8. From(k, f)
    BY <2>5, <2>7, Zenon
  <2>9. k \notin Wrong
    BY <2>8
  <2> QED  BY <2>1, <2>9
<1>3. 1 \in 1 .. n
  BY <1>1
<1>4. \E f : From(1, f)
  BY <1>2, <1>3
<1> QED  BY <1>4 DEF Ends, LineCells

\* So WordEnd is computed by steps of the scan.
LEMMA WordEndScans ==
  ASSUME Terminated
  PROVE  \E f : /\ \A i \in LineCells : f[i] = EndStep(f, i)
                /\ \A start : WordEnd(start) = f[start]["plain"]
<1> DEFINE f == CHOOSE f : Ends(f)
<1>1. Ends(f)
  BY EndsExists
<1>2. \A start : WordEnd(start) = f[start]["plain"]
  BY WordEndUnfolds
<1> HIDE DEF f
<1>3. \A i \in LineCells : f[i] = EndStep(f, i)
  BY <1>1 DEF Ends
<1> QED  BY <1>2, <1>3

\* What is open behind a character.
NextQuote(state, c) ==
  CASE state = "none" -> IF c \in Quotes THEN c ELSE "none"
    [] state = "'" -> IF c = "'" THEN "none" ELSE "'"
    [] state = "\"" -> IF c = "\"" THEN "none" ELSE IF c = "\\" THEN "escape" ELSE "\""
    [] state = "escape" -> "\""

Follows(f, n) == f = [i \in 1 .. n + 1 |-> IF i = 1 THEN "none" ELSE NextQuote(f[i - 1], line[i - 1])]

\* QuoteStates is a function that follows the line, if there is one.
LEMMA QuoteStatesUnfolds == QuoteStates = CHOOSE f : Follows(f, Len(line))
BY DEF QuoteStates, Follows, NextQuote

\* There is one.
LEMMA FollowsExists ==
  ASSUME NEW n \in Nat
  PROVE  \E f : Follows(f, n)
<1> DEFINE Wrong == {k \in Nat : ~ \E f : Follows(f, k)}
<1>1. SUFFICES ASSUME Wrong # {} PROVE FALSE
  <2>1. n \in Nat \ Wrong => \E f : Follows(f, n)
    OBVIOUS
  <2> QED  BY <1>1, <2>1
<1>2. PICK k \in Wrong : \A m \in Wrong : k <= m
  BY <1>1, Smallest
<1>3. k # 0
  <2>1. Follows([i \in 1 .. 1 |-> "none"], 0)
    BY DEF Follows
  <2> QED  BY <2>1
<1>4. k \in Nat /\ k - 1 \in Nat /\ k - 1 \notin Wrong
  <2>1. k \in Nat
    BY <1>2
  <2>2. k - 1 \in Nat /\ ~ k <= k - 1
    BY <1>3, <2>1
  <2> HIDE DEF Wrong
  <2> QED  BY <1>2, <2>1, <2>2
<1>5. PICK g : Follows(g, k - 1)
  BY <1>4
<1>6. \A i \in 1 .. k : g[i] = IF i = 1 THEN "none" ELSE NextQuote(g[i - 1], line[i - 1])
  <2>1. k - 1 + 1 = k
    BY <1>4
  <2> QED  BY <1>5, <2>1 DEF Follows
<1> DEFINE f == [i \in 1 .. k + 1 |-> IF i < k + 1 THEN g[i] ELSE NextQuote(g[k], line[k])]
<1>7. \A i \in 1 .. k : f[i] = g[i]
  BY <1>4
<1>8. f[k + 1] = NextQuote(g[k], line[k]) /\ f = [i \in 1 .. k + 1 |-> f[i]]
  BY <1>4
<1> HIDE DEF f
<1>9. \A i \in 1 .. k + 1 : f[i] = IF i = 1 THEN "none" ELSE NextQuote(f[i - 1], line[i - 1])
  <2> TAKE i \in 1 .. k + 1
  <2>1. CASE i = k + 1
    <3>1. k \in 1 .. k /\ i # 1 /\ i - 1 = k
      BY <1>3, <1>4, <2>1
    <3> QED  BY <1>7, <1>8, <2>1, <3>1
  <2>2. CASE i # k + 1
    <3>1. i \in 1 .. k /\ (i # 1 => i - 1 \in 1 .. k)
      BY <1>4, <2>2
    <3> QED  BY <1>6, <1>7, <3>1
  <2> QED  BY <2>1, <2>2
<1>10. Follows(f, k)
  BY <1>8, <1>9, Zenon DEF Follows
<1> QED  BY <1>2, <1>10

QuoteKinds == {"none", "'", "\"", "escape"}

\* So they are computed from one character to the next.
LEMMA QuotesFollow ==
  ASSUME Len(line) \in Nat
  PROVE  /\ QuoteStates[1] = "none"
         /\ \A i \in 1 .. Len(line) : QuoteStates[i + 1] = NextQuote(QuoteStates[i], line[i])
         /\ \A i \in 1 .. Len(line) + 1 : QuoteStates[i] \in QuoteKinds
<1> DEFINE n == Len(line)
           Q == QuoteStates
<1>1. Follows(Q, n)
  BY FollowsExists, QuoteStatesUnfolds
<1> HIDE DEF Q, n
<1>2. \A i \in 1 .. n + 1 : Q[i] = IF i = 1 THEN "none" ELSE NextQuote(Q[i - 1], line[i - 1])
  BY <1>1 DEF Follows
<1>3. n \in Nat
  BY DEF n
<1>4. Q[1] = "none"
  BY <1>2, <1>3
<1>5. \A i \in 1 .. n : Q[i + 1] = NextQuote(Q[i], line[i])
  <2> TAKE i \in 1 .. n
  <2>1. i + 1 \in 1 .. n + 1 /\ i + 1 # 1 /\ (i + 1) - 1 = i
    BY <1>3
  <2> QED  BY <1>2, <2>1
<1>6. \A i \in 1 .. n + 1 : Q[i] \in QuoteKinds
  <2> DEFINE Wrong == {i \in 1 .. n + 1 : Q[i] \notin QuoteKinds}
  <2>1. SUFFICES ASSUME Wrong # {} PROVE FALSE
    OBVIOUS
  <2>2. Wrong \subseteq Nat
    BY <1>3
  <2>3. PICK k \in Wrong : \A m \in Wrong : k <= m
    <3> HIDE DEF Wrong
    <3> QED  BY <2>1, <2>2, Smallest
  <2>4. k \in 1 .. n + 1 /\ k # 1
    BY <1>4 DEF QuoteKinds
  <2>5. k - 1 \in 1 .. n /\ k - 1 \in 1 .. n + 1 /\ ~ k <= k - 1 /\ (k - 1) + 1 = k
    BY <1>3, <2>4
  <2>6. Q[k - 1] \in QuoteKinds
    BY <2>3, <2>5
  <2>7. Q[k] = NextQuote(Q[k - 1], line[k - 1])
    BY <1>5, <2>5
  <2>8. Q[k] \in QuoteKinds
    BY <2>6, <2>7 DEF NextQuote, QuoteKinds, Quotes
  <2> QED  BY <2>8
<1> QED  BY <1>4, <1>5, <1>6 DEF Q, n

-----------------------------------------------------------------------------
(* The scan against the quotes. *)

\* A line stands in the buffer, terminated.
EnteredLine ==
  /\ line \in Seq(Typed) /\ Len(line) \in 1 .. LINE_CAPACITY - 1
  /\ \A i \in 1 .. Len(line) : lineBuffer[i] = line[i]
  /\ lineBuffer[Len(line) + 1] = NUL

\* A blank that no quotes enclose.
Cut(i) == i \in 1 .. Len(line) /\ QuoteStates[i] = "none" /\ line[i] \in Blanks

\* e is the first of them from i on, or the end of the line.
FirstCut(i, e) ==
  /\ e \in i .. Len(line) + 1
  /\ e # Len(line) + 1 => Cut(e)
  /\ \A m \in i .. e - 1 : ~ Cut(m)

\* The mode of a scan that has come to a place with that state.
ModeIn(state) == IF state = "none" THEN "plain" ELSE state

\* The numbers of a line.
LEMMA LineNumbers ==
  ASSUME EnteredLine
  PROVE  /\ Len(line) \in Nat /\ Len(line) >= 1 /\ LINE_CAPACITY \in Nat
         /\ \A i \in 1 .. Len(line) + 1 : i \in LineCells
         /\ \A i \in 1 .. Len(line) : line[i] \in Typed /\ line[i] # NUL /\ i + 1 \in 1 .. Len(line) + 1
<1>1. Len(line) \in Nat /\ Len(line) >= 1 /\ LINE_CAPACITY \in Nat /\ Len(line) + 1 <= LINE_CAPACITY
  BY WordsAssumption DEF EnteredLine
<1>2. \A i \in 1 .. Len(line) + 1 : i \in LineCells
  BY <1>1 DEF LineCells
<1>3. \A i \in 1 .. Len(line) : line[i] \in Typed
  BY ElementOfSeq DEF EnteredLine
<1>4. NUL \notin Typed
  BY WordsAssumption DEF NUL
<1> QED  BY <1>1, <1>2, <1>3, <1>4

\* A cut ends a scan at once, and so does the end of the line.
LEMMA FirstCutHere ==
  ASSUME Len(line) \in Nat, NEW i \in 1 .. Len(line) + 1, i # Len(line) + 1 => Cut(i)
  PROVE  FirstCut(i, i)
BY DEF FirstCut

\* What is no cut is passed.
LEMMA FirstCutLater ==
  ASSUME Len(line) \in Nat, NEW i \in 1 .. Len(line), ~ Cut(i), NEW e, FirstCut(i + 1, e)
  PROVE  FirstCut(i, e)
<1>1. e \in i + 1 .. Len(line) + 1 /\ (e # Len(line) + 1 => Cut(e))
  BY DEF FirstCut
<1>2. \A m \in i .. e - 1 : m = i \/ m \in i + 1 .. e - 1
  BY <1>1
<1>3. \A m \in i .. e - 1 : ~ Cut(m)
  BY <1>2 DEF FirstCut
<1>4. e \in i .. Len(line) + 1
  BY <1>1
<1> QED  BY <1>1, <1>3, <1>4 DEF FirstCut

\* One step of the scan, at a place in the line.
ScanValue(f, i, mode) ==
  CASE mode = "plain" /\ line[i] \in Blanks -> i
    [] mode = "plain" /\ line[i] \in Quotes -> f[i + 1][line[i]]
    [] mode \in Quotes /\ line[i] = mode -> f[i + 1]["plain"]
    [] mode = "\"" /\ line[i] # mode ->
         IF line[i] = "\\"
         THEN IF i = Len(line) THEN i + 1 ELSE f[i + 2][mode]
         ELSE f[i + 1][mode]
    [] OTHER -> f[i + 1][mode]

\* What the terminator behind the line makes of it.
LEMMA ScanStep ==
  ASSUME Terminated, EnteredLine, NEW f, \A i \in LineCells : f[i] = EndStep(f, i),
         NEW i \in 1 .. Len(line), NEW mode \in Modes
  PROVE  f[i][mode] = ScanValue(f, i, mode)
<1>1. /\ i \in LineCells /\ line[i] # NUL /\ lineBuffer[i] = line[i]
      /\ i \in Nat /\ Len(line) \in Nat
  <2>1. i \in 1 .. Len(line) + 1
    BY LineNumbers
  <2> QED  BY <2>1, LineNumbers DEF EnteredLine
<1>2. lineBuffer[i + 1] = NUL <=> i = Len(line)
  <2>1. CASE i = Len(line)
    BY <2>1 DEF EnteredLine
  <2>2. CASE i # Len(line)
    <3>1. i + 1 \in 1 .. Len(line)
      BY <1>1, <2>2
    <3> QED  BY <2>2, <3>1, LineNumbers DEF EnteredLine
  <2> QED  BY <2>1, <2>2
<1>3. f[i] = EndStep(f, i)
  BY <1>1
<1>4. f[i][mode] = CASE lineBuffer[i] = NUL -> i
                     [] mode = "plain" /\ lineBuffer[i] \in Blanks -> i
                     [] mode = "plain" /\ lineBuffer[i] \in Quotes -> f[i + 1][lineBuffer[i]]
                     [] mode \in Quotes /\ lineBuffer[i] = mode -> f[i + 1]["plain"]
                     [] mode = "\"" /\ lineBuffer[i] \notin {NUL, mode} ->
                          IF lineBuffer[i] = "\\" /\ lineBuffer[i + 1] = NUL THEN i + 1
                          ELSE f[AfterInDouble(i)][mode]
                     [] OTHER -> f[i + 1][mode]
  BY <1>3 DEF EndStep, Modes
<1>5. AfterInDouble(i) = IF line[i] = "\\" THEN i + 2 ELSE i + 1
  BY <1>1 DEF AfterInDouble
<1> QED  BY <1>1, <1>2, <1>4, <1>5 DEF ScanValue, Blanks, Quotes

\* The scan ends at the first blank that no quotes enclose.
LEMMA ScanStops ==
  ASSUME Terminated, EnteredLine, NEW f, \A i \in LineCells : f[i] = EndStep(f, i)
  PROVE  \A i \in 1 .. Len(line) + 1 :
           QuoteStates[i] # "escape" => FirstCut(i, f[i][ModeIn(QuoteStates[i])])
<1> DEFINE n == Len(line)
           Q == QuoteStates
           Wrong == {i \in 1 .. n + 1 : Q[i] # "escape" /\ ~ FirstCut(i, f[i][ModeIn(Q[i])])}
<1>1. SUFFICES ASSUME Wrong # {} PROVE FALSE
  OBVIOUS
<1>2. n \in Nat /\ n >= 1
  BY LineNumbers
<1>3. PICK k \in Wrong : \A m \in Wrong : m <= k
  <2>1. Wrong \subseteq 1 .. n + 1 /\ n + 1 \in Nat
    BY <1>2
  <2> HIDE DEF Wrong
  <2> QED  BY <1>1, <2>1, Largest
<1>4. k \in 1 .. n + 1 /\ Q[k] # "escape" /\ ~ FirstCut(k, f[k][ModeIn(Q[k])])
  OBVIOUS
<1>5. \A m \in k + 1 .. n + 1 : Q[m] # "escape" => FirstCut(m, f[m][ModeIn(Q[m])])
  <2> TAKE m \in k + 1 .. n + 1
  <2>1. m \in 1 .. n + 1 /\ ~ m <= k
    BY <1>2, <1>4
  <2>2. m \notin Wrong
    <3> HIDE DEF Wrong
    <3> QED  BY <1>3, <2>1
  <2> QED  BY <2>1, <2>2
<1> HIDE DEF Wrong
<1>6. Q[k] \in QuoteKinds
  BY <1>2, <1>4, QuotesFollow
<1> DEFINE mode == ModeIn(Q[k])
<1>7. mode \in Modes
  BY <1>4, <1>6 DEF ModeIn, Modes, QuoteKinds, Quotes
<1> HIDE DEF mode
<1>8. CASE k = n + 1
  <2>1. lineBuffer[k] = NUL /\ k \in LineCells
    BY <1>4, <1>8, LineNumbers DEF EnteredLine
  <2>2. f[k] = EndStep(f, k)
    BY <2>1
  <2>3. f[k][mode] = k
    BY <1>7, <2>1, <2>2 DEF EndStep, Modes, NUL, Blanks, Quotes
  <2>4. FirstCut(k, f[k][mode])
    BY <1>2, <1>4, <1>8, <2>3, FirstCutHere
  <2> QED  BY <1>4, <2>4 DEF mode
<1>9. CASE k # n + 1
  <2>1. k \in 1 .. n /\ k + 1 \in k + 1 .. n + 1
    BY <1>2, <1>4, <1>9
  <2>2. Q[k + 1] = NextQuote(Q[k], line[k])
    BY <1>2, <2>1, QuotesFollow
  <2> DEFINE c == line[k]
  <2>3. f[k][mode] = CASE mode = "plain" /\ c \in Blanks -> k
                       [] mode = "plain" /\ c \in Quotes -> f[k + 1][c]
                       [] mode \in Quotes /\ c = mode -> f[k + 1]["plain"]
                       [] mode = "\"" /\ c # mode ->
                            IF c = "\\"
                            THEN IF k = n THEN k + 1 ELSE f[k + 2][mode]
                            ELSE f[k + 1][mode]
                       [] OTHER -> f[k + 1][mode]
    <3>1. f[k][mode] = ScanValue(f, k, mode)
      BY <1>7, <2>1, ScanStep
    <3> QED  BY <3>1 DEF ScanValue
  <2> HIDE DEF c
  <2>4. CASE Cut(k)
    <3>1. mode = "plain" /\ c \in Blanks
      BY <2>4 DEF Cut, mode, ModeIn, c
    <3>2. f[k][mode] = k
      BY <2>3, <3>1 DEF Blanks, Quotes
    <3> QED  BY <1>2, <1>4, <2>4, <3>2, FirstCutHere DEF mode
  <2>5. CASE ~ Cut(k)
    <3>1. ~ (mode = "plain" /\ c \in Blanks)
      BY <1>4, <1>6, <2>1, <2>5 DEF Cut, mode, ModeIn, c, QuoteKinds
    <3>2. CASE Q[k + 1] # "escape"
      <4>1. f[k][mode] = f[k + 1][ModeIn(Q[k + 1])]
        BY <1>4, <1>6, <2>2, <2>3, <3>1, <3>2
        DEF NextQuote, ModeIn, Modes, QuoteKinds, Quotes, mode, c
      <4>2. FirstCut(k + 1, f[k + 1][ModeIn(Q[k + 1])])
        BY <1>5, <2>1, <3>2
      <4>3. FirstCut(k, f[k][mode])
        BY <1>2, <2>1, <2>5, <4>1, <4>2, FirstCutLater
      <4> QED  BY <1>4, <4>3 DEF mode
    <3>3. CASE Q[k + 1] = "escape"
      <4>1. mode = "\"" /\ c = "\\" /\ Q[k] = "\""
        BY <1>4, <1>6, <2>2, <3>3 DEF NextQuote, ModeIn, QuoteKinds, Quotes, mode, c
      <4>2. f[k][mode] = IF k = n THEN k + 1 ELSE f[k + 2][mode]
        BY <2>3, <4>1 DEF Quotes
      <4>3. CASE k = n
        <5>1. FirstCut(k + 1, k + 1)
          BY <1>2, <2>1, <4>3, FirstCutHere
        <5>2. FirstCut(k, f[k][mode])
          BY <1>2, <2>1, <2>5, <4>2, <4>3, <5>1, FirstCutLater
        <5> QED  BY <1>4, <5>2 DEF mode
      <4>4. CASE k # n
        <5>1. k + 1 \in 1 .. n /\ k + 2 \in k + 1 .. n + 1 /\ (k + 1) + 1 = k + 2
          BY <1>2, <2>1, <4>4
        <5>2. Q[k + 2] = "\""
          <6>1. Q[k + 2] = NextQuote(Q[k + 1], line[k + 1])
            BY <1>2, <5>1, QuotesFollow
          <6> QED  BY <3>3, <6>1 DEF NextQuote
        <5>3. FirstCut(k + 2, f[k + 2][mode])
          BY <1>5, <4>1, <5>1, <5>2 DEF ModeIn
        <5>4. ~ Cut(k + 1)
          BY <3>3 DEF Cut
        <5>5. FirstCut(k + 1, f[k + 2][mode])
          BY <1>2, <5>1, <5>3, <5>4, FirstCutLater
        <5>6. FirstCut(k, f[k][mode])
          BY <1>2, <2>1, <2>5, <4>2, <4>4, <5>5, FirstCutLater
        <5> QED  BY <1>4, <5>6 DEF mode
      <4> QED  BY <4>3, <4>4
    <3> QED  BY <3>2, <3>3
  <2> QED  BY <2>4, <2>5
<1> QED  BY <1>8, <1>9

\* A word that starts outside of quotes ends there.
LEMMA WordEndsAtCut ==
  ASSUME Terminated, EnteredLine, NEW start \in 1 .. Len(line) + 1, QuoteStates[start] = "none"
  PROVE  FirstCut(start, WordEnd(start))
<1>1. PICK f : /\ \A i \in LineCells : f[i] = EndStep(f, i)
               /\ \A i : WordEnd(i) = f[i]["plain"]
  BY WordEndScans
<1>2. FirstCut(start, f[start][ModeIn(QuoteStates[start])])
  BY <1>1, ScanStops
<1> QED  BY <1>1, <1>2 DEF ModeIn

-----------------------------------------------------------------------------
(* The table. *)

\* Where a word may start that is looked for from i on: no quotes are open, and
\* no word goes on.
Between(i) ==
  /\ i \in 1 .. Len(line) + 1 /\ QuoteStates[i] = "none"
  /\ i # 1 => Cut(i - 1)

\* Behind a cut no quotes are open.
LEMMA BehindCut ==
  ASSUME EnteredLine, NEW i, Cut(i)
  PROVE  i + 1 \in 1 .. Len(line) + 1 /\ QuoteStates[i + 1] = "none" /\ Between(i + 1)
<1>1. i \in 1 .. Len(line) /\ Len(line) \in Nat
  BY LineNumbers DEF Cut
<1>2. i + 1 \in 1 .. Len(line) + 1 /\ (i + 1) - 1 = i
  BY <1>1
<1>3. QuoteStates[i + 1] = NextQuote("none", line[i])
  BY <1>1, QuotesFollow DEF Cut
<1>4. QuoteStates[i + 1] = "none"
  BY <1>3 DEF Cut, NextQuote, Blanks, Quotes
<1> QED  BY <1>2, <1>4 DEF Between

\* .skip_ws ends at the first place that is no cut, or at the terminator.
LEMMA BlanksSkipped ==
  ASSUME Terminated, EnteredLine, NEW i, Between(i)
  PROVE  /\ SkipBlanks(i) \in i .. Len(line) + 1
         /\ Between(SkipBlanks(i)) /\ ~ Cut(SkipBlanks(i))
         /\ \A m \in i .. SkipBlanks(i) - 1 : Cut(m)
<1> DEFINE n == Len(line)
           s == SkipBlanks(i)
           Solid == {m \in i .. n + 1 : lineBuffer[m] \notin Blanks}
           First(k) == /\ k \in i .. LINE_CAPACITY /\ lineBuffer[k] \notin Blanks
                       /\ \A m \in i .. k - 1 : lineBuffer[m] \in Blanks
<1>1. /\ n \in Nat /\ n >= 1 /\ LINE_CAPACITY \in Nat /\ i \in 1 .. n + 1
      /\ n + 1 \in LineCells /\ n + 1 <= LINE_CAPACITY
  <2>1. n \in Nat /\ n >= 1 /\ LINE_CAPACITY \in Nat /\ \A m \in 1 .. n + 1 : m \in LineCells
    BY LineNumbers
  <2>2. n + 1 \in 1 .. n + 1
    BY <2>1
  <2>3. n + 1 \in LineCells
    BY <2>1, <2>2
  <2>4. i \in 1 .. n + 1
    BY DEF Between
  <2> QED  BY <2>1, <2>3, <2>4 DEF LineCells
<1>2. lineBuffer[n + 1] \notin Blanks
  BY DEF EnteredLine, NUL, Blanks
<1>3. PICK k \in Solid : \A m \in Solid : k <= m
  <2>1. Solid \subseteq Nat
    BY <1>1
  <2>2. n + 1 \in Solid
    BY <1>1, <1>2
  <2> HIDE DEF Solid
  <2> QED  BY <2>1, <2>2, Smallest
<1>4. First(k)
  <2>1. k \in i .. n + 1 /\ lineBuffer[k] \notin Blanks
    OBVIOUS
  <2>2. \A m \in i .. k - 1 : m \in i .. n + 1 /\ ~ k <= m
    BY <1>1, <2>1
  <2>3. \A m \in i .. k - 1 : m \notin Solid
    <3> HIDE DEF Solid
    <3> QED  BY <1>3, <2>2
  <2>4. \A m \in i .. k - 1 : lineBuffer[m] \in Blanks
    BY <2>2, <2>3
  <2>5. k \in i .. LINE_CAPACITY
    BY <1>1, <2>1
  <2> QED  BY <2>1, <2>4, <2>5
<1>5. First(s)
  <2>1. s = CHOOSE m \in i .. LINE_CAPACITY :
              lineBuffer[m] \notin Blanks /\ \A j \in i .. m - 1 : lineBuffer[j] \in Blanks
    BY DEF SkipBlanks
  <2> QED  BY <1>4, <2>1
<1> HIDE DEF Solid, s
<1>6. s \in i .. n + 1
  <2>1. s \in i .. LINE_CAPACITY /\ (n + 1 < s => n + 1 \in i .. s - 1)
    BY <1>1, <1>5
  <2>2. ~ n + 1 < s
    BY <1>2, <1>5, <2>1
  <2> QED  BY <1>1, <2>1, <2>2
<1>7. \A m \in i .. s : QuoteStates[m] = "none" /\ Between(m)
  <2> DEFINE Wrong == {m \in i .. s : ~ (QuoteStates[m] = "none" /\ Between(m))}
  <2>1. SUFFICES ASSUME Wrong # {} PROVE FALSE
    OBVIOUS
  <2>2. Wrong \subseteq Nat
    BY <1>1
  <2>3. PICK m \in Wrong : \A j \in Wrong : m <= j
    <3> HIDE DEF Wrong
    <3> QED  BY <2>1, <2>2, Smallest
  <2>4. m \in i .. s /\ m # i
    BY DEF Between
  <2>5. m - 1 \in i .. s - 1 /\ m - 1 \in i .. s /\ ~ m <= m - 1 /\ (m - 1) + 1 = m /\ m - 1 \in 1 .. n
    BY <1>1, <1>6, <2>4
  <2>6. m - 1 \notin Wrong
    <3> HIDE DEF Wrong
    <3> QED  BY <2>3, <2>5
  <2>7. QuoteStates[m - 1] = "none" /\ lineBuffer[m - 1] \in Blanks
    BY <1>5, <2>5, <2>6
  <2>8. Cut(m - 1)
    BY <2>5, <2>7 DEF Cut, EnteredLine
  <2>9. QuoteStates[m] = "none" /\ Between(m)
    BY <2>5, <2>8, BehindCut
  <2> QED  BY <2>9
<1>8. \A m \in i .. s - 1 : Cut(m)
  <2> TAKE m \in i .. s - 1
  <2>1. m \in 1 .. n /\ m \in i .. s
    BY <1>1, <1>6
  <2> QED  BY <1>5, <1>7, <2>1 DEF Cut, EnteredLine
<1>9. Between(s)
  <2>1. s \in i .. s
    BY <1>1, <1>6
  <2> QED  BY <1>7, <2>1
<1>10. ~ Cut(s)
  BY <1>5 DEF Cut, EnteredLine
<1> QED  BY <1>6, <1>8, <1>9, <1>10 DEF s

\* One step of WordStarts.
FromStep(from, room) ==
  [i \in LineCells |->
    LET start == SkipBlanks(i)
    IN  CASE room = 0 \/ lineBuffer[start] = NUL -> << >>
          [] OTHER -> <<start>> \o
               (IF lineBuffer[WordEnd(start)] = NUL THEN << >>
                ELSE from[room - 1][WordEnd(start) + 1])]

Froms(f, rooms) == f = [room \in 0 .. rooms |-> FromStep(f, room)]

\* WordStarts is the last value of such a function, if there is one.
LEMMA WordStartsUnfolds ==
  WordStarts = (CHOOSE f : Froms(f, ARGV_CAPACITY))[ARGV_CAPACITY][1]
BY DEF WordStarts, Froms, FromStep

\* The words for one room are those of one room less, and one in front.
LEMMA FromStepsAgree ==
  ASSUME NEW f, NEW g, NEW room, room # 0 => f[room - 1] = g[room - 1]
  PROVE  FromStep(f, room) = FromStep(g, room)
<1>1. CASE room = 0
  BY <1>1 DEF FromStep
<1>2. CASE room # 0
  BY <1>2 DEF FromStep
<1> QED  BY <1>1, <1>2

\* There is such a function.
LEMMA FromsExists ==
  ASSUME NEW n \in Nat
  PROVE  \E f : Froms(f, n)
<1> DEFINE Wrong == {k \in Nat : ~ \E f : Froms(f, k)}
<1>1. SUFFICES ASSUME Wrong # {} PROVE FALSE
  <2>1. n \in Nat \ Wrong => \E f : Froms(f, n)
    OBVIOUS
  <2> QED  BY <1>1, <2>1
<1>2. PICK k \in Wrong : \A m \in Wrong : k <= m
  BY <1>1, Smallest
<1>3. k \in Nat
  BY <1>2
<1>4. \E g : \A room \in 0 .. k - 1 : g[room] = FromStep(g, room)
  <2>1. CASE k = 0
    BY <2>1
  <2>2. CASE k # 0
    <3>1. k - 1 \in Nat /\ ~ k <= k - 1
      BY <1>3, <2>2
    <3>2. k - 1 \notin Wrong
      <4> HIDE DEF Wrong
      <4> QED  BY <1>2, <3>1
    <3>3. PICK g : Froms(g, k - 1)
      BY <3>1, <3>2
    <3>4. \A room \in 0 .. k - 1 : g[room] = FromStep(g, room)
      BY <3>3 DEF Froms
    <3> QED  BY <3>4
  <2> QED  BY <2>1, <2>2
<1>5. PICK g : \A room \in 0 .. k - 1 : g[room] = FromStep(g, room)
  BY <1>4
<1> DEFINE f == [room \in 0 .. k |-> IF room < k THEN g[room] ELSE FromStep(g, k)]
<1>6. \A room \in 0 .. k - 1 : f[room] = g[room]
  BY <1>3
<1>7. f[k] = FromStep(g, k) /\ f = [room \in 0 .. k |-> f[room]]
  BY <1>3
<1> HIDE DEF f
<1>8. \A room \in 0 .. k : f[room] = FromStep(f, room)
  <2> TAKE room \in 0 .. k
  <2>1. room # 0 => room - 1 \in 0 .. k - 1
    BY <1>3
  <2>2. FromStep(f, room) = FromStep(g, room)
    BY <1>6, <2>1, FromStepsAgree
  <2>3. CASE room = k
    BY <1>7, <2>2, <2>3
  <2>4. CASE room # k
    <3>1. room \in 0 .. k - 1
      BY <1>3, <2>4
    <3> QED  BY <1>5, <1>6, <2>2, <3>1
  <2> QED  BY <2>3, <2>4
<1>9. Froms(f, k)
  BY <1>7, <1>8, Zenon DEF Froms
<1> QED  BY <1>2, <1>9

-----------------------------------------------------------------------------
(* The words in their order. *)

\* seq holds the first members of S from the smallest on, as many as there is
\* room for.
Lists(seq, S, room) ==
  /\ seq \in Seq(Nat) /\ Len(seq) <= room
  /\ \A k \in 1 .. Len(seq) : seq[k] \in S
  /\ \A j, k \in 1 .. Len(seq) : j < k => seq[j] < seq[k]
  /\ \A s \in S : \/ \E k \in 1 .. Len(seq) : seq[k] = s
                  \/ Len(seq) = room /\ \A k \in 1 .. Len(seq) : seq[k] < s

\* Without room, or without members, there is nothing to hold.
LEMMA ListsNothing ==
  ASSUME NEW S, NEW room \in Nat, S = {} \/ room = 0
  PROVE  Lists(<< >>, S, room)
<1>1. << >> \in Seq(Nat) /\ Len(<< >>) = 0
  OBVIOUS
<1> QED  BY <1>1 DEF Lists

\* A smaller member stands in front.
LEMMA ListsInFront ==
  ASSUME NEW S, NEW s \in Nat, NEW room \in Nat, NEW seq, Lists(seq, S, room),
         \A t \in S : t \in Nat /\ s < t
  PROVE  Lists(<<s>> \o seq, {s} \cup S, room + 1)
<1> DEFINE all == <<s>> \o seq
<1>1. seq \in Seq(Nat) /\ Len(seq) \in Nat /\ <<s>> \in Seq(Nat) /\ Len(<<s>>) = 1
  BY LenProperties DEF Lists
<1>2. /\ all \in Seq(Nat) /\ Len(all) = Len(seq) + 1
      /\ \A k \in 1 .. Len(seq) + 1 : all[k] = IF k <= 1 THEN <<s>>[k] ELSE seq[k - 1]
  <2>1. /\ all \in Seq(Nat) /\ Len(all) = Len(<<s>>) + Len(seq)
        /\ \A k \in 1 .. Len(<<s>>) + Len(seq) :
             all[k] = IF k <= Len(<<s>>) THEN <<s>>[k] ELSE seq[k - Len(<<s>>)]
    BY <1>1, ConcatProperties
  <2>2. Len(<<s>>) + Len(seq) = Len(seq) + 1
    BY <1>1
  <2> QED  BY <1>1, <2>1, <2>2
<1>3. all[1] = s
  BY <1>1, <1>2
<1>4. \A k \in 1 .. Len(seq) + 1 : k # 1 => k - 1 \in 1 .. Len(seq) /\ all[k] = seq[k - 1]
  <2> TAKE k \in 1 .. Len(seq) + 1
  <2>1. k # 1 => k - 1 \in 1 .. Len(seq) /\ ~ k <= 1
    BY <1>1
  <2> QED  BY <1>2, <2>1
<1> HIDE DEF all
<1>5. \A k \in 1 .. Len(seq) : seq[k] \in S /\ seq[k] \in Nat /\ s < seq[k]
  BY DEF Lists
<1>6. \A k \in 1 .. Len(all) : all[k] \in {s} \cup S
  BY <1>2, <1>3, <1>4, <1>5
<1>7. ASSUME NEW j \in 1 .. Len(all), NEW k \in 1 .. Len(all), j < k
      PROVE  all[j] < all[k]
  <2>1. k # 1 /\ k \in 1 .. Len(seq) + 1 /\ j \in 1 .. Len(seq) + 1
    BY <1>1, <1>2, <1>7
  <2>2. k - 1 \in 1 .. Len(seq) /\ all[k] = seq[k - 1]
    BY <1>4, <2>1
  <2>3. CASE j = 1
    BY <1>3, <1>5, <2>2, <2>3
  <2>4. CASE j # 1
    <3>1. j - 1 \in 1 .. Len(seq) /\ all[j] = seq[j - 1]
      BY <1>4, <2>1, <2>4
    <3>2. j - 1 < k - 1
      BY <1>1, <1>7, <2>1
    <3> QED  BY <2>2, <3>1, <3>2 DEF Lists
  <2> QED  BY <2>3, <2>4
<1>8. ASSUME NEW t \in {s} \cup S
      PROVE  \/ \E k \in 1 .. Len(all) : all[k] = t
             \/ Len(all) = room + 1 /\ \A k \in 1 .. Len(all) : all[k] < t
  <2>1. CASE t = s
    <3>1. 1 \in 1 .. Len(all)
      BY <1>1, <1>2
    <3> QED  BY <1>3, <2>1, <3>1
  <2>2. CASE t \in S
    <3>1. CASE \E k \in 1 .. Len(seq) : seq[k] = t
      <4>1. PICK k \in 1 .. Len(seq) : seq[k] = t
        BY <3>1
      <4>2. k + 1 \in 1 .. Len(seq) + 1 /\ k + 1 # 1 /\ (k + 1) - 1 = k
        BY <1>1
      <4>3. all[k + 1] = t
        BY <1>4, <4>1, <4>2
      <4> QED  BY <1>2, <4>2, <4>3
    <3>2. CASE Len(seq) = room /\ \A k \in 1 .. Len(seq) : seq[k] < t
      <4>1. \A k \in 1 .. Len(all) : all[k] < t
        <5> TAKE k \in 1 .. Len(all)
        <5>1. CASE k = 1
          BY <1>3, <2>2, <5>1
        <5>2. CASE k # 1
          BY <1>2, <1>4, <3>2, <5>2
        <5> QED  BY <5>1, <5>2
      <4> QED  BY <1>2, <3>2, <4>1
    <3> QED  BY <2>2, <3>1, <3>2 DEF Lists
  <2> QED  BY <2>1, <2>2
<1>9. Len(all) <= room + 1
  <2>1. Len(seq) <= room
    BY DEF Lists
  <2> QED  BY <1>1, <1>2, <2>1
<1>10. Lists(all, {s} \cup S, room + 1)
  BY <1>2, <1>6, <1>7, <1>8, <1>9 DEF Lists
<1> QED  BY <1>10 DEF all

\* Where a word starts in the line.
WordPlaces == {i \in 1 .. Len(line) : ~ Cut(i) /\ (i # 1 => Cut(i - 1))}

PlacesFrom(i) == {s \in WordPlaces : i <= s}

\* They are those that SkipBlanks finds, first behind i and then behind the end
\* of that word.
LEMMA NextPlace ==
  ASSUME Terminated, EnteredLine, NEW i, Between(i), NEW s, s = SkipBlanks(i)
  PROVE  /\ s \in Nat
         /\ lineBuffer[s] = NUL => PlacesFrom(i) = {}
         /\ lineBuffer[s] # NUL =>
              /\ lineBuffer[WordEnd(s)] = NUL => PlacesFrom(i) = {s}
              /\ lineBuffer[WordEnd(s)] # NUL =>
                   /\ Between(WordEnd(s) + 1)
                   /\ PlacesFrom(i) = {s} \cup PlacesFrom(WordEnd(s) + 1)
                   /\ s < WordEnd(s) + 1
<1> DEFINE n == Len(line)
           e == WordEnd(s)
<1>1. /\ n \in Nat /\ n >= 1 /\ i \in 1 .. n + 1
      /\ \A m \in 1 .. n : lineBuffer[m] # NUL
      /\ lineBuffer[n + 1] = NUL
  BY LineNumbers DEF EnteredLine, Between
<1>2. s \in i .. n + 1 /\ Between(s) /\ ~ Cut(s) /\ \A m \in i .. s - 1 : Cut(m)
  BY BlanksSkipped
<1>3. s \in Nat /\ s \in 1 .. n + 1 /\ (lineBuffer[s] = NUL <=> s = n + 1)
  <2>1. s \in 1 .. n + 1
    BY <1>1, <1>2
  <2>2. s # n + 1 => s \in 1 .. n
    BY <1>1, <2>1
  <2> QED  BY <1>1, <2>1, <2>2
<1>4. \A t \in PlacesFrom(i) : t \in 1 .. n /\ s <= t
  <2> TAKE t \in PlacesFrom(i)
  <2>1. t \in 1 .. n /\ i <= t /\ ~ Cut(t)
    BY DEF PlacesFrom, WordPlaces
  <2>2. ~ s <= t => t \in i .. s - 1
    BY <1>1, <1>3, <2>1
  <2> QED  BY <1>2, <2>1, <2>2
<1>5. ASSUME s = n + 1
      PROVE  PlacesFrom(i) = {}
  <2>1. \A t \in PlacesFrom(i) : FALSE
    BY <1>1, <1>4, <1>5
  <2> QED  BY <2>1
<1>6. ASSUME s # n + 1
      PROVE  /\ lineBuffer[e] = NUL => PlacesFrom(i) = {s}
             /\ lineBuffer[e] # NUL => /\ Between(e + 1)
                                       /\ PlacesFrom(i) = {s} \cup PlacesFrom(e + 1)
                                       /\ s < e + 1
  <2>1. s \in 1 .. n /\ QuoteStates[s] = "none"
    BY <1>1, <1>2, <1>3, <1>6 DEF Between
  <2>2. FirstCut(s, e)
    BY <1>3, <2>1, WordEndsAtCut
  <2> HIDE DEF e
  <2>3. e \in s .. n + 1 /\ (e # n + 1 => Cut(e)) /\ \A m \in s .. e - 1 : ~ Cut(m)
    BY <2>2 DEF FirstCut
  <2>4. lineBuffer[e] = NUL <=> e = n + 1
    <3>1. e # n + 1 => e \in 1 .. n
      BY <1>1, <2>1, <2>3
    <3> QED  BY <1>1, <3>1
  <2>5. s \in PlacesFrom(i)
    <3>1. i <= s
      BY <1>1, <1>2
    <3> QED  BY <1>2, <2>1, <3>1 DEF PlacesFrom, WordPlaces, Between
  <2>6. \A t \in PlacesFrom(i) : t = s \/ e + 1 <= t
    <3> TAKE t \in PlacesFrom(i)
    <3>1. t \in 1 .. n /\ s <= t /\ ~ Cut(t) /\ (t # 1 => Cut(t - 1))
      BY <1>4 DEF PlacesFrom, WordPlaces
    <3>2. t # s /\ ~ e + 1 <= t => t = e \/ t - 1 \in s .. e - 1
      BY <1>1, <2>1, <2>3, <3>1
    <3>3. t = e => FALSE
      BY <1>1, <2>3, <3>1
    <3>4. t # s /\ t - 1 \in s .. e - 1 => FALSE
      <4>1. t # s => t # 1
        BY <2>1, <3>1
      <4> QED  BY <2>3, <3>1, <4>1
    <3> QED  BY <3>2, <3>3, <3>4
  <2>7. ASSUME e = n + 1
        PROVE  PlacesFrom(i) = {s}
    <3>1. \A t \in PlacesFrom(i) : t = s
      <4> TAKE t \in PlacesFrom(i)
      <4>1. t \in 1 .. n
        BY <1>4
      <4>2. ~ e + 1 <= t
        BY <1>1, <2>7, <4>1
      <4> QED  BY <2>6, <4>2
    <3> QED  BY <2>5, <3>1
  <2>8. ASSUME e # n + 1
        PROVE  Between(e + 1) /\ PlacesFrom(i) = {s} \cup PlacesFrom(e + 1) /\ s < e + 1
    <3>1. Cut(e)
      BY <2>3, <2>8
    <3>2. Between(e + 1)
      BY <3>1, BehindCut
    <3>3. s < e + 1 /\ e \in Nat
      BY <2>1, <2>3
    <3>4. \A t \in PlacesFrom(e + 1) : t \in PlacesFrom(i)
      <4> TAKE t \in PlacesFrom(e + 1)
      <4>1. t \in WordPlaces /\ t \in 1 .. n /\ e + 1 <= t
        BY DEF PlacesFrom, WordPlaces
      <4>2. i <= t
        BY <1>1, <1>2, <1>3, <3>3, <4>1
      <4> QED  BY <4>1, <4>2 DEF PlacesFrom
    <3>5. \A t \in PlacesFrom(i) : t = s \/ t \in PlacesFrom(e + 1)
      BY <2>6 DEF PlacesFrom
    <3>6. PlacesFrom(i) = {s} \cup PlacesFrom(e + 1)
      <4> HIDE DEF n
      <4> QED  BY <2>5, <3>4, <3>5
    <3> QED  BY <3>2, <3>3, <3>6
  <2> QED  BY <2>4, <2>7, <2>8
<1> QED  BY <1>3, <1>5, <1>6

\* The table gets the first words of the line, in their order.
LEMMA WordStartsListed ==
  ASSUME Terminated, EnteredLine
  PROVE  Lists(WordStarts, WordPlaces, ARGV_CAPACITY)
<1> DEFINE f == CHOOSE f : Froms(f, ARGV_CAPACITY)
           Wrong == {room \in 0 .. ARGV_CAPACITY :
                       \E i \in LineCells : Between(i) /\ ~ Lists(f[room][i], PlacesFrom(i), room)}
<1>1. ARGV_CAPACITY \in Nat /\ ARGV_CAPACITY # 0
  BY WordsAssumption
<1>2. Froms(f, ARGV_CAPACITY) /\ WordStarts = f[ARGV_CAPACITY][1]
  BY <1>1, FromsExists, WordStartsUnfolds
<1> HIDE DEF f
<1>3. \A room \in 0 .. ARGV_CAPACITY : f[room] = FromStep(f, room)
  BY <1>2 DEF Froms
<1>4. \A i : Between(i) => i \in LineCells
  BY LineNumbers DEF Between
<1>5. ASSUME Wrong # {} PROVE FALSE
  <2>1. PICK room \in Wrong : \A m \in Wrong : room <= m
    <3>1. Wrong \subseteq Nat
      BY <1>1
    <3> HIDE DEF Wrong
    <3> QED  BY <1>5, <3>1, Smallest
  <2>2. room \in 0 .. ARGV_CAPACITY
    OBVIOUS
  <2>3. PICK i \in LineCells : Between(i) /\ ~ Lists(f[room][i], PlacesFrom(i), room)
    OBVIOUS
  <2>4. room # 0 => /\ room - 1 \in Nat
                    /\ \A j : Between(j) => Lists(f[room - 1][j], PlacesFrom(j), room - 1)
    <3> SUFFICES ASSUME room # 0
                 PROVE  /\ room - 1 \in Nat
                        /\ \A j : Between(j) => Lists(f[room - 1][j], PlacesFrom(j), room - 1)
      OBVIOUS
    <3>1. room - 1 \in 0 .. ARGV_CAPACITY /\ room - 1 \in Nat /\ ~ room <= room - 1
      BY <1>1, <2>2
    <3>2. room - 1 \notin Wrong
      <4> HIDE DEF Wrong
      <4> QED  BY <2>1, <3>1
    <3> QED  BY <1>4, <3>1, <3>2
  <2> HIDE DEF Wrong
  <2> DEFINE s == SkipBlanks(i)
             e == WordEnd(s)
             rest == IF lineBuffer[e] = NUL THEN << >> ELSE f[room - 1][e + 1]
  <2>5. f[room][i] = IF room = 0 \/ lineBuffer[s] = NUL THEN << >> ELSE <<s>> \o rest
    <3>1. FromStep(f, room)[i] = IF room = 0 \/ lineBuffer[s] = NUL THEN << >> ELSE <<s>> \o rest
      BY <2>3 DEF FromStep
    <3>2. f[room] = FromStep(f, room)
      BY <1>3, <2>2
    <3> HIDE DEF s, e, rest
    <3> QED  BY <3>1, <3>2
  <2>6. /\ s \in Nat
        /\ lineBuffer[s] = NUL => PlacesFrom(i) = {}
        /\ lineBuffer[s] # NUL =>
             /\ lineBuffer[e] = NUL => PlacesFrom(i) = {s}
             /\ lineBuffer[e] # NUL =>
                  Between(e + 1) /\ PlacesFrom(i) = {s} \cup PlacesFrom(e + 1) /\ s < e + 1
    BY <2>3, NextPlace
  <2> HIDE DEF s, e
  <2>7. CASE room = 0 \/ lineBuffer[s] = NUL
    <3>1. f[room][i] = << >> /\ (PlacesFrom(i) = {} \/ room = 0) /\ room \in Nat
      BY <2>2, <2>5, <2>6, <2>7
    <3> QED  BY <2>3, <3>1, ListsNothing
  <2>8. CASE room # 0 /\ lineBuffer[s] # NUL
    <3> DEFINE behind == IF lineBuffer[e] = NUL THEN {} ELSE PlacesFrom(e + 1)
    <3>1. Lists(rest, behind, room - 1)
      BY <2>4, <2>6, <2>8, ListsNothing
    <3>2. \A t \in behind : t \in Nat /\ s < t
      <4>1. lineBuffer[e] # NUL => \A t \in PlacesFrom(e + 1) : t \in Nat /\ e + 1 <= t
        BY DEF PlacesFrom, WordPlaces
      <4>2. lineBuffer[e] # NUL => e + 1 \in Nat /\ s < e + 1
        BY <2>6, <2>8, LineNumbers DEF Between
      <4> QED  BY <2>6, <4>1, <4>2
    <3>3. PlacesFrom(i) = {s} \cup behind
      BY <2>6, <2>8
    <3>4. f[room][i] = <<s>> \o rest
      BY <2>5, <2>8
    <3> HIDE DEF behind, rest
    <3>5. Lists(<<s>> \o rest, {s} \cup behind, (room - 1) + 1)
      BY <2>4, <2>6, <2>8, <3>1, <3>2, ListsInFront
    <3>6. (room - 1) + 1 = room
      BY <2>2
    <3> QED  BY <2>3, <3>3, <3>4, <3>5, <3>6
  <2> QED  BY <2>7, <2>8
<1>6. Between(1)
  BY LineNumbers, QuotesFollow DEF Between
<1>7. Lists(f[ARGV_CAPACITY][1], PlacesFrom(1), ARGV_CAPACITY)
  <2>1. ARGV_CAPACITY \in 0 .. ARGV_CAPACITY /\ 1 \in LineCells
    BY <1>1, <1>4, <1>6
  <2> QED  BY <1>5, <1>6, <2>1
<1>8. PlacesFrom(1) = WordPlaces
  BY LineNumbers DEF PlacesFrom, WordPlaces
<1> QED  BY <1>2, <1>7, <1>8

\* The first j of them.
Initial(seq, j) == {seq[m] : m \in 1 .. j}

Below(S, x) == {m \in S : m < x}

\* They are j.
LEMMA InitialCounts ==
  ASSUME NEW S, NEW room, NEW seq, Lists(seq, S, room)
  PROVE  \A j \in 0 .. Len(seq) : /\ IsFiniteSet(Initial(seq, j))
                                  /\ Cardinality(Initial(seq, j)) = j
<1> DEFINE Counts(j) == IsFiniteSet(Initial(seq, j)) /\ Cardinality(Initial(seq, j)) = j
           Wrong == {j \in 0 .. Len(seq) : ~ Counts(j)}
<1>1. /\ Len(seq) \in Nat
      /\ \A j \in 1 .. Len(seq) : seq[j] \in Nat
      /\ \A i, j \in 1 .. Len(seq) : i < j => seq[i] < seq[j]
  BY LenProperties, ElementOfSeq DEF Lists
<1>2. SUFFICES ASSUME Wrong # {} PROVE FALSE
  OBVIOUS
<1>3. Wrong \subseteq Nat
  BY <1>1
<1>4. PICK j \in Wrong : \A m \in Wrong : j <= m
  <2> HIDE DEF Wrong
  <2> QED  BY <1>2, <1>3, Smallest
<1>5. j \in 0 .. Len(seq) /\ ~ Counts(j)
  OBVIOUS
<1>6. j # 0
  <2>1. Initial(seq, 0) = {}
    BY DEF Initial
  <2>2. Counts(0)
    BY <2>1, FS_EmptySet
  <2> QED  BY <1>5, <2>2
<1>7. j \in 1 .. Len(seq) /\ j - 1 \in 0 .. Len(seq) /\ ~ j <= j - 1 /\ j - 1 \in Nat
  BY <1>1, <1>5, <1>6
<1>8. Counts(j - 1)
  <2>1. j - 1 \notin Wrong
    <3> HIDE DEF Wrong
    <3> QED  BY <1>4, <1>7
  <2> QED  BY <1>7, <2>1
<1>9. Initial(seq, j) = Initial(seq, j - 1) \cup {seq[j]}
  <2>1. \A m : m \in 1 .. j <=> m \in 1 .. j - 1 \/ m = j
    BY <1>7
  <2> QED  BY <2>1 DEF Initial
<1>10. seq[j] \notin Initial(seq, j - 1)
  <2>1. \A m \in 1 .. j - 1 : m \in 1 .. Len(seq) /\ m < j
    BY <1>1, <1>7
  <2>2. \A m \in 1 .. j - 1 : seq[m] < seq[j] /\ seq[m] \in Nat /\ seq[j] \in Nat
    BY <1>1, <1>7, <2>1
  <2>3. \A m \in 1 .. j - 1 : seq[m] # seq[j]
    BY <2>2
  <2> QED  BY <2>3 DEF Initial
<1>11. /\ IsFiniteSet(Initial(seq, j - 1) \cup {seq[j]})
       /\ Cardinality(Initial(seq, j - 1) \cup {seq[j]}) = Cardinality(Initial(seq, j - 1)) + 1
  BY <1>8, <1>10, FS_AddElement
<1>12. Counts(j)
  BY <1>7, <1>8, <1>9, <1>11
<1> QED  BY <1>5, <1>12

\* The members below one of them are those in front of it.
LEMMA BelowIsInitial ==
  ASSUME NEW S \in SUBSET Nat, NEW room, NEW seq, Lists(seq, S, room), NEW k \in 1 .. Len(seq)
  PROVE  Below(S, seq[k]) = Initial(seq, k - 1)
<1>1. /\ Len(seq) \in Nat
      /\ \A j \in 1 .. Len(seq) : seq[j] \in Nat /\ seq[j] \in S
      /\ \A i, j \in 1 .. Len(seq) : i < j => seq[i] < seq[j]
  BY LenProperties, ElementOfSeq DEF Lists
<1>2. ASSUME NEW m \in Below(S, seq[k])
      PROVE  m \in Initial(seq, k - 1)
  <2>1. m \in S /\ m \in Nat /\ m < seq[k] /\ seq[k] \in Nat
    BY <1>1 DEF Below
  <2>2. ~ seq[k] < m
    BY <2>1
  <2>3. PICK j \in 1 .. Len(seq) : seq[j] = m
    BY <2>1, <2>2 DEF Lists
  <2>4. ~ (k < j) /\ k # j
    BY <1>1, <2>1, <2>2, <2>3
  <2>5. j \in 1 .. k - 1
    BY <1>1, <2>4
  <2> QED  BY <2>3, <2>5 DEF Initial
<1>3. ASSUME NEW j \in 1 .. k - 1
      PROVE  seq[j] \in Below(S, seq[k])
  <2>1. j \in 1 .. Len(seq) /\ j < k
    BY <1>1
  <2> QED  BY <1>1, <2>1 DEF Below
<1>4. \A m \in Initial(seq, k - 1) : m \in Below(S, seq[k])
  BY <1>3 DEF Initial
<1> QED  BY <1>2, <1>4

\* InOrder gives the same members at the same places.
LEMMA InOrderListed ==
  ASSUME NEW S \in SUBSET Nat, IsFiniteSet(S), NEW room, NEW seq, Lists(seq, S, room)
  PROVE  /\ Cardinality(S) \in Nat /\ Len(seq) \in Nat /\ Len(seq) <= Cardinality(S)
         /\ Len(seq) = room \/ Len(seq) = Cardinality(S)
         /\ DOMAIN InOrder(S) = 1 .. Cardinality(S)
         /\ \A k \in 1 .. Len(seq) : InOrder(S)[k] = seq[k]
<1>1. /\ Len(seq) \in Nat /\ Len(seq) <= room
      /\ \A j \in 1 .. Len(seq) : seq[j] \in Nat /\ seq[j] \in S
  BY LenProperties, ElementOfSeq DEF Lists
<1>2. Cardinality(S) \in Nat
  BY FS_CardinalityType
<1>3. IsFiniteSet(Initial(seq, Len(seq))) /\ Cardinality(Initial(seq, Len(seq))) = Len(seq)
  <2>1. Len(seq) \in 0 .. Len(seq)
    BY <1>1
  <2> QED  BY <2>1, InitialCounts
<1>4. Initial(seq, Len(seq)) \in SUBSET S
  BY <1>1 DEF Initial
<1>5. Len(seq) <= Cardinality(S)
  BY <1>3, <1>4, FS_Subset
<1>6. Len(seq) = room \/ Len(seq) = Cardinality(S)
  <2>1. Len(seq) # room => \A s \in S : s \in Initial(seq, Len(seq))
    BY DEF Lists, Initial
  <2>2. Len(seq) # room => S = Initial(seq, Len(seq))
    BY <1>4, <2>1
  <2> QED  BY <1>3, <2>2
<1>7. DOMAIN InOrder(S) = 1 .. Cardinality(S)
  BY DEF InOrder
<1>8. \A i \in S : IsFiniteSet(Below(S, i)) /\ Cardinality(Below(S, i)) \in Nat
  <2> TAKE i \in S
  <2>1. Below(S, i) \in SUBSET S
    BY DEF Below
  <2>2. IsFiniteSet(Below(S, i))
    BY <2>1, FS_Subset
  <2> QED  BY <2>2, FS_CardinalityType
<1>9. ASSUME NEW i \in S, NEW j \in S, i < j
      PROVE  Cardinality(Below(S, i)) # Cardinality(Below(S, j))
  <2>1. i \in Nat /\ j \in Nat
    OBVIOUS
  <2>2. \A m \in Below(S, i) : m \in Nat /\ m < i /\ m \in Below(S, j)
    BY <1>9, <2>1 DEF Below
  <2>3. Below(S, i) \in SUBSET Below(S, j)
    BY <2>2
  <2>4. i \in Below(S, j) /\ i \notin Below(S, i)
    BY <1>9, <2>1 DEF Below
  <2> QED  BY <1>8, <2>3, <2>4, FS_Subset
<1>10. ASSUME NEW k \in 1 .. Len(seq)
       PROVE  InOrder(S)[k] = seq[k]
  <2>1. Cardinality(Below(S, seq[k])) = k - 1
    <3>1. k - 1 \in 0 .. Len(seq)
      BY <1>1
    <3> QED  BY <3>1, BelowIsInitial, InitialCounts
  <2>2. seq[k] \in S /\ seq[k] \in Nat
    BY <1>1
  <2>3. ASSUME NEW i \in S, Cardinality(Below(S, i)) = k - 1
        PROVE  i = seq[k]
    <3>1. i \in Nat
      OBVIOUS
    <3>2. ~ i < seq[k] /\ ~ seq[k] < i
      BY <1>9, <2>1, <2>2, <2>3
    <3> QED  BY <2>2, <3>1, <3>2
  <2>4. (CHOOSE i \in S : Cardinality(Below(S, i)) = k - 1) = seq[k]
    BY <2>1, <2>2, <2>3
  <2>5. k \in 1 .. Cardinality(S)
    BY <1>1, <1>2, <1>5
  <2>6. InOrder(S)[k] = CHOOSE i \in S : Cardinality(Below(S, i)) = k - 1
    BY <2>5 DEF InOrder, Below
  <2> QED  BY <2>4, <2>6
<1> QED  BY <1>1, <1>2, <1>5, <1>6, <1>7, <1>10

-----------------------------------------------------------------------------
(* The words of the line and the strings in the buffer. *)

\* LineWords reads the line only.
QuotesOf(text) ==
  LET next(state, c) ==
        CASE state = "none" -> IF c \in Quotes THEN c ELSE "none"
          [] state = "'" -> IF c = "'" THEN "none" ELSE "'"
          [] state = "\"" -> IF c = "\"" THEN "none" ELSE IF c = "\\" THEN "escape" ELSE "\""
          [] state = "escape" -> "\""
      states[i \in 1 .. Len(text) + 1] ==
        IF i = 1 THEN "none" ELSE next(states[i - 1], text[i - 1])
  IN  states

InWordOf(text) == {i \in DOMAIN text : ~ (QuotesOf(text)[i] = "none" /\ text[i] \in Blanks)}
StartsOf(text) == {i \in InWordOf(text) : i - 1 \notin InWordOf(text)}
EndOf(text, i) ==
  CHOOSE n \in InWordOf(text) :
    n >= i /\ i .. n \subseteq InWordOf(text) /\ n + 1 \notin InWordOf(text)

WordsOf(text) ==
  [k \in DOMAIN InOrder(StartsOf(text)) |->
     SubSeq(text, InOrder(StartsOf(text))[k], EndOf(text, InOrder(StartsOf(text))[k]))]

\* A string reads the buffer only.
StringIn(buffer, start) ==
  LET end == CHOOSE n \in start .. LINE_CAPACITY :
        buffer[n] = NUL /\ \A m \in start .. n - 1 : buffer[m] # NUL
  IN  SubSeq(buffer, start, end - 1)

\* The arguments, before and after a step.
LEMMA WordsAreOfLine ==
  /\ QuoteStates = QuotesOf(line)
  /\ LineWords = WordsOf(line) /\ LineWords' = WordsOf(line')
  /\ Arguments = [k \in 1 .. argc |-> StringIn(lineBuffer, argvTable[k])]
  /\ Arguments' = [k \in 1 .. argc' |-> StringIn(lineBuffer', argvTable'[k])]
<1>1. QuoteStates = QuotesOf(line) /\ QuoteStates' = QuotesOf(line')
  BY DEF QuoteStates, QuotesOf
<1>2. LineWords = WordsOf(line)
  BY Zenon DEF LineWords, WordsOf, StartsOf, EndOf, InWordOf, QuoteStates, QuotesOf
<1>3. LineWords' = WordsOf(line')
  BY Zenon DEF LineWords, WordsOf, StartsOf, EndOf, InWordOf, QuoteStates, QuotesOf
<1>4. Arguments = [k \in 1 .. argc |-> StringIn(lineBuffer, argvTable[k])]
  BY DEF Arguments, StringAt, StringIn
<1>5. Arguments' = [k \in 1 .. argc' |-> StringIn(lineBuffer', argvTable'[k])]
  BY DEF Arguments, StringAt, StringIn
<1> QED  BY <1>1, <1>2, <1>3, <1>4, <1>5

\* The places are those where the words of the line start.
LEMMA PlacesAreStarts ==
  ASSUME EnteredLine
  PROVE  /\ StartsOf(line) = WordPlaces
         /\ \A i : i \in InWordOf(line) <=> i \in 1 .. Len(line) /\ ~ Cut(i)
<1>1. DOMAIN line = 1 .. Len(line) /\ Len(line) \in Nat
  BY LenProperties DEF EnteredLine
<1>2. \A i : i \in InWordOf(line) <=> i \in 1 .. Len(line) /\ ~ Cut(i)
  BY <1>1, WordsAreOfLine DEF InWordOf, Cut
<1>3. \A i \in 1 .. Len(line) : i - 1 \notin InWordOf(line) <=> (i # 1 => Cut(i - 1))
  <2> TAKE i \in 1 .. Len(line)
  <2>1. CASE i = 1
    <3>1. i - 1 \notin 1 .. Len(line)
      BY <1>1, <2>1
    <3> QED  BY <1>2, <2>1, <3>1
  <2>2. CASE i # 1
    <3>1. i - 1 \in 1 .. Len(line)
      BY <1>1, <2>2
    <3> QED  BY <1>2, <2>2, <3>1
  <2> QED  BY <2>1, <2>2
<1>4. StartsOf(line) = WordPlaces
  BY <1>2, <1>3 DEF StartsOf, WordPlaces
<1> QED  BY <1>2, <1>4

\* A word of the line ends where the scan ends.
LEMMA WordSpan ==
  ASSUME Terminated, EnteredLine, NEW s \in WordPlaces
  PROVE  /\ s \in 1 .. Len(line) /\ WordEnd(s) \in s + 1 .. Len(line) + 1
         /\ \A m \in s .. WordEnd(s) - 1 : m \in 1 .. Len(line) /\ ~ Cut(m)
         /\ WordEnd(s) # Len(line) + 1 => Cut(WordEnd(s))
         /\ EndOf(line, s) = WordEnd(s) - 1
<1> DEFINE n == Len(line)
           e == WordEnd(s)
<1>1. n \in Nat /\ n >= 1 /\ s \in 1 .. n /\ s \in 1 .. n + 1 /\ ~ Cut(s)
  <2>1. n \in Nat /\ n >= 1 /\ s \in 1 .. n /\ ~ Cut(s)
    BY LineNumbers DEF WordPlaces
  <2>2. s \in 1 .. n + 1
    BY <2>1
  <2> QED  BY <2>1, <2>2
<1>2. QuoteStates[s] = "none"
  <2>1. CASE s = 1
    BY <1>1, <2>1, QuotesFollow
  <2>2. CASE s # 1
    <3>1. Cut(s - 1) /\ (s - 1) + 1 = s
      BY <1>1, <2>2 DEF WordPlaces
    <3> QED  BY <3>1, BehindCut
  <2> QED  BY <2>1, <2>2
<1>3. FirstCut(s, e)
  BY <1>1, <1>2, WordEndsAtCut
<1> HIDE DEF e
<1>4. e \in s .. n + 1 /\ (e # n + 1 => Cut(e)) /\ \A m \in s .. e - 1 : ~ Cut(m)
  BY <1>3 DEF FirstCut
<1>5. e \in s + 1 .. n + 1
  <2>1. e # s
    BY <1>1, <1>4
  <2> QED  BY <1>1, <1>4, <2>1
<1>6. \A m \in s .. e - 1 : m \in 1 .. n /\ ~ Cut(m)
  <2> TAKE m \in s .. e - 1
  <2>1. m \in 1 .. n
    BY <1>1, <1>5
  <2> QED  BY <1>4, <2>1
<1> DEFINE W == InWordOf(line)
           IsLast(k) == k >= s /\ s .. k \subseteq W /\ k + 1 \notin W
<1>7. \A i : i \in W <=> i \in 1 .. n /\ ~ Cut(i)
  BY PlacesAreStarts
<1> HIDE DEF W
<1>8. e - 1 \in W /\ IsLast(e - 1)
  <2>1. e - 1 \in s .. e - 1 /\ (e - 1) + 1 = e /\ e - 1 >= s
    BY <1>1, <1>5
  <2>2. e \notin W
    <3>1. e \in 1 .. n => e # n + 1
      BY <1>1
    <3> QED  BY <1>4, <1>7, <3>1
  <2> QED  BY <1>6, <1>7, <2>1, <2>2
<1>9. ASSUME NEW k \in W, IsLast(k)
      PROVE  k = e - 1
  <2>1. k \in 1 .. n /\ k >= s /\ k \in Int /\ e \in Int
    BY <1>1, <1>5, <1>7, <1>9
  <2>2. CASE k > e - 1
    <3>1. e \in s .. k
      BY <1>1, <1>5, <2>1, <2>2
    <3>2. e \in W
      BY <1>9, <3>1
    <3>3. e # n + 1
      BY <1>1, <1>7, <3>2
    <3> QED  BY <1>4, <1>7, <3>2, <3>3
  <2>3. CASE k < e - 1
    <3>1. k + 1 \in s .. e - 1
      BY <1>1, <1>5, <2>1, <2>3
    <3> QED  BY <1>6, <1>7, <1>9, <3>1
  <2> QED  BY <2>1, <2>2, <2>3
<1>10. EndOf(line, s) = e - 1
  <2>1. EndOf(line, s) = CHOOSE k \in W : k >= s /\ s .. k \subseteq W /\ k + 1 \notin W
    BY DEF EndOf, W
  <2> QED  BY <1>8, <1>9, <2>1
<1> QED  BY <1>1, <1>4, <1>5, <1>6, <1>10 DEF e

\* In a buffer cut at the ends of words only, the string at the start of a word
\* whose end was cut is that word.
LEMMA WordCutOut ==
  ASSUME Terminated, EnteredLine, NEW cuts, \A e \in cuts : Cut(e) \/ e = Len(line) + 1,
         NEW s \in WordPlaces, WordEnd(s) \in cuts,
         NEW buffer, buffer = [i \in LineCells |-> IF i \in cuts THEN NUL ELSE lineBuffer[i]]
  PROVE  StringIn(buffer, s) = SubSeq(line, s, EndOf(line, s))
<1> DEFINE n == Len(line)
           e == WordEnd(s)
<1>1. /\ n \in Nat /\ LINE_CAPACITY \in Nat /\ \A i \in 1 .. n + 1 : i \in LineCells
      /\ \A i \in 1 .. n : line[i] \in Typed /\ line[i] # NUL /\ lineBuffer[i] = line[i]
  BY LineNumbers DEF EnteredLine
<1>2. /\ s \in 1 .. n /\ e \in s + 1 .. n + 1 /\ EndOf(line, s) = e - 1
      /\ \A m \in s .. e - 1 : m \in 1 .. n /\ ~ Cut(m)
  BY WordSpan
<1> HIDE DEF e
<1>3. \A m \in s .. e - 1 : buffer[m] = line[m] /\ buffer[m] # NUL
  <2> TAKE m \in s .. e - 1
  <2>1. m \in 1 .. n /\ ~ Cut(m) /\ m \in LineCells /\ m # n + 1
    <3>1. m \in 1 .. n /\ ~ Cut(m)
      BY <1>2
    <3>2. m \in 1 .. n + 1 /\ m # n + 1
      BY <1>1, <3>1
    <3> QED  BY <1>1, <3>1, <3>2
  <2>2. m \notin cuts
    BY <2>1
  <2> QED  BY <1>1, <2>1, <2>2
<1>4. buffer[e] = NUL /\ e \in s .. LINE_CAPACITY /\ e \in Int
  <2>1. e \in 1 .. n + 1 /\ e \in Int /\ e >= s
    BY <1>1, <1>2
  <2>2. e \in LineCells
    BY <1>1, <2>1
  <2>3. e \in cuts
    BY DEF e
  <2> QED  BY <1>2, <2>1, <2>2, <2>3 DEF LineCells
<1>5. ASSUME NEW k \in s .. LINE_CAPACITY, buffer[k] = NUL, \A m \in s .. k - 1 : buffer[m] # NUL
      PROVE  k = e
  <2>1. ~ k < e
    <3>1. k < e => k \in s .. e - 1
      BY <1>2, <1>4
    <3> QED  BY <1>3, <1>5, <3>1
  <2>2. ~ e < k
    <3>1. e < k => e \in s .. k - 1
      BY <1>2, <1>4
    <3> QED  BY <1>4, <1>5, <3>1
  <2> QED  BY <1>2, <1>4, <2>1, <2>2
<1>6. (CHOOSE k \in s .. LINE_CAPACITY :
         buffer[k] = NUL /\ \A m \in s .. k - 1 : buffer[m] # NUL) = e
  BY <1>3, <1>4, <1>5
<1>7. StringIn(buffer, s) = SubSeq(buffer, s, e - 1)
  BY <1>6 DEF StringIn
<1>8. SubSeq(buffer, s, e - 1) = SubSeq(line, s, e - 1)
  <2>1. /\ \A m \in s .. e - 1 : buffer[m] \in Typed
        /\ \A m \in s .. e - 1 : line[m] \in Typed
    BY <1>1, <1>2, <1>3
  <2>2. s \in Int /\ e - 1 \in Int
    BY <1>1, <1>2, <1>4
  <2>3. /\ SubSeq(buffer, s, e - 1) \in Seq(Typed)
        /\ Len(SubSeq(buffer, s, e - 1)) = IF s <= e - 1 THEN e - 1 - s + 1 ELSE 0
        /\ \A i \in 1 .. e - 1 - s + 1 : SubSeq(buffer, s, e - 1)[i] = buffer[s + i - 1]
    BY <2>1, <2>2, SubSeqProperties
  <2>4. /\ SubSeq(line, s, e - 1) \in Seq(Typed)
        /\ Len(SubSeq(line, s, e - 1)) = IF s <= e - 1 THEN e - 1 - s + 1 ELSE 0
        /\ \A i \in 1 .. e - 1 - s + 1 : SubSeq(line, s, e - 1)[i] = line[s + i - 1]
    BY <2>1, <2>2, SubSeqProperties
  <2>5. s <= e - 1
    BY <1>1, <1>2, <1>4
  <2>6. \A i \in 1 .. e - 1 - s + 1 : s + i - 1 \in s .. e - 1
    BY <2>2, <2>5
  <2>7. \A i \in 1 .. Len(SubSeq(buffer, s, e - 1)) :
          SubSeq(buffer, s, e - 1)[i] = SubSeq(line, s, e - 1)[i]
    <3> TAKE i \in 1 .. Len(SubSeq(buffer, s, e - 1))
    <3>1. i \in 1 .. e - 1 - s + 1
      BY <2>3, <2>5
    <3>2. buffer[s + i - 1] = line[s + i - 1]
      BY <1>3, <2>6, <3>1
    <3> QED  BY <2>3, <2>4, <3>1, <3>2
  <2> QED  BY <2>3, <2>4, <2>7, SeqEqual
<1> QED  BY <1>2, <1>7, <1>8

-----------------------------------------------------------------------------
(* The invariant. *)

WordsTypeOK ==
  /\ at \in {"reading", "entered", "dispatch"}
  /\ Terminated
  /\ index \in 0 .. LINE_CAPACITY - 1
  /\ argvTable \in [1 .. ARGV_CAPACITY -> 0 .. LINE_CAPACITY]
  /\ argc \in 0 .. ARGV_CAPACITY

\* The bytes of the line that is read are in front of index, and a line that was
\* entered is in the buffer until it is cut.
LineStored ==
  /\ at = "reading" => \A i \in 1 .. index : lineBuffer[i] \in Typed
  /\ at # "reading" => index = 0
  /\ at = "entered" => EnteredLine

\* The inductive invariant.
WordsInv == WordsTypeOK /\ LineStored /\ WordsAsQuoted

\* Nothing is read yet.
LEMMA WordsInvInit == WordsInit => WordsInv
<1> SUFFICES ASSUME WordsInit PROVE WordsInv
  OBVIOUS
<1>1. LINE_CAPACITY \in Nat /\ LINE_CAPACITY >= 2 /\ ARGV_CAPACITY \in Nat
  BY WordsAssumption
<1>2. Terminated
  BY <1>1 DEF WordsInit, Terminated, LineCells
<1>3. WordsTypeOK
  BY <1>1, <1>2 DEF WordsInit, WordsTypeOK
<1> QED  BY <1>3 DEF WordsInit, WordsInv, LineStored, WordsAsQuoted

\* A key changes bytes of the line only, or takes some back.
LEMMA KeysKeepInv ==
  ASSUME WordsInv, (\E c \in Typed : StoreByte(c)) \/ (\E n \in 0 .. LINE_CAPACITY : EraseTo(n))
  PROVE  WordsInv'
<1>1. /\ at = "reading" /\ at' = at /\ argvTable' = argvTable /\ argc' = argc
      /\ LINE_CAPACITY \in Nat /\ LINE_CAPACITY >= 2 /\ index \in 0 .. LINE_CAPACITY - 1
      /\ lineBuffer \in [LineCells -> Typed \cup {NUL}] /\ lineBuffer[LINE_CAPACITY] = NUL
      /\ \A i \in 1 .. index : lineBuffer[i] \in Typed
  BY WordsAssumption DEF WordsInv, WordsTypeOK, LineStored, Terminated, StoreByte, EraseTo
<1>2. Terminated' /\ index' \in 0 .. LINE_CAPACITY - 1 /\ \A i \in 1 .. index' : lineBuffer'[i] \in Typed
  <2>1. CASE \E c \in Typed : StoreByte(c)
    <3>1. PICK c \in Typed : StoreByte(c)
      BY <2>1
    <3>2. /\ index < LINE_CAPACITY - 1 /\ index' = index + 1
          /\ lineBuffer' = [lineBuffer EXCEPT ![index + 1] = c]
      BY <3>1 DEF StoreByte
    <3>3. index + 1 \in LineCells /\ LINE_CAPACITY # index + 1 /\ LINE_CAPACITY \in LineCells
          /\ \A i \in 1 .. index + 1 : i \in LineCells
          /\ \A k \in 1 .. index + 1 : k # index + 1 => k \in 1 .. index
      BY <1>1, <3>2 DEF LineCells
    <3>4. Terminated'
      BY <1>1, <3>2, <3>3 DEF Terminated
    <3>5. \A i \in 1 .. index + 1 : lineBuffer'[i] = IF i = index + 1 THEN c ELSE lineBuffer[i]
      BY <1>1, <3>2, <3>3
    <3>6. \A i \in 1 .. index + 1 : lineBuffer'[i] \in Typed
      BY <1>1, <3>3, <3>5
    <3> QED  BY <1>1, <3>2, <3>4, <3>6
  <2>2. CASE \E n \in 0 .. LINE_CAPACITY : EraseTo(n)
    <3>1. PICK n \in 0 .. LINE_CAPACITY : EraseTo(n)
      BY <2>2
    <3>2. n < index /\ index' = n /\ lineBuffer' = lineBuffer
      BY <3>1 DEF EraseTo
    <3>3. \A i \in 1 .. n : i \in 1 .. index
      BY <1>1, <3>2
    <3> QED  BY <1>1, <3>2, <3>3 DEF Terminated
  <2> QED  BY <2>1, <2>2
<1>3. WordsTypeOK'
  BY <1>1, <1>2 DEF WordsInv, WordsTypeOK
<1>4. LineStored' /\ WordsAsQuoted'
  BY <1>1, <1>2 DEF LineStored, WordsAsQuoted
<1> QED  BY <1>3, <1>4 DEF WordsInv

\* Enter terminates the line.
LEMMA EnterKeepsInv ==
  ASSUME WordsInv, EnterLine
  PROVE  WordsInv'
<1>1. /\ at = "reading" /\ at' = "entered" /\ argvTable' = argvTable /\ argc' = argc /\ index' = 0
      /\ LINE_CAPACITY \in Nat /\ LINE_CAPACITY >= 2 /\ index \in 1 .. LINE_CAPACITY - 1
      /\ lineBuffer \in [LineCells -> Typed \cup {NUL}] /\ lineBuffer[LINE_CAPACITY] = NUL
      /\ \A i \in 1 .. index : lineBuffer[i] \in Typed
      /\ lineBuffer' = [lineBuffer EXCEPT ![index + 1] = NUL]
      /\ line' = SubSeq(lineBuffer, 1, index)
  BY WordsAssumption DEF WordsInv, WordsTypeOK, LineStored, Terminated, EnterLine
<1>2. /\ index + 1 \in LineCells /\ LINE_CAPACITY \in LineCells
      /\ \A i \in 1 .. index : i \in LineCells /\ i # index + 1
  BY <1>1 DEF LineCells
<1>3. Terminated' /\ lineBuffer'[index + 1] = NUL
  BY <1>1, <1>2 DEF Terminated
<1>4. \A i \in 1 .. index : lineBuffer'[i] = lineBuffer[i]
  BY <1>1, <1>2
<1>5. line' \in Seq(Typed) /\ Len(line') = index /\ \A i \in 1 .. index : line'[i] = lineBuffer[i]
  <2>1. /\ line' \in Seq(Typed)
        /\ Len(line') = IF 1 <= index THEN index - 1 + 1 ELSE 0
        /\ \A i \in 1 .. index - 1 + 1 : line'[i] = lineBuffer[1 + i - 1]
    BY <1>1, SubSeqProperties
  <2>2. index - 1 + 1 = index /\ 1 <= index /\ \A i \in 1 .. index : 1 + i - 1 = i
    BY <1>1
  <2> QED  BY <2>1, <2>2
<1>6. EnteredLine'
  <2>1. \A i \in 1 .. index : lineBuffer'[i] = line'[i]
    BY <1>4, <1>5
  <2> QED  BY <1>1, <1>3, <1>5, <2>1 DEF EnteredLine
<1>7. WordsTypeOK'
  BY <1>1, <1>3 DEF WordsInv, WordsTypeOK
<1>8. LineStored' /\ WordsAsQuoted'
  BY <1>1, <1>6 DEF LineStored, WordsAsQuoted
<1> QED  BY <1>7, <1>8 DEF WordsInv

\* tokenize_line leaves the first words of the line, each terminated.
LEMMA TokenizeKeepsInv ==
  ASSUME WordsInv, TokenizeLine
  PROVE  WordsInv'
<1> DEFINE starts == WordStarts
           m == Len(starts)
           n == Len(line)
           cuts == {WordEnd(start) : start \in ToSet(starts)}
           buffer == [i \in LineCells |-> IF i \in cuts THEN NUL ELSE lineBuffer[i]]
<1>1. Terminated /\ EnteredLine /\ index = 0
  BY DEF WordsInv, WordsTypeOK, LineStored, TokenizeLine
<1>2. /\ at' = "dispatch" /\ index' = index /\ line' = line /\ argc' = m /\ lineBuffer' = buffer
      /\ argvTable' = [k \in DOMAIN argvTable |-> IF k <= m THEN starts[k] ELSE argvTable[k]]
  BY DEF TokenizeLine
<1>3. Lists(starts, WordPlaces, ARGV_CAPACITY)
  BY <1>1, WordStartsListed
<1>4. ARGV_CAPACITY \in Nat /\ LINE_CAPACITY \in Nat /\ LINE_CAPACITY >= 2
  BY WordsAssumption
<1>5. /\ n \in Nat /\ \A i \in 1 .. n + 1 : i \in LineCells
  BY <1>1, LineNumbers
<1> HIDE DEF starts
<1>6. /\ m \in Nat /\ m <= ARGV_CAPACITY /\ DOMAIN starts = 1 .. m
      /\ \A k \in 1 .. m : starts[k] \in WordPlaces
  BY <1>3, LenProperties DEF Lists
<1>7. ToSet(starts) = {starts[k] : k \in 1 .. m}
  BY <1>6 DEF ToSet
<1>8. \A k \in 1 .. m : WordEnd(starts[k]) \in cuts
  BY <1>7
<1>9. \A e \in cuts : Cut(e) \/ e = n + 1
  <2> TAKE e \in cuts
  <2>1. PICK s \in ToSet(starts) : e = WordEnd(s)
    OBVIOUS
  <2>2. s \in WordPlaces
    BY <1>6, <1>7
  <2> QED  BY <1>1, <2>1, <2>2, WordSpan
<1> HIDE DEF cuts, m, n
<1>10. /\ WordPlaces \in SUBSET Nat /\ IsFiniteSet(WordPlaces)
       /\ WordPlaces \subseteq 0 .. LINE_CAPACITY
  <2>1. WordPlaces \in SUBSET (1 .. n)
    BY DEF WordPlaces, n
  <2>2. \A i \in 1 .. n : i \in Nat /\ i \in 0 .. LINE_CAPACITY
    <3> TAKE i \in 1 .. n
    <3>1. i \in 1 .. n + 1
      BY <1>5
    <3>2. i \in LineCells
      BY <1>5, <3>1
    <3> QED  BY <1>4, <3>2 DEF LineCells
  <2>3. IsFiniteSet(1 .. n)
    BY <1>5, FS_Interval
  <2>4. IsFiniteSet(WordPlaces)
    BY <2>1, <2>3, FS_Subset
  <2> QED  BY <2>1, <2>2, <2>4
<1> DEFINE order == InOrder(WordPlaces)
           count == Cardinality(WordPlaces)
<1>11. /\ count \in Nat /\ m <= count /\ (m = ARGV_CAPACITY \/ m = count)
       /\ DOMAIN order = 1 .. count
       /\ \A k \in 1 .. m : order[k] = starts[k]
  BY <1>3, <1>10, InOrderListed DEF m
<1> HIDE DEF order, count
<1> DEFINE word(k) == SubSeq(line, order[k], EndOf(line, order[k]))
<1>12. LineWords' = [k \in 1 .. count |-> word(k)]
  <2>1. LineWords' = WordsOf(line)
    BY <1>2, WordsAreOfLine
  <2>2. StartsOf(line) = WordPlaces
    BY <1>1, PlacesAreStarts
  <2> QED  BY <1>11, <2>1, <2>2 DEF WordsOf, order
<1>13. ASSUME NEW k \in 1 .. m
       PROVE  StringIn(lineBuffer', argvTable'[k]) = word(k)
  <2>1. k \in DOMAIN argvTable /\ k <= m
    BY <1>4, <1>6 DEF WordsInv, WordsTypeOK
  <2>2. argvTable'[k] = starts[k]
    BY <1>2, <2>1
  <2>3. starts[k] \in WordPlaces /\ WordEnd(starts[k]) \in cuts
    BY <1>6, <1>8
  <2>4. lineBuffer' = [i \in LineCells |-> IF i \in cuts THEN NUL ELSE lineBuffer[i]]
    BY <1>2
  <2>5. \A e \in cuts : Cut(e) \/ e = Len(line) + 1
    BY <1>9 DEF n
  <2>6. StringIn(lineBuffer', starts[k]) = SubSeq(line, starts[k], EndOf(line, starts[k]))
    BY <1>1, <2>3, <2>4, <2>5, WordCutOut
  <2> QED  BY <1>11, <2>2, <2>6
<1>14. Arguments' = [k \in 1 .. m |-> word(k)]
  <2>1. Arguments' = [k \in 1 .. m |-> StringIn(lineBuffer', argvTable'[k])]
    BY <1>2, WordsAreOfLine
  <2> HIDE DEF word
  <2> QED  BY <1>13, <2>1
<1> DEFINE S == {word(k) : k \in 1 .. count}
<1>15. \A k \in 1 .. count : word(k) \in S
  OBVIOUS
<1> HIDE DEF word, S
<1>16. LineWords' \in Seq(S) /\ Len(LineWords') = count /\ \A k \in 1 .. count : LineWords'[k] = word(k)
  <2>1. LineWords' \in [1 .. count -> S] /\ \A k \in 1 .. count : LineWords'[k] = word(k)
    BY <1>12, <1>15
  <2> QED  BY <1>11, <2>1, IsASeq, LenProperties
<1>17. Arguments' \in Seq(S) /\ Len(Arguments') = m /\ \A k \in 1 .. m : Arguments'[k] = word(k)
  <2>1. \A k \in 1 .. m : k \in 1 .. count
    BY <1>6, <1>11
  <2>2. Arguments' \in [1 .. m -> S] /\ \A k \in 1 .. m : Arguments'[k] = word(k)
    BY <1>14, <1>15, <2>1
  <2> QED  BY <1>6, <2>2, IsASeq, LenProperties
<1>18. m = IF Len(LineWords') < ARGV_CAPACITY THEN Len(LineWords') ELSE ARGV_CAPACITY
  BY <1>4, <1>6, <1>11, <1>16
<1>19. Arguments' = SubSeq(LineWords', 1, m)
  <2> DEFINE first == SubSeq(LineWords', 1, m)
  <2>1. \A k \in 1 .. m : LineWords'[k] = word(k) /\ LineWords'[k] \in S
    <3>1. \A k \in 1 .. m : k \in 1 .. count
      BY <1>6, <1>11
    <3> QED  BY <1>15, <1>16, <3>1
  <2>2. /\ first \in Seq(S) /\ Len(first) = IF 1 <= m THEN m - 1 + 1 ELSE 0
        /\ \A k \in 1 .. m - 1 + 1 : first[k] = LineWords'[1 + k - 1]
    BY <1>6, <2>1, SubSeqProperties
  <2> HIDE DEF first
  <2>3. m - 1 + 1 = m /\ (~ 1 <= m => m = 0) /\ \A k \in 1 .. m : 1 + k - 1 = k
    BY <1>6
  <2>4. Len(first) = m /\ \A k \in 1 .. m : first[k] = LineWords'[k]
    BY <2>2, <2>3
  <2>5. \A k \in 1 .. Len(Arguments') : Arguments'[k] = first[k]
    BY <1>17, <2>1, <2>4
  <2>6. Arguments' = first
    BY <1>17, <2>2, <2>4, <2>5, SeqEqual
  <2> QED  BY <2>6 DEF first
<1>20. WordsAsQuoted'
  BY <1>18, <1>19 DEF WordsAsQuoted
<1>21. Terminated'
  <2>1. lineBuffer \in [LineCells -> Typed \cup {NUL}] /\ lineBuffer[LINE_CAPACITY] = NUL
    BY <1>1 DEF Terminated
  <2>2. LINE_CAPACITY \in LineCells
    BY WordsAssumption DEF LineCells
  <2>3. lineBuffer' = [i \in LineCells |-> IF i \in cuts THEN NUL ELSE lineBuffer[i]]
    BY <1>2
  <2>4. lineBuffer'[LINE_CAPACITY] = NUL
    BY <2>1, <2>2, <2>3
  <2>5. lineBuffer' \in [LineCells -> Typed \cup {NUL}]
    BY <2>1, <2>3
  <2> QED  BY <2>4, <2>5 DEF Terminated
<1>22. argvTable' \in [1 .. ARGV_CAPACITY -> 0 .. LINE_CAPACITY]
  <2>1. argvTable \in [1 .. ARGV_CAPACITY -> 0 .. LINE_CAPACITY]
    BY DEF WordsInv, WordsTypeOK
  <2>2. \A k \in 1 .. ARGV_CAPACITY : k <= m => starts[k] \in 0 .. LINE_CAPACITY
    <3> TAKE k \in 1 .. ARGV_CAPACITY
    <3>1. k <= m => k \in 1 .. m
      BY <1>4, <1>6
    <3> QED  BY <1>6, <1>10, <3>1
  <2> QED  BY <1>2, <2>1, <2>2
<1>23. WordsTypeOK' /\ LineStored'
  <2>1. at' = "dispatch" /\ index' = 0 /\ argc' \in 0 .. ARGV_CAPACITY /\ 0 \in 0 .. LINE_CAPACITY - 1
    BY <1>1, <1>2, <1>4, <1>6
  <2> QED  BY <1>21, <1>22, <2>1 DEF WordsTypeOK, LineStored
<1> QED  BY <1>20, <1>23 DEF WordsInv

\* Every step keeps it.
LEMMA WordsInvNext == WordsInv /\ [WordsNext]_wordsVars => WordsInv'
<1> SUFFICES ASSUME WordsInv, [WordsNext]_wordsVars PROVE WordsInv'
  OBVIOUS
<1>1. CASE Dispatch
  <2>1. /\ at' = "reading" /\ index' = index /\ index = 0 /\ lineBuffer' = lineBuffer
        /\ argvTable' = argvTable /\ argc' = 0
    BY <1>1 DEF Dispatch, WordsInv, LineStored
  <2>2. Terminated' /\ 0 \in 0 .. ARGV_CAPACITY
    BY <2>1, WordsAssumption DEF WordsInv, WordsTypeOK, Terminated
  <2> QED  BY <2>1, <2>2 DEF WordsInv, WordsTypeOK, LineStored, WordsAsQuoted
<1>2. CASE UNCHANGED wordsVars
  <2>1. /\ at' = at /\ lineBuffer' = lineBuffer /\ index' = index /\ argvTable' = argvTable
        /\ argc' = argc /\ line' = line
    BY <1>2 DEF wordsVars
  <2>2. Terminated' /\ EnteredLine' = EnteredLine
    BY <2>1 DEF WordsInv, WordsTypeOK, Terminated, EnteredLine
  <2>3. Arguments' = Arguments /\ LineWords' = LineWords
    BY <2>1, WordsAreOfLine
  <2>4. WordsAsQuoted'
    BY <2>1, <2>3 DEF WordsInv, WordsAsQuoted
  <2> QED  BY <2>1, <2>2, <2>4 DEF WordsInv, WordsTypeOK, LineStored
<1> QED  BY <1>1, <1>2, KeysKeepInv, EnterKeepsInv, TokenizeKeepsInv DEF WordsNext

\* Every behaviour of the loop keeps the invariant, for every capacity of the
\* line and of the table.
THEOREM WordsInvariance == WordsSpec => []WordsInv
<1> QED  BY WordsInvInit, WordsInvNext, PTL DEF WordsSpec

\* The last cell of line_buffer is its terminator at all times, and no word
\* starts outside of the buffer.
THEOREM WordsTypeCorrect == WordsSpec => []WordsTypeOK
<1>1. WordsInv => WordsTypeOK
  BY DEF WordsInv
<1> QED  BY <1>1, WordsInvariance, PTL

\* The arguments of a command are the words of its line, cut at the blanks that
\* no quotes enclose, the first ones if there are more than the table holds.
THEOREM ArgumentsAreWords == WordsSpec => []WordsAsQuoted
<1>1. WordsInv => WordsAsQuoted
  BY DEF WordsInv
<1> QED  BY <1>1, WordsInvariance, PTL

=============================================================================
