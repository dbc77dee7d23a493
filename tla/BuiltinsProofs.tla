---------------------------- MODULE BuiltinsProofs ----------------------------
(***************************************************************************)
(* Proofs about what the parser and the builtins of the Rust shells give:   *)
(* whatever the line, the words of its commands are texts, and so is all    *)
(* that a builtin writes; and every text can be written as a word.          *)
(***************************************************************************)
EXTENDS Builtins, SequenceTheorems, WellFoundedInduction, TLAPS

-----------------------------------------------------------------------------
(* Recursion. *)

\* A set of natural numbers has a smallest member.
LEMMA Smallest ==
  ASSUME NEW T, T \subseteq Nat, T # {}
  PROVE  \E x \in T : \A y \in T : x <= y
<1> DEFINE R == {pair \in Nat \X Nat : pair[1] < pair[2]}
<1>1. IsWellFoundedOn(R, Nat)
  BY NatLessThanWellFounded DEF OpToRel
<1>2. \A x, y \in Nat : <<y, x>> \notin R => x <= y
  OBVIOUS
<1> HIDE DEF R
<1>3. PICK x \in T : \A y \in T : ~ (<<y, x>> \in R)
  BY <1>1, WFMin
<1> QED  BY <1>2, <1>3

\* A set of numbers up to n has a largest.
LEMMA Largest ==
  ASSUME NEW n \in Nat, NEW T, T \subseteq 0 .. n, T # {}
  PROVE  \E x \in T : \A y \in T : x >= y
<1> DEFINE above == {n - i : i \in T}
<1>1. above \subseteq Nat /\ above # {}
  <2>1. \A i \in T : i \in 0 .. n
    OBVIOUS
  <2>2. \A i \in 0 .. n : n - i \in Nat
    OBVIOUS
  <2>3. \A a \in above : a \in Nat
    BY <2>1, <2>2
  <2> QED  BY <2>3
<1>2. PICK a \in above : \A b \in above : a <= b
  <2> HIDE DEF above
  <2> QED  BY <1>1, Smallest
<1>3. PICK i \in T : a = n - i
  BY <1>2
<1>4. \A k \in T : i >= k
  <2>1. \A k \in T : n - k \in above /\ k \in Nat
    OBVIOUS
  <2> HIDE DEF above
  <2> QED  BY <1>2, <1>3, <2>1
<1> QED  BY <1>3, <1>4

\* What holds of a place if it holds of all places in front of it holds
\* everywhere.
LEMMA FromTheFront ==
  ASSUME NEW n \in Nat, NEW Good,
         \A i \in 0 .. n : (\A j \in 0 .. i - 1 : j \in Good) => i \in Good
  PROVE  \A i \in 0 .. n : i \in Good
<1> DEFINE Bad == {i \in 0 .. n : i \notin Good}
<1>1. ASSUME Bad # {} PROVE FALSE
  <2>1. PICK i \in Bad : \A y \in Bad : i <= y
    <3>1. Bad \subseteq Nat
      OBVIOUS
    <3> HIDE DEF Bad
    <3> QED  BY <1>1, <3>1, Smallest
  <2>2. \A j \in 0 .. i - 1 : j \in 0 .. n /\ ~ i <= j
    OBVIOUS
  <2>3. \A j \in 0 .. i - 1 : j \in Good
    BY <2>1, <2>2
  <2> QED  BY <2>3
<1> QED  BY <1>1

\* And what holds of a place if it holds of all places behind it.
LEMMA FromTheEnd ==
  ASSUME NEW n \in Nat, NEW Good,
         \A i \in 1 .. n : (\A j \in i + 1 .. n : j \in Good) => i \in Good
  PROVE  \A i \in 1 .. n : i \in Good
<1> DEFINE Late == {d \in 0 .. n : n - d \in 1 .. n => n - d \in Good}
<1>1. ASSUME NEW d \in 0 .. n, \A e \in 0 .. d - 1 : e \in Late
      PROVE  d \in Late
  <2> SUFFICES ASSUME n - d \in 1 .. n PROVE n - d \in Good
    OBVIOUS
  <2>1. ASSUME NEW j \in (n - d) + 1 .. n PROVE j \in Good
    <3>1. n - j \in 0 .. d - 1 /\ n - (n - j) = j /\ j \in 1 .. n
      OBVIOUS
    <3>2. n - j \in Late
      BY <1>1, <3>1
    <3> QED  BY <3>1, <3>2
  <2> QED  BY <2>1
<1>2. \A d \in 0 .. n : d \in Late
  <2> HIDE DEF Late
  <2> QED  BY <1>1, FromTheFront
<1>3. \A i \in 1 .. n : n - i \in 0 .. n /\ n - (n - i) = i
  OBVIOUS
<1> QED  BY <1>2, <1>3

\* S takes a function to one whose value at each place is computed from those
\* at places of a lower rank.
FromLower(D, rank, V, S) ==
  /\ S \in [[D -> V] -> [D -> V]]
  /\ \A f, g \in [D -> V] : \A i \in D :
       (\A j \in D : rank[j] < rank[i] => f[j] = g[j]) => S[f][i] = S[g][i]

Repeats(D, V, S) == \E f \in [D -> V] : f = S[f]

\* There is a function that S leaves as it is.
LEMMA Recursion ==
  ASSUME NEW n \in Nat, NEW D, NEW rank \in [D -> 0 .. n], NEW V, V # {},
         NEW S, FromLower(D, rank, V, S)
  PROVE  Repeats(D, V, S)
<1> DEFINE F == [D -> V]
           Right(f, k) == \A i \in D : rank[i] < k => f[i] = S[f][i]
           Good == {k \in 0 .. n + 1 : \E f \in F : Right(f, k)}
<1>1. \A f \in F : S[f] \in F
  BY DEF FromLower
<1>2. ASSUME NEW k \in 0 .. n + 1, \A j \in 0 .. k - 1 : j \in Good
      PROVE  k \in Good
  <2>1. CASE k = 0
    <3>1. PICK v : v \in V
      OBVIOUS
    <3>2. [i \in D |-> v] \in F
      BY <3>1
    <3>3. \A i \in D : ~ rank[i] < 0
      OBVIOUS
    <3> QED  BY <2>1, <3>2, <3>3
  <2>2. CASE k # 0
    <3>1. k - 1 \in 0 .. k - 1
      BY <2>2
    <3>2. k - 1 \in Good
      <4> HIDE DEF Good
      <4> QED  BY <1>2, <3>1
    <3>3. PICK g \in F : Right(g, k - 1)
      BY <3>2
    <3> DEFINE f == S[g]
    <3>4. f \in F
      BY <1>1
    <3>5. \A i \in D : rank[i] < k - 1 => f[i] = g[i]
      BY <3>3
    <3>6. ASSUME NEW i \in D, rank[i] < k
          PROVE  f[i] = S[f][i]
      <4>1. \A j \in D : rank[j] < rank[i] => rank[j] < k - 1
        BY <3>6
      <4>2. \A j \in D : rank[j] < rank[i] => f[j] = g[j]
        BY <3>5, <4>1
      <4> HIDE DEF f
      <4>3. S[f][i] = S[g][i]
        BY <3>4, <4>2 DEF FromLower
      <4> QED  BY <4>3 DEF f
    <3>7. Right(f, k)
      BY <3>6
    <3> QED  BY <3>4, <3>7
  <2> QED  BY <2>1, <2>2
<1>3. \A k \in 0 .. n + 1 : k \in Good
  <2> HIDE DEF Good
  <2> QED  BY <1>2, FromTheFront
<1>4. PICK f \in F : Right(f, n + 1)
  <2>1. n + 1 \in Good
    <3>1. n + 1 \in 0 .. n + 1
      OBVIOUS
    <3> HIDE DEF Good
    <3> QED  BY <1>3, <3>1
  <2> QED  BY <2>1
<1>5. \A i \in D : f[i] = S[f][i]
  <2>1. \A i \in D : rank[i] < n + 1
    OBVIOUS
  <2> QED  BY <1>4, <2>1
<1>6. S[f] \in F
  BY <1>1
<1>7. f = S[f]
  BY <1>5, <1>6
<1> QED  BY <1>7 DEF Repeats

\* S computes values from those behind them.
FromLater(n, V, S) ==
  /\ S \in [[1 .. n -> V] -> [1 .. n -> V]]
  /\ \A f, g \in [1 .. n -> V] : \A i \in 1 .. n :
       (\A j \in i + 1 .. n : f[j] = g[j]) => S[f][i] = S[g][i]

\* Recursion towards the end.
LEMMA RecursionToTheEnd ==
  ASSUME NEW n \in Nat, NEW V, V # {}, NEW S, FromLater(n, V, S)
  PROVE  Repeats(1 .. n, V, S)
<1> DEFINE D == 1 .. n
           rank == [i \in D |-> n - i]
<1>1. rank \in [D -> 0 .. n] /\ \A i \in D : \A j \in i + 1 .. n : j \in D /\ rank[j] < rank[i]
  OBVIOUS
<1> HIDE DEF rank
<1>2. FromLower(D, rank, V, S)
  <2>1. ASSUME NEW f \in [D -> V], NEW g \in [D -> V], NEW i \in D,
               \A j \in D : rank[j] < rank[i] => f[j] = g[j]
        PROVE  S[f][i] = S[g][i]
    <3>1. \A j \in i + 1 .. n : f[j] = g[j]
      BY <1>1, <2>1
    <3> QED  BY <3>1 DEF FromLater
  <2> QED  BY <2>1 DEF FromLater, FromLower
<1> HIDE DEF D
<1> QED  BY <1>1, <1>2, Recursion DEF D

\* S computes values from those in front of them.
FromEarlier(n, V, S) ==
  /\ S \in [[0 .. n -> V] -> [0 .. n -> V]]
  /\ \A f, g \in [0 .. n -> V] : \A i \in 0 .. n :
       (\A j \in 0 .. i - 1 : f[j] = g[j]) => S[f][i] = S[g][i]

\* Recursion towards the front.
LEMMA RecursionToTheFront ==
  ASSUME NEW n \in Nat, NEW V, V # {}, NEW S, FromEarlier(n, V, S)
  PROVE  Repeats(0 .. n, V, S)
<1> DEFINE D == 0 .. n
           rank == [i \in D |-> i]
<1>1. rank \in [D -> 0 .. n] /\ \A i \in D : \A j \in 0 .. i - 1 : j \in D /\ rank[j] < rank[i]
  OBVIOUS
<1> HIDE DEF rank
<1>2. FromLower(D, rank, V, S)
  <2>1. ASSUME NEW f \in [D -> V], NEW g \in [D -> V], NEW i \in D,
               \A j \in D : rank[j] < rank[i] => f[j] = g[j]
        PROVE  S[f][i] = S[g][i]
    <3>1. \A j \in 0 .. i - 1 : f[j] = g[j]
      BY <1>1, <2>1
    <3> QED  BY <3>1 DEF FromEarlier
  <2> QED  BY <2>1 DEF FromEarlier, FromLower
<1> HIDE DEF D
<1> QED  BY <1>1, <1>2, Recursion DEF D

-----------------------------------------------------------------------------
(* Words. *)

Texts == Seq(STRING)
Modes == {"plain"} \cup Quotes

Stop(i) == [text |-> << >>, next |-> i, error |-> "none"]
Fail(line, error) == [text |-> << >>, next |-> Len(line) + 1, error |-> error]
Before(text, rest) == [rest EXCEPT !.text = text \o @]

\* One step of ReadWord.
ModeStep(line, scan, i, mode) ==
  CASE i = Len(line) + 1 ->
         IF mode = "plain" THEN Stop(i) ELSE Fail(line, Unterminated(mode))
    [] i < Len(line) + 1 /\ mode = "plain" /\ line[i] \in EndsWord -> Stop(i)
    [] i < Len(line) + 1 /\ mode = "plain" /\ line[i] \in Quotes -> scan[i + 1][line[i]]
    [] i < Len(line) + 1 /\ mode = line[i] -> scan[i + 1]["plain"]
    [] i < Len(line) + 1 /\ Escapes(mode) /\ line[i] = "\\" ->
         IF i + 1 = Len(line) + 1 THEN Fail(line, Unfinished(mode))
         ELSE Before(IF mode = "plain" THEN <<line[i + 1]>>
                     ELSE Unescaped(line[i + 1]), scan[i + 2][mode])
    [] OTHER -> Before(<<line[i]>>, scan[i + 1][mode])

WordStep(line, scan, i) == [mode \in Modes |-> ModeStep(line, scan, i, mode)]

Scans(line, f) == f = [i \in 1 .. Len(line) + 1 |-> WordStep(line, f, i)]

\* ReadWord is a function of that kind, if there is one.
LEMMA ReadWordUnfolds ==
  ASSUME NEW line, NEW start
  PROVE  ReadWord(line, start) = (CHOOSE f : Scans(line, f))[start]["plain"]
BY Zenon DEF ReadWord, Scans, WordStep, ModeStep, Modes, Stop, Fail, Before

\* What the rest of a word may be that does not end in front of low.
WordFrom(line, low) == [text : Texts, next : low .. Len(line) + 1, error : STRING]
ScanFrom(line, low) == [Modes -> WordFrom(line, low)]

\* Texts are put in front of a text.
LEMMA TextsJoined ==
  /\ << >> \in Texts
  /\ \A c \in STRING : <<c>> \in Texts
  /\ \A a, b \in Texts : a \o b \in Texts
<1>1. ASSUME NEW S
      PROVE  /\ << >> \in Seq(S)
             /\ \A c \in S : <<c>> \in Seq(S)
             /\ \A a, b \in Seq(S) : a \o b \in Seq(S)
  BY EmptySeq, ConcatProperties
<1> QED  BY <1>1 DEF Texts

\* Sequences of a few members.
LEMMA ShortSequences ==
  ASSUME NEW S
  PROVE  /\ \A a \in S : <<a>> \in Seq(S)
         /\ \A a, b \in S : <<a, b>> \in Seq(S)
         /\ \A a, b, c \in S : <<a, b, c>> \in Seq(S)
OBVIOUS

\* What a backslash stands for is a text.
LEMMA UnescapedType ==
  ASSUME NEW c \in STRING
  PROVE  Unescaped(c) \in Texts
<1>1. {"\\", "\n", "\t", "\r"} \subseteq STRING
  BY StringAssumption DEF Literals
<1>2. \A a, b \in STRING : <<a>> \in Texts /\ <<a, b>> \in Texts
  BY ShortSequences DEF Texts
<1>3. Unescaped(c) \in {<<c>>, <<"\n">>, <<"\t">>, <<"\r">>, <<"\\", c>>}
  BY DEF Unescaped
<1>4. <<"\n">> \in Texts /\ <<"\t">> \in Texts /\ <<"\r">> \in Texts /\ <<"\\", c>> \in Texts
  BY <1>1, <1>2
<1> QED  BY <1>2, <1>3, <1>4

\* The characters of a line.
LEMMA Characters ==
  ASSUME NEW line \in Texts
  PROVE  /\ Len(line) \in Nat /\ DOMAIN line = 1 .. Len(line)
         /\ \A i \in 1 .. Len(line) : line[i] \in STRING
BY LenProperties DEF Texts

\* A word with a text in front.
LEMMA BeforeType ==
  ASSUME NEW line, NEW low, NEW rest \in WordFrom(line, low), NEW text \in Texts
  PROVE  Before(text, rest) \in WordFrom(line, low)
<1>1. rest.text \in Texts
  BY DEF WordFrom
<1>2. text \o rest.text \in Texts
  BY <1>1, TextsJoined
<1>3. Before(text, rest) = [rest EXCEPT !.text = text \o rest.text]
  BY DEF Before
<1> DEFINE joined == text \o rest.text
<1> HIDE DEF joined
<1>4. [rest EXCEPT !.text = joined] \in WordFrom(line, low)
  BY <1>2 DEF WordFrom, joined
<1> QED  BY <1>3, <1>4 DEF joined

\* The end of a word, and its failure at the end of the line.
LEMMA WordEnds ==
  ASSUME NEW line \in Texts, NEW low \in Nat, low <= Len(line) + 1
  PROVE  /\ \A i \in low .. Len(line) + 1 : Stop(i) \in WordFrom(line, low)
         /\ \A error \in STRING : Fail(line, error) \in WordFrom(line, low)
<1>1. << >> \in Texts /\ "none" \in STRING /\ Len(line) \in Nat
  BY TextsJoined, Characters, StringAssumption DEF Literals
<1>2. Len(line) + 1 \in low .. Len(line) + 1
  BY <1>1
<1> QED  BY <1>1, <1>2 DEF WordFrom, Stop, Fail

\* A step of ReadWord gives a word, and one that ends behind a character that
\* does not end it.
LEMMA ModeStepType ==
  ASSUME NEW line \in Texts, NEW i \in 1 .. Len(line) + 1, NEW mode \in Modes,
         NEW low \in Nat,
         low <= i \/ (low = i + 1 /\ i <= Len(line) /\ mode = "plain" /\ line[i] \notin EndsWord),
         NEW scan, \A j \in i + 1 .. Len(line) + 1 : scan[j] \in ScanFrom(line, low)
  PROVE  ModeStep(line, scan, i, mode) \in WordFrom(line, low)
<1> DEFINE end == Len(line) + 1
           W == WordFrom(line, low)
<1>1. /\ Len(line) \in Nat /\ low <= end
      /\ i < end => i \in 1 .. Len(line) /\ line[i] \in STRING
      /\ i < end /\ i + 1 # end => i + 1 \in 1 .. Len(line) /\ line[i + 1] \in STRING
  BY Characters
<1>2. \A k \in low .. end : Stop(k) \in W
  BY <1>1, WordEnds
<1>3. \A error \in STRING : Fail(line, error) \in W
  BY <1>1, WordEnds
<1>4. Unterminated(mode) \in STRING /\ Unfinished(mode) \in STRING
  BY StringAssumption DEF Unterminated, Unfinished, Literals
<1>5. \A c \in STRING : <<c>> \in Texts /\ Unescaped(c) \in Texts
  BY TextsJoined, UnescapedType
<1>6. i < end => \A m \in Modes : scan[i + 1][m] \in W
  <2>1. i < end => scan[i + 1] \in ScanFrom(line, low)
    BY <1>1
  <2> QED  BY <2>1 DEF ScanFrom
<1>7. i < end /\ i + 1 # end => scan[i + 2][mode] \in W
  <2>1. i < end /\ i + 1 # end => scan[i + 2] \in ScanFrom(line, low)
    BY <1>1
  <2> QED  BY <2>1 DEF ScanFrom
<1>8. "plain" \in Modes /\ \A c : c \in Quotes => c \in Modes
  BY DEF Modes
<1>9. \A text \in Texts, rest \in W : Before(text, rest) \in W
  BY BeforeType
<1> HIDE DEF W
<1>10. CASE i = end
  <2>1. ModeStep(line, scan, i, mode) =
          IF mode = "plain" THEN Stop(i) ELSE Fail(line, Unterminated(mode))
    BY <1>10, <1>1 DEF ModeStep
  <2>2. i \in low .. end
    BY <1>1, <1>10
  <2> QED  BY <1>2, <1>3, <1>4, <2>1, <2>2 DEF W
<1>11. CASE i < end /\ mode = "plain" /\ line[i] \in EndsWord
  <2>1. ModeStep(line, scan, i, mode) = Stop(i)
    BY <1>11, <1>1 DEF ModeStep, Quotes, EndsWord, Blanks, Escapes
  <2>2. i \in low .. end
    BY <1>1, <1>11
  <2> QED  BY <1>2, <2>1, <2>2 DEF W
<1>12. CASE i < end /\ ~ (mode = "plain" /\ line[i] \in EndsWord)
  <2>1. \/ ModeStep(line, scan, i, mode) = scan[i + 1][line[i]] /\ line[i] \in Quotes
        \/ ModeStep(line, scan, i, mode) = scan[i + 1]["plain"]
        \/ ModeStep(line, scan, i, mode) = Fail(line, Unfinished(mode))
        \/ i + 1 # end /\ ModeStep(line, scan, i, mode) = Before(<<line[i + 1]>>, scan[i + 2][mode])
        \/ i + 1 # end /\ ModeStep(line, scan, i, mode) = Before(Unescaped(line[i + 1]), scan[i + 2][mode])
        \/ ModeStep(line, scan, i, mode) = Before(<<line[i]>>, scan[i + 1][mode])
    BY <1>12, <1>1 DEF ModeStep
  <2> QED  BY <1>1, <1>3, <1>4, <1>5, <1>6, <1>7, <1>8, <1>9, <1>12, <2>1 DEF W
<1> QED  BY <1>1, <1>10, <1>11, <1>12

\* A step looks only at what is behind it.
LEMMA WordStepsAgree ==
  ASSUME NEW line, Len(line) \in Nat, NEW i \in 1 .. Len(line) + 1, NEW f, NEW g,
         \A j \in i + 1 .. Len(line) + 1 : f[j] = g[j]
  PROVE  WordStep(line, f, i) = WordStep(line, g, i)
<1>1. i < Len(line) + 1 => f[i + 1] = g[i + 1]
  OBVIOUS
<1>2. i < Len(line) + 1 /\ i + 1 # Len(line) + 1 => f[i + 2] = g[i + 2]
  OBVIOUS
<1>3. ASSUME NEW mode \in Modes
      PROVE  ModeStep(line, f, i, mode) = ModeStep(line, g, i, mode)
  <2>1. CASE i = Len(line) + 1
    BY <2>1 DEF ModeStep
  <2>2. CASE i < Len(line) + 1
    BY <1>1, <1>2, <2>2 DEF ModeStep
  <2> QED  BY <2>1, <2>2
<1> QED  BY <1>3 DEF WordStep

\* There is a function that ReadWord follows.
LEMMA ScanExists ==
  ASSUME NEW line \in Texts
  PROVE  \E f : Scans(line, f)
<1> DEFINE n == Len(line) + 1
           V == ScanFrom(line, 1)
           S == [f \in [1 .. n -> V] |-> [i \in 1 .. n |-> WordStep(line, f, i)]]
<1>1. Len(line) \in Nat /\ n \in Nat
  BY Characters
<1>2. ASSUME NEW f \in [1 .. n -> V], NEW i \in 1 .. n
      PROVE  WordStep(line, f, i) \in V
  <2>1. \A j \in i + 1 .. n : f[j] \in V
    BY <1>1
  <2>2. \A mode \in Modes : ModeStep(line, f, i, mode) \in WordFrom(line, 1)
    BY <1>1, <2>1, ModeStepType
  <2> QED  BY <2>2 DEF WordStep, ScanFrom
<1>3. V # {}
  <2>1. Stop(n) \in WordFrom(line, 1)
    <3>1. 1 <= n /\ n \in 1 .. n
      BY <1>1
    <3> QED  BY <3>1, WordEnds
  <2>2. [mode \in Modes |-> Stop(n)] \in V
    BY <2>1 DEF ScanFrom
  <2> QED  BY <2>2
<1>4. S \in [[1 .. n -> V] -> [1 .. n -> V]]
  <2> HIDE DEF V, n
  <2> QED  BY <1>2
<1>5. ASSUME NEW f \in [1 .. n -> V], NEW g \in [1 .. n -> V], NEW i \in 1 .. n,
             \A j \in i + 1 .. n : f[j] = g[j]
      PROVE  S[f][i] = S[g][i]
  <2>1. WordStep(line, f, i) = WordStep(line, g, i)
    BY <1>1, <1>5, WordStepsAgree
  <2> HIDE DEF V, n
  <2> QED  BY <2>1
<1>6. \A f \in [1 .. n -> V] : S[f] = [i \in 1 .. n |-> WordStep(line, f, i)]
  OBVIOUS
<1>7. Repeats(1 .. n, V, S)
  <2> HIDE DEF S, V, n
  <2>1. FromLater(n, V, S)
    BY <1>4, <1>5 DEF FromLater
  <2> QED  BY <1>1, <1>3, <2>1, RecursionToTheEnd
<1>8. PICK f \in [1 .. n -> V] : f = S[f]
  <2> HIDE DEF S, V, n
  <2> QED  BY <1>7 DEF Repeats
<1>9. f = [i \in 1 .. n |-> WordStep(line, f, i)]
  <2> HIDE DEF S, V, n
  <2> QED  BY <1>6, <1>8
<1> QED  BY <1>9 DEF Scans

\* Its values are words that do not end in front of where they start.
LEMMA ScanType ==
  ASSUME NEW line \in Texts, NEW f, Scans(line, f)
  PROVE  \A i \in 1 .. Len(line) + 1 : f[i] \in ScanFrom(line, i)
<1> DEFINE n == Len(line) + 1
           Good == {i \in 1 .. n : f[i] \in ScanFrom(line, i)}
<1>1. Len(line) \in Nat /\ n \in Nat
  BY Characters
<1>2. ASSUME NEW i \in 1 .. n, \A j \in i + 1 .. n : j \in Good
      PROVE  i \in Good
  <2>1. ASSUME NEW j \in i + 1 .. n
        PROVE  f[j] \in ScanFrom(line, i)
    <3>1. f[j] \in ScanFrom(line, j)
      BY <1>2
    <3>2. j .. Len(line) + 1 \subseteq i .. Len(line) + 1
      BY <1>1
    <3> QED  BY <3>1, <3>2 DEF ScanFrom, WordFrom
  <2>2. \A mode \in Modes : ModeStep(line, f, i, mode) \in WordFrom(line, i)
    BY <1>1, <2>1, ModeStepType
  <2>3. f[i] = [mode \in Modes |-> ModeStep(line, f, i, mode)]
    BY DEF Scans, WordStep
  <2> QED  BY <2>2, <2>3 DEF ScanFrom
<1>3. \A i \in 1 .. n : i \in Good
  <2> HIDE DEF Good
  <2> QED  BY <1>1, <1>2, FromTheEnd
<1> QED  BY <1>3

\* ReadWord gives a text, and takes at least a character that does not end a
\* word.
LEMMA ReadWordType ==
  ASSUME NEW line \in Texts, NEW start \in 1 .. Len(line), line[start] \notin EndsWord
  PROVE  ReadWord(line, start) \in WordFrom(line, start + 1)
<1> DEFINE f == CHOOSE f : Scans(line, f)
           n == Len(line) + 1
<1>1. Scans(line, f)
  BY ScanExists
<1>2. ReadWord(line, start) = f[start]["plain"]
  BY ReadWordUnfolds
<1> HIDE DEF f
<1>3. Len(line) \in Nat /\ start \in 1 .. n /\ start + 1 \in Nat
  BY Characters
<1>4. ASSUME NEW j \in start + 1 .. n
      PROVE  f[j] \in ScanFrom(line, start + 1)
  <2>1. j \in 1 .. n /\ j .. Len(line) + 1 \subseteq start + 1 .. Len(line) + 1
    BY <1>3
  <2>2. f[j] \in ScanFrom(line, j)
    BY <1>1, <2>1, ScanType
  <2> QED  BY <2>1, <2>2 DEF ScanFrom, WordFrom
<1>5. f[start] = [mode \in Modes |-> ModeStep(line, f, start, mode)] /\ "plain" \in Modes
  BY <1>1, <1>3 DEF Scans, WordStep, Modes
<1>6. ModeStep(line, f, start, "plain") \in WordFrom(line, start + 1)
  BY <1>3, <1>4, <1>5, ModeStepType
<1> QED  BY <1>2, <1>5, <1>6

-----------------------------------------------------------------------------
(* Tokens. *)

\* Blanks are skipped up to the first other character.
LEMMA SkipWhitespaceStops ==
  ASSUME NEW line \in Texts, NEW start \in 1 .. Len(line) + 1
  PROVE  /\ SkipWhitespace(line, start) \in start .. Len(line) + 1
         /\ SkipWhitespace(line, start) <= Len(line) =>
              line[SkipWhitespace(line, start)] \notin Blanks
<1> DEFINE n == Len(line)
           Stops(i) == i <= n => line[i] \notin Blanks
           Places == {i \in start .. n + 1 : Stops(i)}
<1>1. n \in Nat /\ start \in Nat /\ n + 1 \in start .. n + 1
  BY Characters
<1>2. PICK i \in Places : \A k \in Places : i <= k
  <2>1. n + 1 \in Places /\ Places \subseteq Nat
    BY <1>1
  <2> HIDE DEF Places
  <2> QED  BY <2>1, Smallest
<1>3. \A k \in start .. i - 1 : line[k] \in Blanks
  <2> TAKE k \in start .. i - 1
  <2>1. k \in start .. n + 1 /\ ~ i <= k
    BY <1>1
  <2> QED  BY <1>2, <2>1
<1>4. \E k \in start .. n + 1 :
        /\ \A m \in start .. k - 1 : line[m] \in Blanks
        /\ k <= n => line[k] \notin Blanks
  BY <1>2, <1>3
<1> QED  BY <1>4 DEF SkipWhitespace

\* What next_token may return from i on.
TokenFrom(line, i, token) ==
  /\ token.kind \in {"eof", "newline", "pipe", "redirect", "word", "error"}
  /\ token.kind \in {"pipe", "redirect", "word"} => token.next \in i + 1 .. Len(line) + 1
  /\ token.kind = "redirect" => token.how \in STRING
  /\ token.kind = "word" => token.text \in Texts
  /\ token.kind = "error" => token.error \in STRING

\* A redirection.
LEMMA ArrowType ==
  ASSUME NEW line \in Texts, NEW i \in 1 .. Len(line), NEW output \in STRING, NEW append \in STRING
  PROVE  /\ Arrow(line, i, output, append).kind = "redirect"
         /\ Arrow(line, i, output, append).how \in STRING
         /\ Arrow(line, i, output, append).next \in i + 1 .. Len(line) + 1
<1>1. "StderrMerge" \in STRING
  BY StringAssumption DEF Literals
<1>2. Len(line) \in Nat /\ i + 1 \in i + 1 .. Len(line) + 1 /\ "StderrMerge" \in STRING
  BY <1>1, Characters
<1> DEFINE second == IF i < Len(line) THEN line[i + 1] ELSE "end"
           Redirect(how, next) == [kind |-> "redirect", how |-> how, next |-> next]
<1>3. Arrow(line, i, output, append) \in
        {Redirect(output, i + 1)}
          \cup (IF second \in {">", "&"} THEN {Redirect(append, i + 2), Redirect("StderrMerge", i + 2)} ELSE {})
  BY DEF Arrow
<1>4. second \in {">", "&"} => i + 2 \in i + 1 .. Len(line) + 1
  BY <1>2
<1> HIDE DEF second
<1> QED  BY <1>2, <1>3, <1>4

\* The token at a character that is no blank.
LEMMA TokenAtType ==
  ASSUME NEW line \in Texts, NEW i \in 1 .. Len(line) + 1,
         i <= Len(line) => line[i] \notin Blanks
  PROVE  TokenFrom(line, i, TokenAt(line, i))
<1>1. {"Output", "Append", "StderrOutput", "StderrAppend", "Input"} \subseteq STRING
  <2>1. Literals \subseteq STRING
    BY StringAssumption
  <2>2. "Output" \in STRING /\ "Append" \in STRING
    BY <2>1 DEF Literals
  <2>3. "StderrOutput" \in STRING /\ "StderrAppend" \in STRING
    BY <2>1 DEF Literals
  <2>4. "Input" \in STRING
    BY <2>1 DEF Literals
  <2> QED  BY <2>2, <2>3, <2>4
<1>2. /\ Len(line) \in Nat /\ "Output" \in STRING /\ "Append" \in STRING
      /\ "StderrOutput" \in STRING /\ "StderrAppend" \in STRING /\ "Input" \in STRING
  BY <1>1, Characters
<1>3. CASE i > Len(line)
  <2>1. TokenAt(line, i) = [kind |-> "eof", next |-> i]
    BY <1>3 DEF TokenAt
  <2> QED  BY <2>1 DEF TokenFrom
<1> DEFINE c == line[i]
<1>4. CASE i <= Len(line) /\ c = "|"
  <2>1. TokenAt(line, i) = [kind |-> "pipe", next |-> i + 1]
    BY <1>2, <1>4 DEF TokenAt, IsStderrArrow
  <2>2. i + 1 \in i + 1 .. Len(line) + 1
    BY <1>2, <1>4
  <2> QED  BY <2>1, <2>2 DEF TokenFrom
<1>5. CASE i <= Len(line) /\ c = ">"
  <2>1. TokenAt(line, i) = Arrow(line, i, "Output", "Append")
    BY <1>2, <1>5 DEF TokenAt, IsStderrArrow
  <2>2. i \in 1 .. Len(line)
    BY <1>2, <1>5
  <2> QED  BY <1>2, <2>1, <2>2, ArrowType DEF TokenFrom
<1>6. CASE i <= Len(line) /\ c = "<"
  <2>1. TokenAt(line, i) = [kind |-> "redirect", how |-> "Input", next |-> i + 1]
    BY <1>2, <1>6 DEF TokenAt, IsStderrArrow
  <2>2. i + 1 \in i + 1 .. Len(line) + 1
    BY <1>2, <1>6
  <2> QED  BY <1>2, <2>1, <2>2 DEF TokenFrom
<1>7. CASE i <= Len(line) /\ IsStderrArrow(line, i)
  <2> DEFINE arrow == Arrow(line, i + 1, "StderrOutput", "StderrAppend")
  <2>1. TokenAt(line, i) = arrow
    BY <1>2, <1>7 DEF TokenAt, IsStderrArrow
  <2>2. i + 1 \in 1 .. Len(line)
    BY <1>2, <1>7 DEF IsStderrArrow
  <2>3. arrow.kind = "redirect" /\ arrow.how \in STRING /\ arrow.next \in i + 2 .. Len(line) + 1
    <3>1. arrow.kind = "redirect" /\ arrow.how \in STRING /\ arrow.next \in (i + 1) + 1 .. Len(line) + 1
      BY <1>2, <2>2, ArrowType
    <3> QED  BY <3>1
  <2>4. i + 2 .. Len(line) + 1 \subseteq i + 1 .. Len(line) + 1
    BY <1>2
  <2> HIDE DEF arrow
  <2> QED  BY <2>1, <2>3, <2>4 DEF TokenFrom
<1>8. CASE i <= Len(line) /\ c = "#"
  <2>1. TokenAt(line, i) = [kind |-> "newline", next |-> Len(line) + 1]
    BY <1>2, <1>8 DEF TokenAt, IsStderrArrow
  <2> QED  BY <2>1 DEF TokenFrom
<1>9. CASE i <= Len(line) /\ c \notin {"|", ">", "<", "#"} /\ ~ IsStderrArrow(line, i)
  <2> DEFINE word == ReadWord(line, i)
  <2>1. TokenAt(line, i) = WordToken(word)
    BY <1>2, <1>9 DEF TokenAt
  <2>2. i \in 1 .. Len(line) /\ c \notin EndsWord
    BY <1>2, <1>9 DEF EndsWord
  <2>3. word \in WordFrom(line, i + 1)
    BY <2>2, ReadWordType
  <2> HIDE DEF word
  <2>4. word.text \in Texts /\ word.next \in i + 1 .. Len(line) + 1 /\ word.error \in STRING
    BY <2>3 DEF WordFrom
  <2> QED  BY <2>1, <2>4 DEF TokenFrom, WordToken
<1> QED  BY <1>2, <1>3, <1>4, <1>5, <1>6, <1>7, <1>8, <1>9

\* The next token.
LEMMA NextTokenType ==
  ASSUME NEW line \in Texts, NEW start \in 1 .. Len(line) + 1
  PROVE  TokenFrom(line, start, NextToken(line, start))
<1> DEFINE i == SkipWhitespace(line, start)
           token == TokenAt(line, i)
<1>1. i \in start .. Len(line) + 1 /\ (i <= Len(line) => line[i] \notin Blanks)
  BY SkipWhitespaceStops
<1>2. NextToken(line, start) = token
  BY DEF NextToken
<1> HIDE DEF i
<1>3. Len(line) \in Nat /\ i \in 1 .. Len(line) + 1 /\ i + 1 .. Len(line) + 1 \subseteq start + 1 .. Len(line) + 1
  BY <1>1, Characters
<1>4. TokenFrom(line, i, token)
  BY <1>1, <1>3, TokenAtType
<1> HIDE DEF token
<1> QED  BY <1>2, <1>3, <1>4 DEF TokenFrom

-----------------------------------------------------------------------------
(* Commands. *)

Redirects == [how : STRING, target : Texts]
Commands == [argv : Seq(Texts), redirects : Seq(Redirects)]
Parts == [command : Commands, later : Seq(Commands), error : STRING]

\* A member in front of a sequence.
LEMMA InFront ==
  ASSUME NEW S, NEW a \in S, NEW seq \in Seq(S)
  PROVE  <<a>> \o seq \in Seq(S)
BY ConcatProperties

\* The part that fails, and the last one.
LEMMA LastParts ==
  /\ NoCommand \in Commands
  /\ \A error \in STRING : Part(NoCommand, << >>, error) \in Parts
<1>1. << >> \in Seq(Texts) /\ << >> \in Seq(Redirects) /\ << >> \in Seq(Commands)
  BY EmptySeq
<1>2. NoCommand \in Commands
  BY <1>1 DEF NoCommand, Command, Commands
<1> QED  BY <1>1, <1>2 DEF Part, Parts

\* A command is pushed or left out.
LEMMA PushedType ==
  ASSUME NEW command \in Commands, NEW later \in Seq(Commands)
  PROVE  Pushed(command, later) \in Seq(Commands)
BY InFront DEF Pushed

\* A part behind a word, a redirection or a pipe.
LEMMA LongerParts ==
  ASSUME NEW part \in Parts
  PROVE  /\ \A text \in Texts : [part EXCEPT !.command.argv = <<text>> \o @] \in Parts
         /\ \A redirect \in Redirects :
              [part EXCEPT !.command.redirects = <<redirect>> \o @] \in Parts
         /\ BehindPipe(part) \in Parts
<1>1. /\ part.command \in Commands /\ part.later \in Seq(Commands) /\ part.error \in STRING
      /\ part.command.argv \in Seq(Texts) /\ part.command.redirects \in Seq(Redirects)
  BY DEF Parts, Commands
<1>2. ASSUME NEW text \in Texts
      PROVE  [part EXCEPT !.command.argv = <<text>> \o @] \in Parts
  <2> DEFINE argv == <<text>> \o part.command.argv
             command == [part.command EXCEPT !.argv = argv]
  <2>1. argv \in Seq(Texts)
    BY <1>1, InFront
  <2>2. [part EXCEPT !.command.argv = <<text>> \o @] = [part EXCEPT !.command = command]
    OBVIOUS
  <2> HIDE DEF argv
  <2>3. command \in Commands
    BY <1>1, <2>1 DEF Commands
  <2> HIDE DEF command
  <2>4. [part EXCEPT !.command = command] \in Parts
    BY <2>3 DEF Parts
  <2> QED  BY <2>2, <2>4
<1>3. ASSUME NEW redirect \in Redirects
      PROVE  [part EXCEPT !.command.redirects = <<redirect>> \o @] \in Parts
  <2> DEFINE redirects == <<redirect>> \o part.command.redirects
             command == [part.command EXCEPT !.redirects = redirects]
  <2>1. redirects \in Seq(Redirects)
    BY <1>1, InFront
  <2>2. [part EXCEPT !.command.redirects = <<redirect>> \o @] = [part EXCEPT !.command = command]
    OBVIOUS
  <2> HIDE DEF redirects
  <2>3. command \in Commands
    BY <1>1, <2>1 DEF Commands
  <2> HIDE DEF command
  <2>4. [part EXCEPT !.command = command] \in Parts
    BY <2>3 DEF Parts
  <2> QED  BY <2>2, <2>4
<1>4. BehindPipe(part) \in Parts
  <2>1. Pushed(part.command, part.later) \in Seq(Commands)
    BY <1>1, PushedType
  <2> QED  BY <1>1, <2>1, LastParts DEF BehindPipe, Part, Parts
<1> QED  BY <1>2, <1>3, <1>4

ParseStep(line, rest, i) == FromToken(line, NextToken(line, i), rest)

\* A step of parse_line gives a part.
LEMMA ParseStepType ==
  ASSUME NEW line \in Texts, NEW i \in 1 .. Len(line) + 1, NEW rest,
         \A j \in i + 1 .. Len(line) + 1 : rest[j] \in Parts
  PROVE  ParseStep(line, rest, i) \in Parts
<1> DEFINE n == Len(line) + 1
           token == NextToken(line, i)
           target == NextToken(line, token.next)
<1>1. TokenFrom(line, i, token)
  BY NextTokenType
<1> HIDE DEF token
<1>2. Len(line) \in Nat /\ n \in Nat
  BY Characters
<1>3. \A error \in STRING : Failed(error) \in Parts
  BY LastParts DEF Failed
<1>4. "none" \in STRING /\ "expected filename after redirect" \in STRING
  BY StringAssumption DEF Literals
<1>5. token.kind \in {"pipe", "redirect", "word"} => rest[token.next] \in Parts /\ token.next \in 1 .. n
  BY <1>1, <1>2 DEF TokenFrom
<1>6. CASE token.kind = "word"
  <2>1. FromToken(line, token, rest) = [rest[token.next] EXCEPT !.command.argv = <<token.text>> \o @]
    BY <1>6 DEF FromToken
  <2>2. token.text \in Texts
    BY <1>1, <1>6 DEF TokenFrom
  <2> QED  BY <1>5, <1>6, <2>1, <2>2, LongerParts DEF ParseStep, token
<1>7. CASE token.kind = "redirect"
  <2>1. FromToken(line, token, rest) = FromRedirect(token.how, target, rest)
    BY <1>7 DEF FromToken
  <2>2. TokenFrom(line, token.next, target) /\ token.next \in i + 1 .. n /\ token.how \in STRING
    <3>1. token.next \in i + 1 .. n /\ token.how \in STRING
      BY <1>1, <1>7 DEF TokenFrom
    <3> QED  BY <1>5, <1>7, <3>1, NextTokenType
  <2> HIDE DEF target
  <2>3. CASE target.kind = "word"
    <3> DEFINE redirect == [how |-> token.how, target |-> target.text]
    <3>1. redirect \in Redirects
      BY <2>2, <2>3 DEF TokenFrom, Redirects
    <3>2. FromRedirect(token.how, target, rest) =
            [rest[target.next] EXCEPT !.command.redirects = <<redirect>> \o @]
      BY <2>3 DEF FromRedirect
    <3>3. rest[target.next] \in Parts
      <4>1. target.next \in token.next + 1 .. n
        BY <2>2, <2>3 DEF TokenFrom
      <4>2. target.next \in i + 1 .. n
        BY <1>2, <2>2, <4>1
      <4> QED  BY <4>2
    <3> HIDE DEF redirect
    <3>4. \A r \in Redirects : [rest[target.next] EXCEPT !.command.redirects = <<r>> \o @] \in Parts
      BY <3>3, LongerParts
    <3>5. FromRedirect(token.how, target, rest) \in Parts
      BY <3>1, <3>2, <3>4
    <3> QED  BY <2>1, <3>5 DEF ParseStep, token
  <2>4. CASE target.kind = "error"
    <3>1. FromRedirect(token.how, target, rest) = Failed(target.error) /\ target.error \in STRING
      BY <2>2, <2>4 DEF FromRedirect, TokenFrom
    <3> QED  BY <1>3, <2>1, <3>1 DEF ParseStep, token
  <2>5. CASE target.kind \notin {"word", "error"}
    <3>1. FromRedirect(token.how, target, rest) = Failed("expected filename after redirect")
      BY <2>5 DEF FromRedirect
    <3> QED  BY <1>3, <1>4, <2>1, <3>1 DEF ParseStep, token
  <2> QED  BY <2>3, <2>4, <2>5
<1>8. CASE token.kind = "pipe"
  <2>1. FromToken(line, token, rest) = BehindPipe(rest[token.next])
    BY <1>8 DEF FromToken
  <2> QED  BY <1>5, <1>8, <2>1, LongerParts DEF ParseStep, token
<1>9. CASE token.kind \in {"newline", "eof"}
  <2>1. FromToken(line, token, rest) = Part(NoCommand, << >>, "none")
    BY <1>9 DEF FromToken
  <2> QED  BY <1>4, <2>1, LastParts DEF ParseStep, token
<1>10. CASE token.kind = "error"
  <2>1. FromToken(line, token, rest) = Failed(token.error) /\ token.error \in STRING
    BY <1>1, <1>10 DEF FromToken, TokenFrom
  <2> QED  BY <1>3, <2>1 DEF ParseStep, token
<1> QED  BY <1>1, <1>6, <1>7, <1>8, <1>9, <1>10 DEF TokenFrom

\* A step looks only at what is behind it.
LEMMA ParseStepsAgree ==
  ASSUME NEW line \in Texts, NEW i \in 1 .. Len(line) + 1, NEW f, NEW g,
         \A j \in i + 1 .. Len(line) + 1 : f[j] = g[j]
  PROVE  ParseStep(line, f, i) = ParseStep(line, g, i)
<1> DEFINE token == NextToken(line, i)
           target == NextToken(line, token.next)
<1>1. TokenFrom(line, i, token)
  BY NextTokenType
<1> HIDE DEF token
<1>2. Len(line) \in Nat
  BY Characters
<1>3. token.kind \in {"pipe", "redirect", "word"} =>
        f[token.next] = g[token.next] /\ token.next \in i + 1 .. Len(line) + 1
  BY <1>1, <1>2 DEF TokenFrom
<1>4. token.kind = "redirect" => FromRedirect(token.how, target, f) = FromRedirect(token.how, target, g)
  <2> SUFFICES ASSUME token.kind = "redirect"
               PROVE  FromRedirect(token.how, target, f) = FromRedirect(token.how, target, g)
    OBVIOUS
  <2>1. token.next \in 1 .. Len(line) + 1
    BY <1>2, <1>3
  <2>2. TokenFrom(line, token.next, target)
    BY <2>1, NextTokenType
  <2> HIDE DEF target
  <2>3. target.kind = "word" => target.next \in i + 1 .. Len(line) + 1
    BY <1>2, <1>3, <2>2 DEF TokenFrom
  <2>4. target.kind = "word" => f[target.next] = g[target.next]
    BY <2>3
  <2> QED  BY <2>4 DEF FromRedirect
<1>5. FromToken(line, token, f) = FromToken(line, token, g)
  <2>1. CASE token.kind = "redirect"
    <3>1. /\ FromToken(line, token, f) = FromRedirect(token.how, target, f)
          /\ FromToken(line, token, g) = FromRedirect(token.how, target, g)
      BY <2>1 DEF FromToken
    <3> HIDE DEF target
    <3> QED  BY <1>4, <2>1, <3>1
  <2>2. CASE token.kind \in {"pipe", "word"}
    <3>1. f[token.next] = g[token.next]
      BY <1>3, <2>2
    <3> QED  BY <2>2, <3>1 DEF FromToken
  <2>3. CASE token.kind \in {"newline", "eof", "error"}
    BY <2>3 DEF FromToken
  <2> QED  BY <1>1, <2>1, <2>2, <2>3 DEF TokenFrom
<1> QED  BY <1>5 DEF ParseStep, token

Parses(line, f) == f = [i \in 1 .. Len(line) + 1 |-> ParseStep(line, f, i)]

\* There is a function that parse_line follows.
LEMMA ParseExists ==
  ASSUME NEW line \in Texts
  PROVE  \E f : Parses(line, f)
<1> DEFINE n == Len(line) + 1
           V == Parts
           S == [f \in [1 .. n -> V] |-> [i \in 1 .. n |-> ParseStep(line, f, i)]]
<1>1. Len(line) \in Nat /\ n \in Nat
  BY Characters
<1>2. ASSUME NEW f \in [1 .. n -> V], NEW i \in 1 .. n
      PROVE  ParseStep(line, f, i) \in V
  <2>1. \A j \in i + 1 .. n : f[j] \in V
    BY <1>1
  <2> QED  BY <1>1, <2>1, ParseStepType
<1>3. V # {}
  <2>1. "none" \in STRING
    BY StringAssumption DEF Literals
  <2> QED  BY <2>1, LastParts
<1>4. S \in [[1 .. n -> V] -> [1 .. n -> V]]
  <2> HIDE DEF V, n
  <2> QED  BY <1>2
<1>5. ASSUME NEW f \in [1 .. n -> V], NEW g \in [1 .. n -> V], NEW i \in 1 .. n,
             \A j \in i + 1 .. n : f[j] = g[j]
      PROVE  S[f][i] = S[g][i]
  <2>1. ParseStep(line, f, i) = ParseStep(line, g, i)
    BY <1>1, <1>5, ParseStepsAgree
  <2> HIDE DEF V, n
  <2> QED  BY <2>1
<1>6. \A f \in [1 .. n -> V] : S[f] = [i \in 1 .. n |-> ParseStep(line, f, i)]
  OBVIOUS
<1>7. Repeats(1 .. n, V, S)
  <2> HIDE DEF S, V, n
  <2>1. FromLater(n, V, S)
    BY <1>4, <1>5 DEF FromLater
  <2> QED  BY <1>1, <1>3, <2>1, RecursionToTheEnd
<1>8. PICK f \in [1 .. n -> V] : f = S[f]
  <2> HIDE DEF S, V, n
  <2> QED  BY <1>7 DEF Repeats
<1>9. f = [i \in 1 .. n |-> ParseStep(line, f, i)]
  <2> HIDE DEF S, V, n
  <2> QED  BY <1>6, <1>8
<1> QED  BY <1>9 DEF Parses

\* Whatever the line, parse_line gives commands whose words are texts.
LEMMA ParseLineType ==
  ASSUME NEW line \in Texts
  PROVE  /\ ParseLine(line).commands \in Seq(Commands) /\ ParseLine(line).commands # << >>
         /\ ParseLine(line).error \in STRING
<1> DEFINE f == CHOOSE f : Parses(line, f)
           n == Len(line) + 1
           Good == {i \in 1 .. n : f[i] \in Parts}
<1>1. Parses(line, f)
  BY ParseExists
<1>2. ParseLine(line) = Pipeline(f[1])
  BY Zenon DEF ParseLine, Parses, ParseStep
<1> HIDE DEF f
<1>3. Len(line) \in Nat /\ n \in Nat /\ 1 \in 1 .. n
  BY Characters
<1>4. ASSUME NEW i \in 1 .. n, \A j \in i + 1 .. n : j \in Good
      PROVE  i \in Good
  <2>1. \A j \in i + 1 .. n : f[j] \in Parts
    BY <1>4
  <2>2. ParseStep(line, f, i) \in Parts
    BY <1>3, <2>1, ParseStepType
  <2>3. f[i] = ParseStep(line, f, i)
    BY <1>1 DEF Parses
  <2> QED  BY <2>2, <2>3
<1>5. \A i \in 1 .. n : i \in Good
  <2> HIDE DEF Good
  <2> QED  BY <1>3, <1>4, FromTheEnd
<1>6. f[1] \in Parts
  BY <1>3, <1>5
<1>7. f[1].command \in Commands /\ f[1].later \in Seq(Commands) /\ f[1].error \in STRING
  BY <1>6 DEF Parts
<1> DEFINE commands == Pushed(f[1].command, f[1].later)
<1>8. commands \in Seq(Commands) /\ <<NoCommand>> \in Seq(Commands) /\ <<NoCommand>> # << >>
  BY <1>7, PushedType, LastParts, ShortSequences
<1>9. Pipeline(f[1]) = [commands |-> IF commands = << >> THEN <<NoCommand>> ELSE commands,
                        error |-> f[1].error]
  BY DEF Pipeline
<1> HIDE DEF commands
<1> QED  BY <1>2, <1>7, <1>8, <1>9

-----------------------------------------------------------------------------
(* Sequences of sequences. *)

\* f[i] holds the first i of some sequences, one behind the other.
Joins(f, texts) ==
  f = [i \in 1 .. Len(texts) |-> IF i = 1 THEN texts[i] ELSE f[i - 1] \o texts[i]]

\* Some function joins them.
LEMMA JoinExists ==
  ASSUME NEW n \in Nat, NEW texts
  PROVE  \E f : f = [i \in 1 .. n |-> IF i = 1 THEN texts[i] ELSE f[i - 1] \o texts[i]]
<1> DEFINE Joined(k, f) == f = [i \in 1 .. k |-> IF i = 1 THEN texts[i] ELSE f[i - 1] \o texts[i]]
           Wrong == {k \in Nat : ~ \E f : Joined(k, f)}
<1>1. SUFFICES ASSUME Wrong # {} PROVE FALSE
  <2>1. n \in Nat \ Wrong => \E f : Joined(n, f)
    OBVIOUS
  <2> QED  BY <1>1, <2>1
<1>2. PICK k \in Wrong : \A m \in Wrong : k <= m
  BY <1>1, Smallest
<1>3. k # 0
  <2>1. Joined(0, [i \in 1 .. 0 |-> << >>])
    OBVIOUS
  <2> QED  BY <2>1
<1>4. k \in Nat /\ k - 1 \in Nat /\ k - 1 \notin Wrong
  <2>1. k \in Nat
    BY <1>2
  <2>2. k - 1 \in Nat /\ ~ k <= k - 1
    BY <1>3, <2>1
  <2> HIDE DEF Wrong
  <2> QED  BY <1>2, <2>1, <2>2
<1>5. PICK g : Joined(k - 1, g)
  BY <1>4
<1> DEFINE f == [i \in 1 .. k |-> IF i < k THEN g[i] ELSE IF i = 1 THEN texts[i] ELSE g[i - 1] \o texts[i]]
<1>6. \A i \in 1 .. k : f[i] = IF i = 1 THEN texts[i] ELSE f[i - 1] \o texts[i]
  <2> SUFFICES ASSUME NEW i \in 1 .. k
               PROVE  f[i] = IF i = 1 THEN texts[i] ELSE f[i - 1] \o texts[i]
    OBVIOUS
  <2>1. i # 1 => i - 1 \in 1 .. k - 1 /\ f[i - 1] = g[i - 1]
    BY <1>4
  <2>2. CASE i < k
    <3>1. i \in 1 .. k - 1
      BY <1>4, <2>2
    <3>2. g[i] = IF i = 1 THEN texts[i] ELSE g[i - 1] \o texts[i]
      BY <1>5, <3>1, Zenon
    <3> QED  BY <2>1, <2>2, <3>2
  <2>3. CASE i = k
    BY <2>1, <2>3, <1>4
  <2> QED  BY <2>2, <2>3, <1>4
<1>7. Joined(k, f)
  BY <1>6
<1> QED  BY <1>2, <1>7

\* Its values are sequences of the same kind.
LEMMA JoinType ==
  ASSUME NEW S, NEW texts, Len(texts) \in Nat, \A i \in 1 .. Len(texts) : texts[i] \in Seq(S),
         NEW f, Joins(f, texts)
  PROVE  \A i \in 1 .. Len(texts) : f[i] \in Seq(S)
<1> DEFINE n == Len(texts)
           Wrong == {i \in 1 .. n : f[i] \notin Seq(S)}
<1>1. \A i \in 1 .. n : f[i] = IF i = 1 THEN texts[i] ELSE f[i - 1] \o texts[i]
  BY DEF Joins
<1>2. SUFFICES ASSUME Wrong # {} PROVE FALSE
  OBVIOUS
<1>3. Wrong \subseteq Nat
  OBVIOUS
<1>4. PICK k \in Wrong : \A m \in Wrong : k <= m
  <2> HIDE DEF Wrong
  <2> QED  BY <1>2, <1>3, Smallest
<1>5. k \in 1 .. n /\ k # 1
  BY <1>1
<1>6. k - 1 \in 1 .. n /\ ~ k <= k - 1
  BY <1>5
<1>7. f[k - 1] \in Seq(S)
  BY <1>4, <1>6
<1>8. f[k] = f[k - 1] \o texts[k] /\ texts[k] \in Seq(S) /\ f[k - 1] \in Seq(S)
  BY <1>1, <1>5, <1>7
<1>9. f[k] \in Seq(S)
  BY <1>8, ConcatProperties, Zenon
<1> QED  BY <1>9

\* It is the only one.
LEMMA JoinIsUnique ==
  ASSUME NEW texts, Len(texts) \in Nat, NEW f, Joins(f, texts), NEW g, Joins(g, texts)
  PROVE  f = g
<1> DEFINE n == Len(texts)
           Wrong == {i \in 1 .. n : f[i] # g[i]}
<1>1. \A i \in 1 .. n : /\ f[i] = IF i = 1 THEN texts[i] ELSE f[i - 1] \o texts[i]
                        /\ g[i] = IF i = 1 THEN texts[i] ELSE g[i - 1] \o texts[i]
  BY DEF Joins
<1>2. ASSUME Wrong # {} PROVE FALSE
  <2>1. Wrong \subseteq Nat
    OBVIOUS
  <2>2. PICK k \in Wrong : \A m \in Wrong : k <= m
    <3> HIDE DEF Wrong
    <3> QED  BY <1>2, <2>1, Smallest
  <2>3. k \in 1 .. n /\ k # 1
    BY <1>1
  <2>4. k - 1 \in 1 .. n /\ ~ k <= k - 1
    BY <2>3
  <2>5. f[k - 1] = g[k - 1]
    BY <2>2, <2>4
  <2> QED  BY <1>1, <2>3, <2>5
<1>3. f = [i \in 1 .. n |-> f[i]] /\ g = [i \in 1 .. n |-> g[i]]
  BY DEF Joins
<1> QED  BY <1>2, <1>3

\* FlattenSeq joins.
LEMMA FlattenJoins ==
  ASSUME NEW S, NEW texts \in Seq(Seq(S)), texts # << >>
  PROVE  \E f : Joins(f, texts) /\ FlattenSeq(texts) = f[Len(texts)]
<1> DEFINE flat == CHOOSE f : Joins(f, texts)
<1>1. Len(texts) \in Nat \ {0} /\ texts \in [1 .. Len(texts) -> Seq(S)]
  BY EmptySeq, LenProperties
<1>2. \E f : Joins(f, texts)
  BY <1>1, JoinExists DEF Joins
<1>3. Joins(flat, texts)
  BY <1>2
<1>4. FlattenSeq(texts) = flat[Len(texts)]
  BY <1>1 DEF FlattenSeq, Joins
<1> QED  BY <1>3, <1>4


\* FlattenSeq keeps the kind of the sequences.
LEMMA FlattenType ==
  ASSUME NEW S, NEW texts \in Seq(Seq(S))
  PROVE  FlattenSeq(texts) \in Seq(S)
<1>1. CASE texts = << >>
  <2>1. FlattenSeq(texts) = << >>
    BY <1>1 DEF FlattenSeq
  <2> QED  BY <2>1, EmptySeq
<1>2. CASE texts # << >>
  <2>1. PICK f : Joins(f, texts) /\ FlattenSeq(texts) = f[Len(texts)]
    BY <1>2, FlattenJoins
  <2>2. Len(texts) \in Nat /\ Len(texts) # 0 /\ \A i \in 1 .. Len(texts) : texts[i] \in Seq(S)
    BY <1>2, EmptySeq, LenProperties
  <2>3. \A i \in 1 .. Len(texts) : f[i] \in Seq(S)
    BY <2>1, <2>2, JoinType
  <2> QED  BY <2>1, <2>2, <2>3
<1> QED  BY <1>1, <1>2

\* And so it does for a sequence that is given place by place.
LEMMA FlattenEach ==
  ASSUME NEW S, NEW n \in Nat, NEW f, \A i \in 1 .. n : f[i] \in Seq(S)
  PROVE  FlattenSeq([i \in 1 .. n |-> f[i]]) \in Seq(S)
<1> DEFINE texts == [i \in 1 .. n |-> f[i]]
<1>1. texts \in [1 .. n -> Seq(S)]
  OBVIOUS
<1> HIDE DEF texts
<1>2. texts \in Seq(Seq(S))
  BY <1>1
<1>3. FlattenSeq(texts) \in Seq(S)
  BY <1>2, FlattenType
<1> QED  BY <1>3 DEF texts

-----------------------------------------------------------------------------
(* Writes. *)

\* What may be written in one call.
Writes ==
  {w \in [call : {"write_str", "write_char"}, text : Texts] :
     w.call = "write_char" => Len(w.text) = 1}

\* The writes that the builtins are made of.
LEMMA WriteTypes ==
  /\ Crlf \in Texts
  /\ \A text \in Texts : Write(text) \in Writes
  /\ \A c \in STRING : WriteByte(c) \in Writes
  /\ \A message \in STRING : Say(message) \in Writes
<1>1. "\r" \in STRING /\ "\n" \in STRING
  BY StringAssumption DEF Literals
<1>2. Crlf \in Texts
  BY <1>1, ShortSequences DEF Crlf, Texts
<1>3. ASSUME NEW text \in Texts PROVE Write(text) \in Writes
  BY DEF Write, Writes
<1>4. ASSUME NEW c \in STRING PROVE WriteByte(c) \in Writes
  <2>1. <<c>> \in Texts /\ Len(<<c>>) = 1
    BY TextsJoined
  <2> QED  BY <2>1 DEF WriteByte, Writes
<1>5. ASSUME NEW message \in STRING PROVE Say(message) \in Writes
  <2>1. <<message>> \o Crlf \in Texts
    BY <1>2, TextsJoined
  <2> QED  BY <1>3, <2>1 DEF Say
<1> QED  BY <1>2, <1>3, <1>4, <1>5

\* Sequences of writes.
LEMMA WritesJoined ==
  /\ << >> \in Seq(Writes)
  /\ \A a, b \in Seq(Writes) : a \o b \in Seq(Writes)
  /\ \A a \in Writes : <<a>> \in Seq(Writes)
  /\ \A a, b \in Writes : <<a, b>> \in Seq(Writes)
  /\ \A a, b, c \in Writes : <<a, b, c>> \in Seq(Writes)
<1>1. ASSUME NEW S
      PROVE  << >> \in Seq(S) /\ \A a, b \in Seq(S) : a \o b \in Seq(S)
  BY EmptySeq, ConcatProperties
<1> QED  BY <1>1, ShortSequences

-----------------------------------------------------------------------------
(* echo. *)

\* The digits in a row are in the text, and there is one if the first
\* character is a digit.
LEMMA DigitRunType ==
  ASSUME NEW text \in Texts, NEW i \in 1 .. Len(text) + 1, NEW base, NEW limit \in Nat
  PROVE  /\ DigitRun(text, i, base, limit) \in 0 .. limit
         /\ i + DigitRun(text, i, base, limit) <= Len(text) + 1
         /\ limit > 0 /\ i <= Len(text) /\ IsDigit(text[i], base) =>
              DigitRun(text, i, base, limit) >= 1
         /\ DigitRun(text, i, base, limit) < limit /\ i + DigitRun(text, i, base, limit) <= Len(text) =>
              ~ IsDigit(text[i + DigitRun(text, i, base, limit)], base)
<1> DEFINE n == Len(text)
           Digit(m) == IsDigit(text[m], base)
           Stops(k) == k < limit /\ i + k <= n => ~ Digit(i + k)
           Places == {k \in 0 .. limit : Stops(k)}
           run == DigitRun(text, i, base, limit)
<1>1. n \in Nat /\ i \in Nat /\ limit \in 0 .. limit
  BY Characters
<1> HIDE DEF Digit
<1>2. PICK k \in Places : \A m \in Places : k <= m
  <2>1. limit \in Places /\ Places \subseteq Nat
    BY <1>1
  <2> HIDE DEF Places
  <2> QED  BY <2>1, Smallest
<1>3. \A m \in 0 .. k - 1 : i + m <= n /\ Digit(i + m)
  <2> TAKE m \in 0 .. k - 1
  <2>1. m \in 0 .. limit /\ ~ k <= m /\ m < limit
    OBVIOUS
  <2>2. ~ Stops(m)
    BY <1>2, <2>1
  <2> QED  BY <2>1, <2>2
<1>4. i + k <= n + 1
  <2>1. CASE k = 0
    BY <1>1, <2>1
  <2>2. CASE k # 0
    <3>1. k - 1 \in 0 .. k - 1
      BY <2>2
    <3>2. i + (k - 1) <= n
      BY <1>3, <3>1
    <3> QED  BY <1>1, <3>2
  <2> QED  BY <2>1, <2>2
<1>5. \A m \in i .. i + k - 1 : Digit(m)
  <2> TAKE m \in i .. i + k - 1
  <2>1. m - i \in 0 .. k - 1 /\ i + (m - i) = m
    BY <1>1
  <2> QED  BY <1>3, <2>1
<1>6. \E r \in 0 .. limit : /\ i + r <= n + 1
                            /\ \A m \in i .. i + r - 1 : Digit(m)
                            /\ r < limit /\ i + r <= n => ~ Digit(i + r)
  BY <1>4, <1>5
<1>7. run = CHOOSE r \in 0 .. limit : /\ i + r <= n + 1
                                      /\ \A m \in i .. i + r - 1 : Digit(m)
                                      /\ r < limit /\ i + r <= n => ~ Digit(i + r)
  BY DEF DigitRun, Digit
<1> HIDE DEF run
<1>8. /\ run \in 0 .. limit /\ i + run <= n + 1
      /\ run < limit /\ i + run <= n => ~ Digit(i + run)
  BY <1>6, <1>7
<1>9. limit > 0 /\ i <= n /\ Digit(i) => run >= 1
  <2> SUFFICES ASSUME limit > 0, i <= n, Digit(i), run = 0 PROVE FALSE
    BY <1>8
  <2>1. i + run = i /\ run < limit
    BY <1>1
  <2> QED  BY <1>8, <2>1
<1> QED  BY <1>8, <1>9 DEF run, Digit

\* A byte that an escape stands for.
LEMMA EscapedBytes ==
  /\ \A digits, base : Byte(Number(digits, base)) \in STRING
  /\ \A c \in DOMAIN SimpleEscapes : Byte(SimpleEscapes[c]) \in STRING
<1>1. \A digits, base : Number(digits, base) \in 0 .. 255
  BY DEF Number
<1>2. ASSUME NEW c \in DOMAIN SimpleEscapes
      PROVE  SimpleEscapes[c] \in 0 .. 255
  <2>1. /\ c \in {"a", "b", "e", "E", "f", "r", "t", "v", "\\", "'", "\""}
        /\ SimpleEscapes[c] =
             CASE c = "a" -> 7 [] c = "b" -> 8 [] c \in {"e", "E"} -> 27 [] c = "f" -> 12
               [] c = "r" -> 13 [] c = "t" -> 9 [] c = "v" -> 11
               [] c = "\\" -> 92 [] c = "'" -> 39 [] c = "\"" -> 34
    BY DEF SimpleEscapes
  <2>2. SimpleEscapes[c] \in {7, 8, 27, 12, 13, 9, 11, 92, 39, 34}
    BY <2>1
  <2> QED  BY <2>2
<1> QED  BY <1>1, <1>2, StringAssumption

Hex(text, i) == DigitRun(text, i, 16, HexLimit)
Octal(text, i) == DigitRun(text, i, 8, 3)

\* One step of write_escaped.
EscapeStep(text, out, i) ==
  IF i = Len(text) + 1 THEN << >>
  ELSE IF text[i] # "\\" THEN <<Write(<<text[i]>>)>> \o out[i + 1]
  ELSE IF i + 1 = Len(text) + 1 THEN <<WriteByte("\\")>>
  ELSE LET c == text[i + 1]
           after == i + 2 + Hex(text, i + 2)
           literal == <<Write(<<"\\", "x">>), Write(SubSeq(text, i + 2, after - 1))>>
           next == i + 1 + Octal(text, i + 1)
           octalByte == <<WriteByte(Byte(Number(SubSeq(text, i + 1, next - 1), 8)))>>
       IN  CASE c = "c" -> << >>
             [] c = "n" -> <<Write(Crlf)>> \o out[i + 2]
             [] c \in DOMAIN SimpleEscapes -> <<WriteByte(Byte(SimpleEscapes[c]))>> \o out[i + 2]
             [] c = "x" /\ Hex(text, i + 2) = HexLimit ->
                  <<WriteByte(Byte(Number(SubSeq(text, i + 2, after - 1), 16)))>> \o out[after]
             [] c = "x" /\ Hex(text, i + 2) < HexLimit ->
                  IF after = Len(text) + 1 THEN literal
                  ELSE literal \o <<WriteByte(text[after])>> \o out[after + 1]
             [] IsDigit(c, 8) ->
                  IF Octal(text, i + 1) = 3 \/ next = Len(text) + 1 THEN octalByte \o out[next]
                  ELSE octalByte \o <<Write(<<text[next]>>)>>
             [] OTHER -> <<WriteByte("\\"), WriteByte(c)>> \o out[i + 2]

Escapings(text, f) == f = [i \in 1 .. Len(text) + 1 |-> EscapeStep(text, f, i)]

\* write_escaped is a function of that kind, if there is one.
LEMMA WriteEscapedUnfolds ==
  ASSUME NEW text
  PROVE  WriteEscaped(text) = (CHOOSE f : Escapings(text, f))[1]
BY Zenon DEF WriteEscaped, Escapings, EscapeStep, Hex, Octal

\* Where a step goes on.
LEMMA EscapePlaces ==
  ASSUME NEW text \in Texts, NEW i \in 1 .. Len(text), i + 1 # Len(text) + 1
  PROVE  /\ i + 1 \in 1 .. Len(text) /\ i + 2 \in 1 .. Len(text) + 1
         /\ i + 2 + Hex(text, i + 2) \in i + 2 .. Len(text) + 1
         /\ IsDigit(text[i + 1], 8) => i + 1 + Octal(text, i + 1) \in i + 2 .. Len(text) + 1
<1>1. /\ Len(text) \in Nat /\ i + 1 \in 1 .. Len(text) /\ i + 1 \in 1 .. Len(text) + 1
      /\ i + 2 \in 1 .. Len(text) + 1
  BY Characters
<1>2. HexLimit \in Nat
  BY DEF HexLimit
<1>3. Hex(text, i + 2) \in 0 .. HexLimit /\ (i + 2) + Hex(text, i + 2) <= Len(text) + 1
  BY <1>1, <1>2, DigitRunType DEF Hex
<1>4. /\ Octal(text, i + 1) \in 0 .. 3 /\ (i + 1) + Octal(text, i + 1) <= Len(text) + 1
      /\ IsDigit(text[i + 1], 8) => Octal(text, i + 1) >= 1
  <2>1. i + 1 <= Len(text) /\ 3 > 0
    BY <1>1
  <2> QED  BY <1>1, <2>1, DigitRunType DEF Octal
<1> QED  BY <1>1, <1>2, <1>3, <1>4

\* A part of a text.
LEMMA PartOfText ==
  ASSUME NEW S, NEW text \in Seq(S), NEW a \in Nat \ {0}, NEW b \in Int, b <= Len(text)
  PROVE  SubSeq(text, a, b) \in Seq(S)
<1>1. \A k \in a .. b : text[k] \in S
  BY LenProperties
<1> QED  BY <1>1, SubSeqProperties

\* A step of write_escaped makes writes.
LEMMA EscapeStepType ==
  ASSUME NEW text \in Texts, NEW i \in 1 .. Len(text) + 1, NEW out,
         \A j \in i + 1 .. Len(text) + 1 : out[j] \in Seq(Writes)
  PROVE  EscapeStep(text, out, i) \in Seq(Writes)
<1> DEFINE end == Len(text) + 1
           c == text[i + 1]
           after == i + 2 + Hex(text, i + 2)
           next == i + 1 + Octal(text, i + 1)
<1>1. Len(text) \in Nat /\ \A k \in 1 .. Len(text) : text[k] \in STRING
  BY Characters
<1>2. "\\" \in STRING /\ "x" \in STRING
  BY StringAssumption DEF Literals
<1>3. CASE i = end
  BY <1>3, WritesJoined DEF EscapeStep
<1>4. CASE i # end /\ text[i] # "\\"
  <2>1. i \in 1 .. Len(text) /\ out[i + 1] \in Seq(Writes)
    BY <1>1, <1>4
  <2>2. <<text[i]>> \in Texts
    BY <1>1, <2>1, TextsJoined
  <2>3. <<Write(<<text[i]>>)>> \in Seq(Writes)
    BY <2>2, WriteTypes, WritesJoined
  <2> QED  BY <1>4, <2>1, <2>3, WritesJoined DEF EscapeStep
<1>5. CASE i # end /\ text[i] = "\\" /\ i + 1 = end
  <2>1. <<WriteByte("\\")>> \in Seq(Writes)
    BY <1>2, WriteTypes, WritesJoined
  <2> QED  BY <1>5, <2>1 DEF EscapeStep
<1>6. CASE i # end /\ text[i] = "\\" /\ i + 1 # end
  <2>1. i \in 1 .. Len(text)
    BY <1>1, <1>6
  <2>2. /\ i + 1 \in 1 .. Len(text) /\ i + 2 \in i + 1 .. end
        /\ after \in i + 2 .. end
        /\ IsDigit(c, 8) => next \in i + 2 .. end
    BY <1>1, <1>6, <2>1, EscapePlaces
  <2> HIDE DEF after, next
  <2>3. /\ c \in STRING /\ out[i + 2] \in Seq(Writes) /\ out[after] \in Seq(Writes)
        /\ after # end => out[after + 1] \in Seq(Writes) /\ text[after] \in STRING
        /\ IsDigit(c, 8) => out[next] \in Seq(Writes) /\ (next # end => text[next] \in STRING)
    <3>1. c \in STRING
      BY <1>1, <2>2
    <3>2. i \in Nat \ {0} /\ Len(text) \in Nat
      BY <1>1, <2>1
    <3> HIDE DEF c
    <3>3. i + 2 \in i + 1 .. end /\ after \in i + 1 .. end /\ (IsDigit(c, 8) => next \in i + 1 .. end)
      BY <2>2, <3>2
    <3>4. \A k \in i + 2 .. end : k # end => k + 1 \in i + 1 .. end /\ k \in 1 .. Len(text)
      <4> SUFFICES ASSUME NEW k \in i + 2 .. end, k # end
                   PROVE  k + 1 \in i + 1 .. end /\ k \in 1 .. Len(text)
        OBVIOUS
      <4>1. k \in Int /\ i + 2 <= k /\ k < Len(text) + 1
        BY <3>2
      <4> QED  BY <3>2, <4>1
    <3>5. /\ after # end => after + 1 \in i + 1 .. end /\ after \in 1 .. Len(text)
          /\ IsDigit(c, 8) /\ next # end => next \in 1 .. Len(text)
      BY <2>2, <3>4
    <3>6. \A j \in i + 1 .. end : out[j] \in Seq(Writes)
      OBVIOUS
    <3> HIDE DEF end
    <3>7. out[i + 2] \in Seq(Writes) /\ out[after] \in Seq(Writes)
      BY <3>3, <3>6
    <3>8. after # end => out[after + 1] \in Seq(Writes) /\ text[after] \in STRING
      BY <1>1, <3>5, <3>6
    <3>9. IsDigit(c, 8) => out[next] \in Seq(Writes) /\ (next # end => text[next] \in STRING)
      BY <1>1, <3>3, <3>5, <3>6
    <3> QED  BY <3>1, <3>7, <3>8, <3>9
  <2> DEFINE hexText == SubSeq(text, i + 2, after - 1)
             literal == <<Write(<<"\\", "x">>), Write(hexText)>>
             octalByte == <<WriteByte(Byte(Number(SubSeq(text, i + 1, next - 1), 8)))>>
             hexByte == <<WriteByte(Byte(Number(hexText, 16)))>>
             simpleByte == <<WriteByte(Byte(SimpleEscapes[c]))>>
             unknown == <<WriteByte("\\"), WriteByte(c)>>
             crlf == <<Write(Crlf)>>
             behindHex == <<WriteByte(text[after])>>
             behindOctal == <<Write(<<text[next]>>)>>
  <2>4. literal \in Seq(Writes)
    <3>1. <<"\\", "x">> \in Texts
      BY <1>2, ShortSequences DEF Texts
    <3>2. hexText \in Texts
      BY <1>1, <2>1, <2>2, PartOfText DEF Texts
    <3> QED  BY <3>1, <3>2, WriteTypes, WritesJoined
  <2>5. octalByte \in Seq(Writes) /\ hexByte \in Seq(Writes)
    <3>1. \A digits, base : WriteByte(Byte(Number(digits, base))) \in Writes
      BY EscapedBytes, WriteTypes
    <3> QED  BY <3>1, WritesJoined
  <2>6. c \in DOMAIN SimpleEscapes => simpleByte \in Seq(Writes)
    BY EscapedBytes, WriteTypes, WritesJoined
  <2>7. unknown \in Seq(Writes) /\ crlf \in Seq(Writes)
    BY <1>2, <2>3, WriteTypes, WritesJoined
  <2>8. after # end => behindHex \in Seq(Writes)
    BY <2>3, WriteTypes, WritesJoined
  <2>9. IsDigit(c, 8) /\ next # end => behindOctal \in Seq(Writes)
    <3> SUFFICES ASSUME IsDigit(c, 8), next # end PROVE behindOctal \in Seq(Writes)
      OBVIOUS
    <3>1. <<text[next]>> \in Texts
      BY <2>3, TextsJoined
    <3> QED  BY <3>1, WriteTypes, WritesJoined
  <2>10. EscapeStep(text, out, i) =
          CASE c = "c" -> << >>
            [] c = "n" -> crlf \o out[i + 2]
            [] c \in DOMAIN SimpleEscapes -> simpleByte \o out[i + 2]
            [] c = "x" /\ Hex(text, i + 2) = HexLimit -> hexByte \o out[after]
            [] c = "x" /\ Hex(text, i + 2) < HexLimit ->
                 IF after = end THEN literal ELSE literal \o behindHex \o out[after + 1]
            [] IsDigit(c, 8) ->
                 IF Octal(text, i + 1) = 3 \/ next = end THEN octalByte \o out[next]
                 ELSE octalByte \o behindOctal
            [] OTHER -> unknown \o out[i + 2]
    BY <1>6, Zenon DEF EscapeStep, after, next
  <2> HIDE DEF c, end, literal, octalByte, hexByte, simpleByte, unknown, crlf, behindHex, behindOctal
  <2> DEFINE step == EscapeStep(text, out, i)
  <2>11. \/ step = << >>
         \/ step = crlf \o out[i + 2]
         \/ c \in DOMAIN SimpleEscapes /\ step = simpleByte \o out[i + 2]
         \/ step = hexByte \o out[after]
         \/ step = literal
         \/ after # end /\ step = literal \o behindHex \o out[after + 1]
         \/ IsDigit(c, 8) /\ step = octalByte \o out[next]
         \/ IsDigit(c, 8) /\ next # end /\ step = octalByte \o behindOctal
         \/ step = unknown \o out[i + 2]
    BY <2>10
  <2> HIDE DEF step
  <2>12. \A a, b, d \in Seq(Writes) : a \o b \in Seq(Writes) /\ (a \o b) \o d \in Seq(Writes)
    BY WritesJoined
  <2>13. step \in Seq(Writes)
    <3>1. step = << >> => step \in Seq(Writes)
      BY WritesJoined
    <3>2. step = crlf \o out[i + 2] => step \in Seq(Writes)
      BY <2>3, <2>7, <2>12
    <3>3. c \in DOMAIN SimpleEscapes /\ step = simpleByte \o out[i + 2] => step \in Seq(Writes)
      BY <2>3, <2>6, <2>12
    <3>4. step = hexByte \o out[after] => step \in Seq(Writes)
      BY <2>3, <2>5, <2>12
    <3>5. step = literal => step \in Seq(Writes)
      BY <2>4
    <3>6. after # end /\ step = literal \o behindHex \o out[after + 1] => step \in Seq(Writes)
      BY <2>3, <2>4, <2>8, <2>12
    <3>7. IsDigit(c, 8) /\ step = octalByte \o out[next] => step \in Seq(Writes)
      BY <2>3, <2>5, <2>12
    <3>8. IsDigit(c, 8) /\ next # end /\ step = octalByte \o behindOctal => step \in Seq(Writes)
      BY <2>5, <2>9, <2>12
    <3>9. step = unknown \o out[i + 2] => step \in Seq(Writes)
      BY <2>3, <2>7, <2>12
    <3> QED  BY <2>11, <3>1, <3>2, <3>3, <3>4, <3>5, <3>6, <3>7, <3>8, <3>9, Zenon
  <2> QED  BY <2>13 DEF step
<1> QED  BY <1>3, <1>4, <1>5, <1>6

\* It uses only what is written behind it.
LEMMA EscapeStepsAgree ==
  ASSUME NEW text \in Texts, NEW i \in 1 .. Len(text) + 1, NEW f, NEW g,
         \A j \in i + 1 .. Len(text) + 1 : f[j] = g[j]
  PROVE  EscapeStep(text, f, i) = EscapeStep(text, g, i)
<1> DEFINE end == Len(text) + 1
           c == text[i + 1]
           after == i + 2 + Hex(text, i + 2)
           next == i + 1 + Octal(text, i + 1)
<1>1. Len(text) \in Nat /\ end \in Int /\ i \in Int
  BY Characters
<1>2. CASE i = end
  BY <1>2 DEF EscapeStep
<1>3. CASE i # end /\ text[i] # "\\"
  <2>1. f[i + 1] = g[i + 1]
    BY <1>1, <1>3
  <2> QED  BY <1>3, <2>1 DEF EscapeStep
<1>4. CASE i # end /\ text[i] = "\\" /\ i + 1 = end
  BY <1>4 DEF EscapeStep
<1>5. CASE i # end /\ text[i] = "\\" /\ i + 1 # end
  <2>1. i \in 1 .. Len(text)
    BY <1>1, <1>5
  <2>2. /\ i + 2 \in 1 .. Len(text) + 1 /\ after \in i + 2 .. end
        /\ IsDigit(c, 8) => next \in i + 2 .. end
    BY <1>5, <2>1, EscapePlaces
  <2> HIDE DEF after, next, c
  <2>3. i + 2 \in i + 1 .. end /\ after \in i + 1 .. end /\ (IsDigit(c, 8) => next \in i + 1 .. end)
    BY <1>1, <2>2
  <2>4. after # end => after + 1 \in i + 1 .. end
    BY <1>1, <2>2
  <2>5. \A j \in i + 1 .. end : f[j] = g[j]
    OBVIOUS
  <2> HIDE DEF end
  <2>6. f[i + 2] = g[i + 2] /\ f[after] = g[after] /\ (after # end => f[after + 1] = g[after + 1])
        /\ (IsDigit(c, 8) => f[next] = g[next])
    BY <2>3, <2>4, <2>5
  <2> DEFINE literal == <<Write(<<"\\", "x">>), Write(SubSeq(text, i + 2, after - 1))>>
             octalByte == <<WriteByte(Byte(Number(SubSeq(text, i + 1, next - 1), 8)))>>
             hexByte == <<WriteByte(Byte(Number(SubSeq(text, i + 2, after - 1), 16)))>>
             Made(out) ==
               CASE c = "c" -> << >>
                 [] c = "n" -> <<Write(Crlf)>> \o out[i + 2]
                 [] c \in DOMAIN SimpleEscapes -> <<WriteByte(Byte(SimpleEscapes[c]))>> \o out[i + 2]
                 [] c = "x" /\ Hex(text, i + 2) = HexLimit -> hexByte \o out[after]
                 [] c = "x" /\ Hex(text, i + 2) < HexLimit ->
                      IF after = end THEN literal
                      ELSE literal \o <<WriteByte(text[after])>> \o out[after + 1]
                 [] IsDigit(c, 8) ->
                      IF Octal(text, i + 1) = 3 \/ next = end THEN octalByte \o out[next]
                      ELSE octalByte \o <<Write(<<text[next]>>)>>
                 [] OTHER -> <<WriteByte("\\"), WriteByte(c)>> \o out[i + 2]
  <2>7. \A out : EscapeStep(text, out, i) = Made(out)
    BY <1>5, Zenon DEF EscapeStep, after, next, c, end
  <2> HIDE DEF literal, octalByte, hexByte
  <2>8. Made(f) = Made(g)
    BY <2>6
  <2> HIDE DEF Made
  <2> QED  BY <2>7, <2>8
<1> QED  BY <1>2, <1>3, <1>4, <1>5

\* There is a function that write_escaped follows.
LEMMA EscapingsExist ==
  ASSUME NEW text \in Texts
  PROVE  \E f : Escapings(text, f)
<1> DEFINE n == Len(text) + 1
           V == Seq(Writes)
           S == [f \in [1 .. n -> V] |-> [i \in 1 .. n |-> EscapeStep(text, f, i)]]
<1>1. Len(text) \in Nat /\ n \in Nat
  BY Characters
<1>2. ASSUME NEW f \in [1 .. n -> V], NEW i \in 1 .. n
      PROVE  EscapeStep(text, f, i) \in V
  <2>1. \A j \in i + 1 .. n : f[j] \in V
    BY <1>1
  <2> QED  BY <2>1, EscapeStepType
<1>3. V # {}
  BY WritesJoined
<1>4. S \in [[1 .. n -> V] -> [1 .. n -> V]]
  <2> HIDE DEF V, n
  <2> QED  BY <1>2
<1>5. ASSUME NEW f \in [1 .. n -> V], NEW g \in [1 .. n -> V], NEW i \in 1 .. n,
             \A j \in i + 1 .. n : f[j] = g[j]
      PROVE  S[f][i] = S[g][i]
  <2>1. EscapeStep(text, f, i) = EscapeStep(text, g, i)
    BY <1>5, EscapeStepsAgree
  <2> HIDE DEF V, n
  <2> QED  BY <2>1
<1>6. \A f \in [1 .. n -> V] : S[f] = [i \in 1 .. n |-> EscapeStep(text, f, i)]
  OBVIOUS
<1>7. Repeats(1 .. n, V, S)
  <2> HIDE DEF S, V, n
  <2>1. FromLater(n, V, S)
    BY <1>4, <1>5 DEF FromLater
  <2> QED  BY <1>1, <1>3, <2>1, RecursionToTheEnd
<1>8. PICK f \in [1 .. n -> V] : f = S[f]
  <2> HIDE DEF S, V, n
  <2> QED  BY <1>7 DEF Repeats
<1>9. f = [i \in 1 .. n |-> EscapeStep(text, f, i)]
  <2> HIDE DEF S, V, n
  <2> QED  BY <1>6, <1>8
<1> QED  BY <1>9 DEF Escapings

\* write_escaped makes writes.
LEMMA WriteEscapedType ==
  ASSUME NEW text \in Texts
  PROVE  WriteEscaped(text) \in Seq(Writes)
<1> DEFINE f == CHOOSE f : Escapings(text, f)
           n == Len(text) + 1
           Good == {i \in 1 .. n : f[i] \in Seq(Writes)}
<1>1. Escapings(text, f)
  BY EscapingsExist
<1>2. WriteEscaped(text) = f[1]
  BY WriteEscapedUnfolds
<1> HIDE DEF f
<1>3. n \in Nat /\ 1 \in 1 .. n
  BY Characters
<1>4. ASSUME NEW i \in 1 .. n, \A j \in i + 1 .. n : j \in Good
      PROVE  i \in Good
  <2>1. \A j \in i + 1 .. n : f[j] \in Seq(Writes)
    BY <1>4
  <2>2. EscapeStep(text, f, i) \in Seq(Writes)
    BY <2>1, EscapeStepType
  <2>3. f[i] = EscapeStep(text, f, i)
    BY <1>1 DEF Escapings
  <2> QED  BY <2>2, <2>3
<1>5. \A i \in 1 .. n : i \in Good
  <2> HIDE DEF Good
  <2> QED  BY <1>3, <1>4, FromTheEnd
<1> QED  BY <1>2, <1>3, <1>5

\* The flags of echo.
Flags == [start : Nat \ {0}, done : BOOLEAN, newline : BOOLEAN, escapes : BOOLEAN]
Unread == [start |-> 1, newline |-> TRUE, escapes |-> FALSE, done |-> FALSE]

\* An argument more.
LEMMA ReadFlagsType ==
  ASSUME NEW flags \in Flags, NEW arg
  PROVE  ReadFlags(flags, arg) \in Flags
<1> DEFINE letters == {"n", "e", "E"}
           valid == CHOOSE k \in 1 .. Len(arg) :
             /\ \A m \in 2 .. k : arg[m] \in letters
             /\ k < Len(arg) => arg[k + 1] \notin letters
           switches == {m \in 2 .. valid : arg[m] \in {"e", "E"}}
           newline == flags.newline /\ \A m \in 2 .. valid : arg[m] # "n"
           escapes == IF switches = {} THEN flags.escapes ELSE arg[Max(switches)] = "e"
           seen(start, done) ==
             [start |-> start, done |-> done, newline |-> newline, escapes |-> escapes]
<1>1. flags.start + 1 \in Nat \ {0} /\ flags.start \in Nat \ {0}
  BY DEF Flags
<1>2. newline \in BOOLEAN /\ escapes \in BOOLEAN
  BY DEF Flags
<1>3. \/ ReadFlags(flags, arg) = flags
      \/ ReadFlags(flags, arg) = [flags EXCEPT !.start = @ + 1, !.done = TRUE]
      \/ ReadFlags(flags, arg) = seen(flags.start + 1, FALSE)
      \/ ReadFlags(flags, arg) = seen(flags.start, TRUE)
      \/ ReadFlags(flags, arg) = [flags EXCEPT !.done = TRUE]
  BY DEF ReadFlags, Flags
<1> HIDE DEF newline, escapes
<1>4. seen(flags.start + 1, FALSE) \in Flags /\ seen(flags.start, TRUE) \in Flags
  BY <1>1, <1>2 DEF Flags
<1>5. [flags EXCEPT !.start = @ + 1, !.done = TRUE] \in Flags /\ [flags EXCEPT !.done = TRUE] \in Flags
  BY <1>1 DEF Flags
<1> QED  BY <1>3, <1>4, <1>5

\* Reading them one after the other.
FlagStep(args, read, k) == IF k = 0 THEN Unread ELSE ReadFlags(read[k - 1], args[k])
FlagsRead(args, f) == f = [k \in 0 .. Len(args) |-> FlagStep(args, f, k)]

\* There is a function that reads them.
LEMMA FlagsReadExist ==
  ASSUME NEW args \in Seq(Texts)
  PROVE  \E f : FlagsRead(args, f)
<1> DEFINE n == Len(args)
           S == [f \in [0 .. n -> Flags] |-> [k \in 0 .. n |-> FlagStep(args, f, k)]]
<1>1. Unread \in Flags
  BY DEF Unread, Flags
<1>2. n \in Nat
  BY LenProperties
<1>3. ASSUME NEW f \in [0 .. n -> Flags], NEW k \in 0 .. n
      PROVE  FlagStep(args, f, k) \in Flags
  <2>1. k # 0 => f[k - 1] \in Flags
    BY <1>2
  <2> QED  BY <1>1, <2>1, ReadFlagsType DEF FlagStep
<1>4. S \in [[0 .. n -> Flags] -> [0 .. n -> Flags]]
  <2> HIDE DEF n
  <2> QED  BY <1>3
<1>5. ASSUME NEW f \in [0 .. n -> Flags], NEW g \in [0 .. n -> Flags], NEW k \in 0 .. n,
             \A j \in 0 .. k - 1 : f[j] = g[j]
      PROVE  S[f][k] = S[g][k]
  <2>1. k # 0 => f[k - 1] = g[k - 1]
    BY <1>2, <1>5
  <2>2. FlagStep(args, f, k) = FlagStep(args, g, k)
    BY <2>1 DEF FlagStep
  <2> HIDE DEF n
  <2> QED  BY <2>2
<1>6. \A f \in [0 .. n -> Flags] : S[f] = [k \in 0 .. n |-> FlagStep(args, f, k)]
  OBVIOUS
<1>7. Repeats(0 .. n, Flags, S)
  <2> HIDE DEF S, n
  <2>1. FromEarlier(n, Flags, S)
    BY <1>4, <1>5 DEF FromEarlier
  <2> QED  BY <1>1, <1>2, <2>1, RecursionToTheFront
<1>8. PICK f \in [0 .. n -> Flags] : f = S[f]
  <2> HIDE DEF S, n
  <2> QED  BY <1>7 DEF Repeats
<1>9. f = [k \in 0 .. n |-> FlagStep(args, f, k)]
  <2> HIDE DEF S, n
  <2> QED  BY <1>6, <1>8
<1> QED  BY <1>9 DEF FlagsRead

\* What is read of them.
LEMMA FlagsReadType ==
  ASSUME NEW args \in Seq(Texts), NEW f, FlagsRead(args, f)
  PROVE  f[Len(args)] \in Flags
<1> DEFINE n == Len(args)
           Good == {k \in 0 .. n : f[k] \in Flags}
<1>1. n \in Nat /\ n \in 0 .. n
  BY LenProperties
<1>2. ASSUME NEW k \in 0 .. n, \A j \in 0 .. k - 1 : j \in Good
      PROVE  k \in Good
  <2>1. k # 0 => f[k - 1] \in Flags
    <3>1. k # 0 => k - 1 \in 0 .. k - 1
      BY <1>1
    <3> QED  BY <1>2, <3>1
  <2>2. f[k] = FlagStep(args, f, k)
    BY DEF FlagsRead
  <2>3. Unread \in Flags
    BY DEF Unread, Flags
  <2> QED  BY <2>1, <2>2, <2>3, ReadFlagsType DEF FlagStep
<1>3. \A k \in 0 .. n : k \in Good
  <2> HIDE DEF Good
  <2> QED  BY <1>1, <1>2, FromTheFront
<1> QED  BY <1>1, <1>3

\* echo makes writes.
LEMMA EchoType ==
  ASSUME NEW args \in Seq(Texts)
  PROVE  Echo(args) \in Seq(Writes)
<1> DEFINE f == CHOOSE f : FlagsRead(args, f)
           flags == f[Len(args)]
           rest == SubSeq(args, flags.start, Len(args))
           printed(i) ==
             (IF i > 1 THEN <<WriteByte(" ")>> ELSE << >>)
               \o (IF flags.escapes THEN WriteEscaped(rest[i]) ELSE <<Write(rest[i])>>)
           each == [i \in 1 .. Len(rest) |-> printed(i)]
           last == IF flags.newline THEN <<Write(Crlf)>> ELSE << >>
<1>1. FlagsRead(args, f)
  BY FlagsReadExist
<1>2. Echo(args) = FlattenSeq([i \in DOMAIN rest |-> printed(i)]) \o last
  BY Zenon DEF Echo, FlagsRead, FlagStep, Unread
<1> HIDE DEF f
<1>3. flags \in Flags
  BY <1>1, FlagsReadType
<1> HIDE DEF flags
<1>4. rest \in Seq(Texts)
  <2>1. flags.start \in Nat \ {0} /\ Len(args) \in Int /\ Len(args) <= Len(args)
    BY <1>3, LenProperties DEF Flags
  <2> QED  BY <2>1, PartOfText
<1> HIDE DEF rest
<1>5. Len(rest) \in Nat /\ DOMAIN rest = 1 .. Len(rest) /\ \A i \in 1 .. Len(rest) : rest[i] \in Texts
  BY <1>4, LenProperties, ElementOfSeq
<1>6. \A i \in 1 .. Len(rest) : printed(i) \in Seq(Writes)
  <2> TAKE i \in 1 .. Len(rest)
  <2>1. " " \in STRING
    BY StringAssumption DEF Literals
  <2>2. <<WriteByte(" ")>> \in Seq(Writes)
    BY <2>1, WriteTypes, WritesJoined
  <2>3. WriteEscaped(rest[i]) \in Seq(Writes)
    BY <1>5, WriteEscapedType
  <2>4. <<Write(rest[i])>> \in Seq(Writes)
    BY <1>5, WriteTypes, WritesJoined
  <2> DEFINE front == IF i > 1 THEN <<WriteByte(" ")>> ELSE << >>
             behind == IF flags.escapes THEN WriteEscaped(rest[i]) ELSE <<Write(rest[i])>>
  <2>5. front \in Seq(Writes) /\ behind \in Seq(Writes)
    BY <2>2, <2>3, <2>4, WritesJoined
  <2>6. printed(i) = front \o behind
    OBVIOUS
  <2> HIDE DEF front, behind, printed
  <2> QED  BY <2>5, <2>6, WritesJoined
<1>7. FlattenSeq(each) \in Seq(Writes)
  <2>1. each = [i \in 1 .. Len(rest) |-> each[i]] /\ \A i \in 1 .. Len(rest) : each[i] \in Seq(Writes)
    BY <1>6
  <2> HIDE DEF each
  <2> QED  BY <1>5, <2>1, FlattenEach
<1>8. last \in Seq(Writes)
  BY WriteTypes, WritesJoined
<1>9. Echo(args) = FlattenSeq(each) \o last
  BY <1>2, <1>5
<1> HIDE DEF each, last
<1> QED  BY <1>7, <1>8, <1>9, WritesJoined

-----------------------------------------------------------------------------
(* The other builtins. *)

\* The environment is searched for the first entry.
LEMMA FirstDefiningFinds ==
  ASSUME NEW env \in Seq(Texts), NEW name
  PROVE  /\ FirstDefining(env, name) \in 0 .. Len(env)
         /\ FirstDefining(env, name) # 0 => Defines(env[FirstDefining(env, name)], name)
         /\ \A i \in 1 .. Len(env) : Defines(env[i], name) =>
              FirstDefining(env, name) # 0 /\ FirstDefining(env, name) <= i
<1> DEFINE places == {i \in 1 .. Len(env) : Defines(env[i], name)}
           first == FirstDefining(env, name)
<1>1. Len(env) \in Nat /\ places \subseteq Nat
  BY LenProperties
<1>2. first = IF places # {} THEN Min(places) ELSE 0
  BY DEF FirstDefining, SelectInSeq
<1>3. places # {} => Min(places) \in places /\ \A i \in places : Min(places) <= i
  <2> HIDE DEF places
  <2>1. places # {} => \E i \in places : \A k \in places : i <= k
    BY <1>1, Smallest
  <2> QED  BY <2>1 DEF Min
<1> HIDE DEF first
<1> QED
  <2>1. CASE places = {}
    <3>1. first = 0 /\ \A i \in 1 .. Len(env) : ~ Defines(env[i], name)
      BY <1>2, <2>1
    <3> QED  BY <1>1, <3>1 DEF first
  <2>2. CASE places # {}
    <3>1. first \in places /\ \A i \in places : first <= i
      BY <1>2, <1>3, <2>2
    <3>2. first \in 1 .. Len(env) /\ Defines(env[first], name)
      BY <3>1
    <3>3. \A i \in 1 .. Len(env) : Defines(env[i], name) => first <= i
      BY <3>1
    <3> QED  BY <1>1, <3>2, <3>3 DEF first
  <2> QED  BY <2>1, <2>2

\* printenv makes writes.
LEMMA PrintenvType ==
  ASSUME NEW args \in Seq(Texts), NEW env \in Seq(Texts)
  PROVE  Printenv(args, env) \in Seq(Writes)
<1> DEFINE n == Len(args)
           m == Len(env)
           value(entry, name) == SubSeq(entry, Len(name) + 2, Len(entry))
           entry(name) == env[FirstDefining(env, name)]
           printed(name) ==
             IF FirstDefining(env, name) = 0 THEN << >>
             ELSE <<Write(value(entry(name), name)), Write(Crlf)>>
           one == [i \in 1 .. n |-> printed(args[i])]
           all == [i \in 1 .. m |-> <<Write(env[i]), Write(Crlf)>>]
<1>1. /\ n \in Nat /\ DOMAIN args = 1 .. n /\ \A i \in 1 .. n : args[i] \in Texts
      /\ m \in Nat /\ DOMAIN env = 1 .. m /\ \A i \in 1 .. m : env[i] \in Texts
  BY LenProperties, ElementOfSeq
<1>2. ASSUME NEW i \in 1 .. n PROVE printed(args[i]) \in Seq(Writes)
  <2> DEFINE name == args[i]
             first == FirstDefining(env, name)
  <2>1. first \in 0 .. m
    BY FirstDefiningFinds
  <2>2. Len(name) + 2 \in Nat \ {0}
    BY <1>1, Characters
  <2> HIDE DEF name, first
  <2>3. first # 0 => value(env[first], name) \in Texts
    <3> SUFFICES ASSUME first # 0 PROVE value(env[first], name) \in Texts
      OBVIOUS
    <3>1. first \in 1 .. m
      BY <1>1, <2>1
    <3> DEFINE found == env[first]
    <3>2. found \in Texts
      BY <1>1, <3>1
    <3> HIDE DEF found
    <3>3. Len(found) \in Int /\ Len(found) <= Len(found) /\ found \in Seq(STRING)
      BY <3>2, Characters DEF Texts
    <3>4. SubSeq(found, Len(name) + 2, Len(found)) \in Texts
      BY <2>2, <3>3, PartOfText DEF Texts
    <3> QED  BY <3>4 DEF found
  <2>4. first # 0 => <<Write(value(env[first], name)), Write(Crlf)>> \in Seq(Writes)
    <3> HIDE DEF value
    <3> QED  BY <2>3, WriteTypes, WritesJoined
  <2>5. printed(name) = IF first = 0 THEN << >> ELSE <<Write(value(env[first], name)), Write(Crlf)>>
    BY DEF first
  <2>6. printed(name) \in Seq(Writes)
    <3> HIDE DEF printed, value
    <3> QED  BY <2>4, <2>5, WritesJoined
  <2> QED  BY <2>6 DEF name
<1>3. FlattenSeq(one) \in Seq(Writes)
  <2>1. one = [i \in 1 .. n |-> one[i]] /\ \A i \in 1 .. n : one[i] \in Seq(Writes)
    <3> HIDE DEF printed
    <3> QED  BY <1>2
  <2> HIDE DEF one
  <2> QED  BY <1>1, <2>1, FlattenEach
<1>4. FlattenSeq(all) \in Seq(Writes)
  <2>1. all = [i \in 1 .. m |-> all[i]] /\ \A i \in 1 .. m : all[i] \in Seq(Writes)
    BY <1>1, WriteTypes, WritesJoined
  <2> HIDE DEF all
  <2> QED  BY <1>1, <2>1, FlattenEach
<1>5. Printenv(args, env) = IF args = << >> THEN FlattenSeq(all) ELSE FlattenSeq(one)
  BY <1>1 DEF Printenv
<1> QED  BY <1>3, <1>4, <1>5

\* The messages of the other builtins.
LEMMA Messages ==
  /\ Say(NoStdin) \in Writes /\ Write(<<"cat: ">>) \in Writes
  /\ Say(": No such file or directory") \in Writes
  /\ Say("vish, built-in commands:") \in Writes /\ Write(<<"  ">>) \in Writes
  /\ Say("Use 'man' or external commands for detailed help.") \in Writes
  /\ Say("no history") \in Writes /\ Write(<<"exit: numeric argument required: ">>) \in Writes
  /\ Say("exit: too many arguments") \in Writes
  /\ Write(<<"No such file or directory">>) \in Writes
  /\ Write(<<"cd not yet implemented for this platform">>) \in Writes
  /\ Say("cd: no directory argument") \in Writes /\ Write(<<"cd: ">>) \in Writes
  /\ Write(<<": ">>) \in Writes /\ Write(<<"clear screen">>) \in Writes
  /\ Say(": command not found") \in Writes /\ Write(Crlf) \in Writes
<1>1. \A message \in Literals : Say(message) \in Writes /\ Write(<<message>>) \in Writes
  <2>1. Literals \subseteq STRING
    BY StringAssumption
  <2> QED  BY <2>1, WriteTypes, TextsJoined
<1>2. {NoStdin, ": No such file or directory", "vish, built-in commands:", "  ", "cat: ",
       "Use 'man' or external commands for detailed help.", "no history", "clear screen",
       "exit: numeric argument required: ", "exit: too many arguments",
       "No such file or directory", "cd not yet implemented for this platform",
       "cd: no directory argument", "cd: ", ": ", ": command not found"} \subseteq Literals
  BY DEF Literals, NoStdin
<1> QED  BY <1>1, <1>2, WriteTypes

\* cat makes writes.
LEMMA CatType ==
  ASSUME NEW args \in Seq(Texts), NEW std \in BOOLEAN
  PROVE  Cat(args, std) \in Seq(Writes)
<1> DEFINE n == Len(args)
           refusal(name) == <<Write(<<"cat: ">>), Write(name), Say(": No such file or directory")>>
           printed(name) ==
             CASE name = <<"-">> -> <<Say(NoStdin)>>
               [] name # <<"-">> /\ Readable(name, std) -> <<Write(Files[name])>>
               [] OTHER -> refusal(name)
           each == [i \in 1 .. n |-> printed(args[i])]
<1>1. n \in Nat /\ DOMAIN args = 1 .. n /\ \A i \in 1 .. n : args[i] \in Texts
  BY LenProperties, ElementOfSeq
<1>2. <<Say(NoStdin)>> \in Seq(Writes)
  BY Messages, WritesJoined
<1>3. \A name \in Texts : refusal(name) \in Seq(Writes)
  BY Messages, WriteTypes, WritesJoined
<1>4. \A name : Readable(name, std) => <<Write(Files[name])>> \in Seq(Writes)
  <2>1. \A name : Readable(name, std) => Files[name] \in Texts
    BY FileAssumption DEF Readable, Texts
  <2> QED  BY <2>1, WriteTypes, WritesJoined
<1>5. \A name \in Texts : printed(name) \in Seq(Writes)
  <2> HIDE DEF refusal
  <2> QED  BY <1>2, <1>3, <1>4
<1>6. FlattenSeq(each) \in Seq(Writes)
  <2>1. each = [i \in 1 .. n |-> each[i]] /\ \A i \in 1 .. n : each[i] \in Seq(Writes)
    <3> HIDE DEF printed
    <3> QED  BY <1>1, <1>5
  <2> HIDE DEF each
  <2> QED  BY <1>1, <2>1, FlattenEach
<1>7. Cat(args, std) = IF args = << >> THEN <<Say(NoStdin)>> ELSE FlattenSeq(each)
  BY <1>1 DEF Cat
<1> HIDE DEF each
<1> QED  BY <1>2, <1>6, <1>7

\* help makes writes.
LEMMA HelpType == Help \in Seq(Writes)
<1> DEFINE each == [i \in 1 .. 10 |-> <<Write(<<"  ">>), Write(<<BuiltinNames[i]>>), Write(Crlf)>>]
           first == <<Say("vish, built-in commands:")>>
           last == <<Write(Crlf), Say("Use 'man' or external commands for detailed help.")>>
<1>1. DOMAIN BuiltinNames = 1 .. 10 /\ \A i \in 1 .. 10 : BuiltinNames[i] \in Literals
  BY DEF BuiltinNames, Literals
<1>2. \A i \in 1 .. 10 : BuiltinNames[i] \in STRING
  BY <1>1, StringAssumption
<1>3. \A i \in 1 .. 10 : Write(<<BuiltinNames[i]>>) \in Writes
  BY <1>2, WriteTypes, TextsJoined
<1>4. FlattenSeq(each) \in Seq(Writes)
  <2>1. each = [i \in 1 .. 10 |-> each[i]] /\ \A i \in 1 .. 10 : each[i] \in Seq(Writes)
    BY <1>3, Messages, WritesJoined
  <2>2. 10 \in Nat
    OBVIOUS
  <2> HIDE DEF each
  <2> QED  BY <2>1, <2>2, FlattenEach
<1>5. first \in Seq(Writes) /\ last \in Seq(Writes)
  BY Messages, WritesJoined
<1>6. Help = first \o FlattenSeq(each) \o last
  BY <1>1 DEF Help
<1> HIDE DEF first, last, each
<1> QED  BY <1>4, <1>5, <1>6, WritesJoined

\* So does history, which has no more than four entries here.
LEMMA ShowHistoryType ==
  ASSUME NEW entries \in Seq(Texts), Len(entries) <= 4
  PROVE  ShowHistory(entries) \in Seq(Writes)
<1>1. Len(entries) \in Nat /\ DOMAIN entries = 1 .. Len(entries)
      /\ \A i \in 1 .. Len(entries) : entries[i] \in Texts
  BY LenProperties, ElementOfSeq
<1>2. <<Say("no history")>> \in Seq(Writes)
  BY Messages, WritesJoined
<1>3. ASSUME NEW i \in 1 .. Len(entries)
      PROVE  Write(<<"  ", ToString(i), "  ">> \o entries[i] \o Crlf) \in Writes
  <2>1. i \in 1 .. 4
    BY <1>1
  <2>2. ToString(i) \in STRING
    BY <2>1, StringAssumption
  <2>3. "  " \in STRING
    BY StringAssumption DEF Literals
  <2>4. <<"  ", ToString(i), "  ">> \in Texts
    BY <2>2, <2>3, ShortSequences DEF Texts
  <2>5. <<"  ", ToString(i), "  ">> \o entries[i] \o Crlf \in Texts
    BY <1>1, <2>4, TextsJoined, WriteTypes
  <2> QED  BY <2>5, WriteTypes
<1> DEFINE each == [i \in 1 .. Len(entries) |-> Write(<<"  ", ToString(i), "  ">> \o entries[i] \o Crlf)]
<1>4. each \in Seq(Writes)
  <2>1. each \in [1 .. Len(entries) -> Writes]
    BY <1>3
  <2> HIDE DEF each
  <2> QED  BY <1>1, <2>1
<1>5. ShowHistory(entries) = IF entries = << >> THEN <<Say("no history")>> ELSE each
  BY <1>1 DEF ShowHistory
<1> HIDE DEF each
<1> QED  BY <1>2, <1>4, <1>5

\* What execute gives: writes and an environment.
Outcome(result) == result.output \in Seq(Writes) /\ result.env \in Seq(Texts)

\* exit.
LEMMA ExitType ==
  ASSUME NEW args \in Seq(Texts), NEW env \in Seq(Texts)
  PROVE  Outcome(Exit(args, env)) /\ Exit(args, env).env = env
<1> DEFINE numeric == <<Write(<<"exit: numeric argument required: ">>), Write(args[1]), Write(Crlf)>>
           many == <<Say("exit: too many arguments")>>
<1>1. many \in Seq(Writes) /\ << >> \in Seq(Writes)
  BY Messages, WritesJoined
<1>2. Len(args) = 1 => numeric \in Seq(Writes)
  <2>1. Len(args) = 1 => args[1] \in Texts
    BY LenProperties
  <2> QED  BY <2>1, Messages, WriteTypes, WritesJoined
<1>3. /\ Exit(args, env).env = env
      /\ \/ Exit(args, env).output = << >>
         \/ Len(args) = 1 /\ Exit(args, env).output = numeric
         \/ Exit(args, env).output = many
  <2> DEFINE leaves == Len(args) = 0 \/ (Len(args) = 1 /\ IsNumber(args[1]))
             refuses == Len(args) = 1 /\ ~ IsNumber(args[1])
  <2>1. Exit(args, env) =
          CASE leaves -> [Result(<< >>, 0, env) EXCEPT !.leave = TRUE]
            [] refuses -> Result(numeric, 2, env)
            [] OTHER -> Result(many, 1, env)
    BY DEF Exit
  <2> HIDE DEF leaves, numeric, many
  <2>2. leaves => ~ refuses
    BY DEF leaves
  <2>3. refuses => Len(args) = 1
    OBVIOUS
  <2> HIDE DEF refuses
  <2>4. \/ Exit(args, env) = [Result(<< >>, 0, env) EXCEPT !.leave = TRUE]
        \/ refuses /\ Exit(args, env) = Result(numeric, 2, env)
        \/ Exit(args, env) = Result(many, 1, env)
    BY <2>1, <2>2
  <2> QED  BY <2>3, <2>4 DEF Result
<1> HIDE DEF numeric, many
<1> QED  BY <1>1, <1>2, <1>3 DEF Outcome

\* The entry of update_pwd, wherever it goes.
LEMMA UpdatedPwdType ==
  ASSUME NEW env \in Seq(Texts), NEW path \in Texts
  PROVE  UpdatedPwd(env, path) \in Seq(Texts)
<1> DEFINE entry == Text("PWD=") \o path
           i == FirstDefining(env, Text("PWD"))
<1>1. entry \in Texts
  <2>1. Text("PWD") \in Texts /\ Text("PWD=") = Append(Text("PWD"), "=")
    BY StringAssumption DEF Texts
  <2>2. "=" \in STRING
    BY StringAssumption DEF Literals
  <2>3. Text("PWD=") \in Texts
    <3>1. \A t \in Texts, c \in STRING : Append(t, c) \in Texts
      BY AppendProperties DEF Texts
    <3> QED  BY <2>1, <2>2, <3>1, Zenon
  <2> QED  BY <2>3, TextsJoined
<1>2. i \in 0 .. Len(env) /\ Len(env) \in Nat
  BY FirstDefiningFinds, LenProperties
<1>3. UpdatedPwd(env, path) = IF i = 0 THEN Append(env, entry) ELSE [env EXCEPT ![i] = entry]
  BY DEF UpdatedPwd
<1> HIDE DEF entry, i
<1>4. Append(env, entry) \in Seq(Texts)
  BY <1>1, AppendProperties
<1>5. i # 0 => [env EXCEPT ![i] = entry] \in Seq(Texts)
  BY <1>1, <1>2, ExceptSeq
<1> QED  BY <1>3, <1>4, <1>5

\* cd.
LEMMA CdType ==
  ASSUME NEW args \in Seq(Texts), NEW env \in Seq(Texts), NEW std \in BOOLEAN
  PROVE  Outcome(Cd(args, env, std))
<1> DEFINE message == IF std THEN "No such file or directory"
                      ELSE "cd not yet implemented for this platform"
           refusal == <<Write(<<"cd: ">>), Write(args[1]), Write(<<": ">>),
                        Write(<<message>>), Write(Crlf)>>
           missing == <<Say("cd: no directory argument")>>
<1>1. missing \in Seq(Writes) /\ << >> \in Seq(Writes)
  BY Messages, WritesJoined
<1>2. args # << >> => refusal \in Seq(Writes)
  <2> SUFFICES ASSUME args # << >> PROVE refusal \in Seq(Writes)
    OBVIOUS
  <2>1. args[1] \in Texts
    BY EmptySeq, LenProperties
  <2>2. Write(<<message>>) \in Writes
    BY Messages
  <2>3. Write(<<"cd: ">>) \in Writes /\ Write(args[1]) \in Writes /\ Write(<<": ">>) \in Writes
        /\ Write(Crlf) \in Writes
    BY <2>1, Messages, WriteTypes
  <2> HIDE DEF message
  <2>4. \A S : \A a, b, c, d, e \in S : <<a, b, c, d, e>> \in Seq(S)
    OBVIOUS
  <2> QED  BY <2>2, <2>3, <2>4
<1>3. \/ Cd(args, env, std).output \in {missing, << >>}
      \/ args # << >> /\ Cd(args, env, std).output = refusal
  BY DEF Cd, Result
<1>4. \/ Cd(args, env, std).env = env
      \/ /\ args[1] \in DOMAIN Directories
         /\ Cd(args, env, std).env = UpdatedPwd(env, Directories[args[1]])
  BY DEF Cd, Result
<1>5. args[1] \in DOMAIN Directories => UpdatedPwd(env, Directories[args[1]]) \in Seq(Texts)
  <2>1. args[1] \in DOMAIN Directories => Directories[args[1]] \in Texts
    BY FileAssumption DEF Texts
  <2> QED  BY <2>1, UpdatedPwdType
<1> HIDE DEF missing, refusal
<1> QED  BY <1>1, <1>2, <1>3, <1>4, <1>5 DEF Outcome

-----------------------------------------------------------------------------
(* execute. *)

\* The first command of a pipeline.
LEMMA FirstCommand ==
  ASSUME NEW commands \in Seq(Commands), commands # << >>
  PROVE  /\ commands[1].argv \in Seq(Texts)
         /\ commands[1].argv # << >> =>
              commands[1].argv[1] \in Texts /\ Tail(commands[1].argv) \in Seq(Texts)
<1>1. commands[1] \in Commands
  BY EmptySeq, LenProperties
<1>2. commands[1].argv \in Seq(Texts)
  BY <1>1 DEF Commands
<1>3. \A S : \A seq \in Seq(S) : seq # << >> => seq[1] \in S /\ Tail(seq) \in Seq(S)
  BY EmptySeq, LenProperties, HeadTailProperties
<1> QED  BY <1>2, <1>3

\* What commands other than exit and cd write.
Outputs(argv, env, entries, std) ==
  {ShowHistory(entries), Echo(Tail(argv)), Cat(Tail(argv), std), Printenv(Tail(argv), env),
   <<Write(<<"clear screen">>)>>, << >>, Help, <<Write(argv[1]), Say(": command not found")>>}

\* No two names of commands are the same text.
LEMMA NamesDiffer ==
  /\ Text("history") # Text("echo") /\ Text("history") # Text("cat") /\ Text("history") # Text("printenv")
  /\ Text("history") # Text("clear") /\ Text("history") # Text("true") /\ Text("history") # Text("false")
  /\ Text("history") # Text("exit") /\ Text("history") # Text("help") /\ Text("history") # Text("cd")
  /\ Text("true") # Text("history") /\ Text("true") # Text("echo") /\ Text("true") # Text("cat")
  /\ Text("true") # Text("printenv") /\ Text("true") # Text("clear") /\ Text("true") # Text("false")
  /\ Text("true") # Text("exit") /\ Text("true") # Text("help") /\ Text("true") # Text("cd")
  /\ Text("false") # Text("history") /\ Text("false") # Text("echo") /\ Text("false") # Text("cat")
  /\ Text("false") # Text("printenv") /\ Text("false") # Text("clear") /\ Text("false") # Text("true")
  /\ Text("false") # Text("exit") /\ Text("false") # Text("help") /\ Text("false") # Text("cd")
  /\ Text("cd") # Text("history") /\ Text("cd") # Text("echo") /\ Text("cd") # Text("cat")
  /\ Text("cd") # Text("printenv") /\ Text("cd") # Text("clear") /\ Text("cd") # Text("true")
  /\ Text("cd") # Text("false") /\ Text("cd") # Text("exit") /\ Text("cd") # Text("help")
<1>1. \A a, b \in CommandNames : a # b => Text(a) # Text(b)
  BY StringAssumption
<1> QED  BY <1>1 DEF CommandNames

\* What a command gives, whichever builtin it is.
LEMMA ExecuteCases ==
  ASSUME NEW commands, NEW env, NEW entries, NEW std,
         NEW argv, argv = commands[1].argv, argv # << >>
  PROVE  \/ \E code : \E output \in Outputs(argv, env, entries, std) :
              Execute(commands, env, entries, std) = Result(output, code, env)
         \/ Execute(commands, env, entries, std) = Exit(Tail(argv), env)
         \/ argv[1] = Text("cd") /\ Execute(commands, env, entries, std) = Cd(Tail(argv), env, std)
<1> DEFINE args == Tail(argv)
           name == argv[1]
           history == Result(ShowHistory(entries), 0, env)
           echo == Result(Echo(args), 0, env)
           cat == Result(Cat(args, std), CatCode(args, std), env)
           printenv == Result(Printenv(args, env), PrintenvCode(args, env), env)
           clear == Result(<<Write(<<"clear screen">>)>>, 0, env)
           success == Result(<< >>, 0, env)
           failure == Result(<< >>, 1, env)
           exit == Exit(args, env)
           help == Result(Help, 0, env)
           cd == Cd(args, env, std)
           unknown == Result(<<Write(name), Say(": command not found")>>, 127, env)
           result == Execute(commands, env, entries, std)
<1>1. result = CASE name = Text("history") -> history
                 [] name = Text("echo") -> echo
                 [] name = Text("cat") -> cat
                 [] name = Text("printenv") -> printenv
                 [] name = Text("clear") -> clear
                 [] name = Text("true") -> success
                 [] name = Text("false") -> failure
                 [] name = Text("exit") -> exit
                 [] name = Text("help") -> help
                 [] name = Text("cd") -> cd
                 [] OTHER -> unknown
  BY Zenon DEF Execute
<1> HIDE DEF name, history, echo, cat, printenv, clear, success, failure, exit, help, cd, unknown, result
<1>2. \/ result = history \/ result = echo \/ result = cat \/ result = printenv
      \/ result = clear \/ result = success \/ result = failure \/ result = help
      \/ result = unknown \/ result = exit
      \/ name = Text("cd") /\ result = cd
  <2>1. CASE name = Text("history")
    BY <1>1, <2>1, NamesDiffer
  <2>2. CASE name = Text("true")
    BY <1>1, <2>2, NamesDiffer
  <2>3. CASE name = Text("false")
    BY <1>1, <2>3, NamesDiffer
  <2>4. CASE name # Text("history") /\ name # Text("true") /\ name # Text("false")
    BY <1>1, <2>4
  <2> QED  BY <2>1, <2>2, <2>3, <2>4
<1>3. ASSUME \/ result = history \/ result = echo \/ result = cat \/ result = printenv
             \/ result = clear \/ result = success \/ result = failure \/ result = help
             \/ result = unknown
      PROVE  \E code : \E output \in Outputs(argv, env, entries, std) :
               result = Result(output, code, env)
  BY <1>3 DEF name, Outputs, history, echo, cat, printenv, clear, success, failure, help, unknown
<1> QED  BY <1>2, <1>3 DEF name, exit, cd, result

\* What a command writes, and the environment it leaves.
LEMMA ExecuteType ==
  ASSUME NEW commands \in Seq(Commands), commands # << >>, NEW env \in Seq(Texts),
         NEW entries \in Seq(Texts), Len(entries) <= 4, NEW std \in BOOLEAN
  PROVE  Outcome(Execute(commands, env, entries, std))
<1> DEFINE argv == commands[1].argv
           result == Execute(commands, env, entries, std)
<1>1. CASE argv = << >>
  BY <1>1, WritesJoined DEF Execute, Result, Outcome
<1>2. CASE argv # << >>
  <2> DEFINE outputs == Outputs(argv, env, entries, std)
  <2>1. argv[1] \in Texts /\ Tail(argv) \in Seq(Texts)
    BY <1>2, FirstCommand
  <2>2. \/ \E code : \E output \in outputs : result = Result(output, code, env)
        \/ result = Exit(Tail(argv), env)
        \/ argv[1] = Text("cd") /\ result = Cd(Tail(argv), env, std)
    BY <1>2, ExecuteCases
  <2>3. outputs \subseteq Seq(Writes)
    <3>1. <<Write(<<"clear screen">>)>> \in Seq(Writes) /\ << >> \in Seq(Writes)
      BY Messages, WritesJoined
    <3>2. <<Write(argv[1]), Say(": command not found")>> \in Seq(Writes)
      BY <2>1, Messages, WriteTypes, WritesJoined
    <3>3. /\ ShowHistory(entries) \in Seq(Writes) /\ Echo(Tail(argv)) \in Seq(Writes)
          /\ Cat(Tail(argv), std) \in Seq(Writes) /\ Printenv(Tail(argv), env) \in Seq(Writes)
          /\ Help \in Seq(Writes)
      BY <2>1, ShowHistoryType, EchoType, CatType, PrintenvType, HelpType
    <3> QED  BY <3>1, <3>2, <3>3 DEF Outputs
  <2> HIDE DEF outputs, result, argv
  <2>4. ASSUME NEW code, NEW output \in outputs PROVE Outcome(Result(output, code, env))
    BY <2>3 DEF Outcome, Result
  <2>5. Outcome(Exit(Tail(argv), env)) /\ Outcome(Cd(Tail(argv), env, std))
    BY <2>1, ExitType, CdType
  <2> QED  BY <2>2, <2>4, <2>5 DEF result
<1> QED  BY <1>1, <1>2

\* Only cd changes the environment.
LEMMA OnlyCdChanges ==
  ASSUME NEW commands \in Seq(Commands), commands # << >>, NEW env \in Seq(Texts), NEW entries, NEW std,
         NEW argv, argv = commands[1].argv
  PROVE  argv = << >> \/ argv[1] # Text("cd") => Execute(commands, env, entries, std).env = env
<1> DEFINE result == Execute(commands, env, entries, std)
<1>1. CASE argv = << >>
  BY <1>1 DEF Execute, Result
<1>2. CASE argv # << >> /\ argv[1] # Text("cd")
  <2>1. Exit(Tail(argv), env).env = env
    BY <1>2, FirstCommand, ExitType
  <2>2. \/ \E code, output : result = Result(output, code, env)
        \/ result = Exit(Tail(argv), env)
    <3> HIDE DEF result
    <3>1. \/ \E code : \E output \in Outputs(argv, env, entries, std) :
               result = Result(output, code, env)
          \/ result = Exit(Tail(argv), env)
          \/ argv[1] = Text("cd") /\ result = Cd(Tail(argv), env, std)
      BY <1>2, ExecuteCases DEF result
    <3> QED  BY <1>2, <3>1
  <2> HIDE DEF result
  <2>3. \A code, output : Result(output, code, env).env = env
    BY DEF Result
  <2>4. result.env = env
    BY <2>1, <2>2, <2>3
  <2> QED  BY <2>4 DEF result
<1> QED  BY <1>1, <1>2

\* The command named cd is cd.
LEMMA CdRuns ==
  ASSUME NEW commands, NEW env, NEW entries, NEW std,
         NEW argv, argv = commands[1].argv, argv # << >>, argv[1] = Text("cd")
  PROVE  Execute(commands, env, entries, std) = Cd(Tail(argv), env, std)
<1>1. /\ Text("cd") # Text("history") /\ Text("cd") # Text("echo") /\ Text("cd") # Text("cat")
      /\ Text("cd") # Text("printenv") /\ Text("cd") # Text("clear") /\ Text("cd") # Text("true")
      /\ Text("cd") # Text("false") /\ Text("cd") # Text("exit") /\ Text("cd") # Text("help")
  BY NamesDiffer
<1> DEFINE args == Tail(argv)
           name == argv[1]
           history == Result(ShowHistory(entries), 0, env)
           echo == Result(Echo(args), 0, env)
           cat == Result(Cat(args, std), CatCode(args, std), env)
           printenv == Result(Printenv(args, env), PrintenvCode(args, env), env)
           clear == Result(<<Write(<<"clear screen">>)>>, 0, env)
           success == Result(<< >>, 0, env)
           failure == Result(<< >>, 1, env)
           exit == Exit(args, env)
           help == Result(Help, 0, env)
           moved == Cd(args, env, std)
           unknown == Result(<<Write(name), Say(": command not found")>>, 127, env)
           result == Execute(commands, env, entries, std)
<1>2. result = CASE name = Text("history") -> history
                 [] name = Text("echo") -> echo
                 [] name = Text("cat") -> cat
                 [] name = Text("printenv") -> printenv
                 [] name = Text("clear") -> clear
                 [] name = Text("true") -> success
                 [] name = Text("false") -> failure
                 [] name = Text("exit") -> exit
                 [] name = Text("help") -> help
                 [] name = Text("cd") -> moved
                 [] OTHER -> unknown
  BY Zenon DEF Execute
<1> HIDE DEF history, echo, cat, printenv, clear, success, failure, exit, help, moved, unknown, result
<1>3. result = moved
  BY <1>1, <1>2
<1> QED  BY <1>3 DEF result, moved

-----------------------------------------------------------------------------
(* PWD. *)

\* What cd does to the environment.
LEMMA CdLeaves ==
  ASSUME NEW args, NEW env, NEW std
  PROVE  Cd(args, env, std).env =
           IF args # << >> /\ std /\ args[1] \in DOMAIN Directories
           THEN UpdatedPwd(env, Directories[args[1]]) ELSE env
BY DEF Cd, Result

\* An entry is one of PWD if the prefix is in front of it.
LEMMA PwdEntry ==
  ASSUME NEW path \in Texts
  PROVE  /\ Text("PWD") \in Texts /\ Text("PWD=") \o path \in Texts
         /\ Defines(Text("PWD=") \o path, Text("PWD"))
         /\ SubSeq(Text("PWD=") \o path, Len(Text("PWD")) + 2, Len(Text("PWD=") \o path)) = path
<1> DEFINE name == Text("PWD")
           prefix == Text("PWD=")
           entry == prefix \o path
<1>1. name \in Texts /\ prefix = Append(name, "=") /\ prefix \in Texts /\ Len(prefix) = Len(name) + 1
  <2>1. name \in Seq(STRING) /\ prefix = Append(name, "=")
    BY StringAssumption
  <2>2. "=" \in STRING
    BY StringAssumption DEF Literals
  <2> HIDE DEF name, prefix
  <2> QED  BY <2>1, <2>2, AppendProperties DEF Texts
<1> HIDE DEF name, prefix
<1>2. entry \in Texts /\ Len(entry) = Len(prefix) + Len(path)
  BY <1>1, ConcatProperties DEF Texts
<1>3. Len(name) \in Nat /\ Len(prefix) \in Nat /\ Len(path) \in Nat
  BY <1>1, LenProperties DEF Texts
<1>4. SubSeq(entry, 1, Len(prefix)) = SubSeq(prefix, 1, Len(prefix))
  <2>1. 1 \in 1 .. Len(prefix) /\ Len(prefix) \in 1 .. Len(prefix)
    BY <1>1, <1>3
  <2> QED  BY <1>1, <2>1, SubSeqOfConcat1 DEF Texts
<1>5. Defines(entry, name)
  <2>1. Len(prefix) <= Len(entry)
    BY <1>2, <1>3
  <2> QED  BY <1>1, <1>4, <2>1 DEF Defines, DefinitionPrefix, IsPrefix
<1>6. SubSeq(entry, Len(name) + 2, Len(entry)) = path
  <2>1. CASE path = << >>
    <3>1. Len(entry) < Len(name) + 2 /\ Len(name) + 2 \in Int /\ Len(entry) \in Int
      <4>1. Len(path) = 0
        BY <2>1
      <4> QED  BY <1>1, <1>2, <1>3, <4>1
    <3> QED  BY <2>1, <3>1, SubSeqEmpty
  <2>2. CASE path # << >>
    <3>1. Len(path) # 0
      BY <2>2, EmptySeq DEF Texts
    <3>2. /\ Len(name) + 2 = Len(prefix) + 1
          /\ Len(prefix) + 1 \in Len(prefix) + 1 .. Len(prefix) + Len(path)
          /\ Len(prefix) + Len(path) \in Len(prefix) + 1 .. Len(prefix) + Len(path)
          /\ (Len(prefix) + 1) - Len(prefix) = 1 /\ (Len(prefix) + Len(path)) - Len(prefix) = Len(path)
      BY <1>1, <1>3, <3>1
    <3>3. SubSeq(prefix \o path, Len(prefix) + 1, Len(prefix) + Len(path)) = SubSeq(path, 1, Len(path))
      <4>1. prefix \in Seq(STRING) /\ path \in Seq(STRING)
        BY <1>1 DEF Texts
      <4>2. SubSeq(prefix \o path, Len(prefix) + 1, Len(prefix) + Len(path)) =
              SubSeq(path, (Len(prefix) + 1) - Len(prefix), (Len(prefix) + Len(path)) - Len(prefix))
        BY <3>2, <4>1, SubSeqOfConcat2
      <4> QED  BY <3>2, <4>2
    <3>4. SubSeq(path, 1, Len(path)) = path
      BY SubSeqFull DEF Texts
    <3> QED  BY <1>2, <3>2, <3>3, <3>4
  <2> QED  BY <2>1, <2>2
<1> QED  BY <1>1, <1>2, <1>5, <1>6 DEF name, prefix

\* The entry of PWD that printenv finds.
HasPwd(env, path) ==
  LET i == FirstDefining(env, Text("PWD"))
  IN  i # 0 /\ env[i] = Text("PWD=") \o path

\* cd changes that entry, or there was none and it adds it.
LEMMA UpdatedPwdDefines ==
  ASSUME NEW env \in Seq(Texts), NEW path \in Texts
  PROVE  HasPwd(UpdatedPwd(env, path), path)
<1> DEFINE name == Text("PWD")
           entry == Text("PWD=") \o path
           i == FirstDefining(env, name)
           new == UpdatedPwd(env, path)
           k == FirstDefining(new, name)
<1>1. entry \in Texts /\ Defines(entry, name)
  BY PwdEntry
<1>2. /\ i \in 0 .. Len(env) /\ Len(env) \in Nat
      /\ \A j \in 1 .. Len(env) : Defines(env[j], name) => i # 0 /\ i <= j
  BY FirstDefiningFinds, LenProperties
<1>3. new = IF i = 0 THEN Append(env, entry) ELSE [env EXCEPT ![i] = entry]
  BY DEF UpdatedPwd
<1>4. new \in Seq(Texts)
  BY UpdatedPwdType
<1>5. /\ k \in 0 .. Len(new)
      /\ k # 0 => Defines(new[k], name)
      /\ \A j \in 1 .. Len(new) : Defines(new[j], name) => k # 0 /\ k <= j
  BY <1>4, FirstDefiningFinds
<1> HIDE DEF name, entry, i, new, k
<1>6. CASE i = 0
  <2> DEFINE n == Len(env) + 1
  <2>1. new = Append(env, entry)
    BY <1>3, <1>6
  <2>2. Len(new) = n /\ new[n] = entry /\ \A j \in 1 .. Len(env) : new[j] = env[j]
    BY <1>1, <2>1, AppendProperties
  <2>3. n \in 1 .. Len(new)
    BY <1>2, <2>2
  <2>4. k # 0 /\ k <= n
    BY <1>1, <1>5, <2>2, <2>3
  <2>5. k = n
    <3> SUFFICES ASSUME k # n PROVE FALSE
      OBVIOUS
    <3>1. k \in 1 .. Len(env)
      BY <1>2, <1>5, <2>2, <2>4
    <3>2. Defines(env[k], name)
      BY <1>5, <2>2, <3>1
    <3> QED  BY <1>2, <1>6, <3>1, <3>2
  <2> HIDE DEF n
  <2>6. k # 0 /\ new[k] = entry
    BY <2>2, <2>4, <2>5
  <2> QED  BY <2>6 DEF HasPwd, k, new, name, entry
<1>7. CASE i # 0
  <2>1. new = [env EXCEPT ![i] = entry] /\ i \in 1 .. Len(env)
    BY <1>2, <1>3, <1>7
  <2>2. /\ Len(new) = Len(env)
        /\ \A j \in 1 .. Len(env) : new[j] = IF j = i THEN entry ELSE env[j]
    BY <1>1, <2>1, ExceptSeq
  <2>3. k # 0 /\ k <= i
    BY <1>1, <1>5, <2>1, <2>2
  <2>4. k = i
    <3> SUFFICES ASSUME k # i PROVE FALSE
      OBVIOUS
    <3>1. k \in 1 .. Len(env) /\ ~ i <= k
      BY <1>2, <1>5, <2>2, <2>3
    <3>2. new[k] = env[k]
      BY <2>2, <3>1
    <3>3. Defines(env[k], name)
      BY <1>5, <2>3, <3>2
    <3> QED  BY <1>2, <3>1, <3>3
  <2>5. k # 0 /\ new[k] = entry
    BY <2>1, <2>2, <2>3, <2>4
  <2> QED  BY <2>5 DEF HasPwd, k, new, name, entry
<1> QED  BY <1>6, <1>7

\* printenv PWD prints it.
LEMMA PrintenvPrints ==
  ASSUME NEW env \in Seq(Texts), NEW path \in Texts, HasPwd(env, path)
  PROVE  Printenv(<<Text("PWD")>>, env) = <<Write(path), Write(Crlf)>>
<1> DEFINE name == Text("PWD")
           entry == env[FirstDefining(env, name)]
           printed == <<Write(SubSeq(entry, Len(name) + 2, Len(entry))), Write(Crlf)>>
           each == [i \in 1 .. 1 |-> printed]
<1>1. FirstDefining(env, name) # 0 /\ entry = Text("PWD=") \o path
  BY DEF HasPwd
<1>2. printed = <<Write(path), Write(Crlf)>>
  BY <1>1, PwdEntry
<1>3. Printenv(<<name>>, env) = FlattenSeq(each)
  <2> DEFINE args == <<name>>
             value(e, t) == SubSeq(e, Len(t) + 2, Len(e))
             shown(t) ==
               IF FirstDefining(env, t) = 0 THEN << >>
               ELSE <<Write(value(env[FirstDefining(env, t)], t)), Write(Crlf)>>
  <2>1. args # << >> /\ DOMAIN args = 1 .. 1 /\ args[1] = name
    OBVIOUS
  <2>2. Printenv(args, env) = FlattenSeq([i \in DOMAIN args |-> shown(args[i])])
    BY <2>1 DEF Printenv
  <2>3. shown(name) = printed
    BY <1>1
  <2> HIDE DEF args, shown, printed, name
  <2>4. [i \in DOMAIN args |-> shown(args[i])] = each
    <3>1. \A i \in 1 .. 1 : args[i] = name
      BY <2>1
    <3> QED  BY <2>1, <2>3, <3>1
  <2> HIDE DEF each
  <2> QED  BY <2>2, <2>4 DEF args
<1>4. printed \in Seq(Writes)
  <2>1. <<Write(path), Write(Crlf)>> \in Seq(Writes)
    BY Messages, WriteTypes, WritesJoined
  <2> HIDE DEF printed
  <2> QED  BY <1>2, <2>1
<1> HIDE DEF printed
<1>5. FlattenSeq(each) = printed
  <2>1. each \in Seq(Seq(Writes)) /\ Len(each) = 1 /\ each[1] = printed /\ each # << >>
    BY <1>4
  <2> HIDE DEF each
  <2>2. PICK f : Joins(f, each) /\ FlattenSeq(each) = f[Len(each)]
    BY <2>1, FlattenJoins
  <2>3. f[1] = each[1]
    BY <2>1, <2>2 DEF Joins
  <2> QED  BY <2>1, <2>2, <2>3
<1> QED  BY <1>2, <1>3, <1>5

-----------------------------------------------------------------------------
(* Texts put together. *)

\* Where each of the sequences stands that are put one behind the other: behind
\* the first p[k] members.
Placed(p, texts, whole) ==
  /\ p \in [1 .. Len(texts) + 1 -> 0 .. Len(whole)]
  /\ p[1] = 0 /\ p[Len(texts) + 1] = Len(whole)
  /\ \A k \in 1 .. Len(texts) :
       /\ p[k + 1] = p[k] + Len(texts[k])
       /\ \A j \in 1 .. Len(texts[k]) : whole[p[k] + j] = texts[k][j]

\* FlattenSeq gives each of them a place.
LEMMA FlattenPlaces ==
  ASSUME NEW S, NEW texts \in Seq(Seq(S))
  PROVE  \E p : Placed(p, texts, FlattenSeq(texts))
<1> DEFINE n == Len(texts)
           whole == FlattenSeq(texts)
<1>1. n \in Nat /\ \A i \in 1 .. n : texts[i] \in Seq(S)
  BY LenProperties
<1>2. CASE texts = << >>
  <2> DEFINE p == [k \in 1 .. 1 |-> 0]
  <2>1. whole = << >> /\ Len(texts) = 0 /\ Len(whole) = 0
    BY <1>2 DEF FlattenSeq
  <2>2. p \in [1 .. Len(texts) + 1 -> 0 .. Len(whole)] /\ p[1] = 0 /\ p[Len(texts) + 1] = Len(whole)
    BY <2>1
  <2>3. 1 .. Len(texts) = {}
    BY <2>1
  <2> HIDE DEF p, whole
  <2>4. Placed(p, texts, whole)
    BY <2>2, <2>3 DEF Placed
  <2> QED  BY <2>4 DEF whole
<1>3. CASE texts # << >>
  <2>1. PICK f : Joins(f, texts) /\ whole = f[n]
    BY <1>3, FlattenJoins
  <2>2. \A i \in 1 .. n : f[i] \in Seq(S)
    BY <1>1, <2>1, JoinType
  <2>3. n # 0 /\ \A i \in 1 .. n : f[i] = IF i = 1 THEN texts[i] ELSE f[i - 1] \o texts[i]
    BY <1>3, <2>1, EmptySeq DEF Joins
  <2> DEFINE start == [k \in 1 .. n + 1 |-> IF k = 1 THEN 0 ELSE Len(f[k - 1])]
  <2>4. \A k \in 1 .. n : Len(f[k]) \in Nat /\ start[k + 1] = Len(f[k]) /\ Len(texts[k]) \in Nat
    <3> SUFFICES ASSUME NEW k \in 1 .. n
                 PROVE  Len(f[k]) \in Nat /\ start[k + 1] = Len(f[k]) /\ Len(texts[k]) \in Nat
      OBVIOUS
    <3>1. Len(f[k]) \in Nat /\ Len(texts[k]) \in Nat
      BY <1>1, <2>2, LenProperties
    <3>2. k + 1 \in 1 .. n + 1 /\ k + 1 # 1 /\ (k + 1) - 1 = k
      BY <1>1
    <3>3. start[k + 1] = Len(f[(k + 1) - 1])
      BY <3>2
    <3> QED  BY <3>1, <3>2, <3>3
  <2>5. \A k \in 1 .. n : start[k] \in Nat /\ start[1] = 0
    <3> SUFFICES ASSUME NEW k \in 1 .. n PROVE start[k] \in Nat /\ start[1] = 0
      OBVIOUS
    <3>1. k # 1 => k - 1 \in 1 .. n /\ start[k] = Len(f[k - 1])
      BY <1>1
    <3>2. start[1] = 0
      BY <1>1
    <3> QED  BY <2>4, <3>1, <3>2
  <2>6. ASSUME NEW k \in 1 .. n
        PROVE  /\ Len(f[k]) = start[k] + Len(texts[k])
               /\ \A j \in 1 .. Len(texts[k]) : f[k][start[k] + j] = texts[k][j]
               /\ k # 1 => \A j \in 1 .. Len(f[k - 1]) : f[k][j] = f[k - 1][j]
    <3>1. CASE k = 1
      <4>1. start[k] = 0
        BY <2>5, <3>1
      <4>2. f[k] = texts[k]
        BY <2>3, <3>1
      <4>3. \A j \in 1 .. Len(texts[k]) : 0 + j = j
        OBVIOUS
      <4>4. Len(texts[k]) = 0 + Len(texts[k])
        BY <2>4
      <4> QED  BY <3>1, <4>1, <4>2, <4>3, <4>4
    <3>2. CASE k # 1
      <4> DEFINE a == f[k - 1]
                 b == texts[k]
      <4>1. k - 1 \in 1 .. n /\ f[k] = a \o b /\ start[k] = Len(a)
        <5>1. k - 1 \in 1 .. n /\ k \in 1 .. n + 1
          BY <1>1, <3>2
        <5>2. start[k] = Len(a)
          BY <3>2, <5>1
        <5>3. f[k] = a \o b
          BY <2>3, <3>2
        <5> QED  BY <5>1, <5>2, <5>3
      <4>2. a \in Seq(S) /\ b \in Seq(S)
        BY <1>1, <2>2, <4>1
      <4> HIDE DEF a, b
      <4>3. /\ Len(a \o b) = Len(a) + Len(b) /\ Len(a) \in Nat /\ Len(b) \in Nat
            /\ \A i \in 1 .. Len(a) + Len(b) :
                 (a \o b)[i] = IF i <= Len(a) THEN a[i] ELSE b[i - Len(a)]
        BY <4>2, ConcatProperties, LenProperties
      <4>4. \A j \in 1 .. Len(b) : Len(a) + j \in 1 .. Len(a) + Len(b)
                                    /\ ~ (Len(a) + j <= Len(a)) /\ (Len(a) + j) - Len(a) = j
        BY <4>3
      <4>5. \A j \in 1 .. Len(a) : j \in 1 .. Len(a) + Len(b) /\ j <= Len(a)
        BY <4>3
      <4>6. \A j \in 1 .. Len(b) : (a \o b)[Len(a) + j] = b[j]
        BY <4>3, <4>4
      <4>7. \A j \in 1 .. Len(a) : (a \o b)[j] = a[j]
        BY <4>3, <4>5
      <4> QED  BY <4>1, <4>3, <4>6, <4>7 DEF a, b
    <3> QED  BY <3>1, <3>2
  <2> DEFINE Good == {m \in 0 .. n : \A k \in 1 .. m :
               Len(f[k]) <= Len(f[m]) /\ \A j \in 1 .. Len(f[k]) : f[m][j] = f[k][j]}
  <2>7. ASSUME NEW m \in 0 .. n, \A j \in 0 .. m - 1 : j \in Good
        PROVE  m \in Good
    <3> SUFFICES ASSUME NEW k \in 1 .. m
                 PROVE  Len(f[k]) <= Len(f[m]) /\ \A j \in 1 .. Len(f[k]) : f[m][j] = f[k][j]
      OBVIOUS
    <3>1. m \in 1 .. n /\ k \in 1 .. n
      BY <1>1
    <3>2. CASE k = m
      BY <2>4, <3>1, <3>2
    <3>3. CASE k # m
      <4>1. m - 1 \in 0 .. m - 1 /\ k \in 1 .. m - 1 /\ m # 1 /\ m - 1 \in 1 .. n /\ m \in 1 .. n
        BY <1>1, <3>3
      <4>2. Len(f[k]) <= Len(f[m - 1]) /\ \A j \in 1 .. Len(f[k]) : f[m - 1][j] = f[k][j]
        BY <2>7, <4>1
      <4>3. start[m] = Len(f[m - 1])
        BY <1>1, <4>1
      <4>4. Len(f[m - 1]) \in Nat /\ Len(f[k]) \in Nat /\ Len(texts[m]) \in Nat
        BY <2>4, <3>1, <4>1
      <4>5. Len(f[m]) = Len(f[m - 1]) + Len(texts[m]) /\ \A j \in 1 .. Len(f[m - 1]) : f[m][j] = f[m - 1][j]
        BY <2>6, <4>1, <4>3
      <4>6. \A j \in 1 .. Len(f[k]) : j \in 1 .. Len(f[m - 1])
        BY <4>2, <4>4
      <4> HIDE DEF start
      <4>7. Len(f[k]) <= Len(f[m])
        <5>1. \A a, b, c \in Nat : a <= b => a <= b + c
          OBVIOUS
        <5> QED  BY <4>2, <4>4, <4>5, <5>1
      <4> QED  BY <4>2, <4>5, <4>6, <4>7
    <3> QED  BY <3>2, <3>3
  <2>8. n \in Good
    <3>1. \A m \in 0 .. n : m \in Good
      <4> HIDE DEF Good
      <4> QED  BY <1>1, <2>7, FromTheFront
    <3>2. n \in 0 .. n
      BY <1>1
    <3> HIDE DEF Good
    <3> QED  BY <3>1, <3>2
  <2>9. ASSUME NEW k \in 1 .. n
        PROVE  /\ start[k] \in 0 .. Len(whole) /\ start[k + 1] \in 0 .. Len(whole)
               /\ start[k + 1] = start[k] + Len(texts[k])
               /\ \A j \in 1 .. Len(texts[k]) : whole[start[k] + j] = texts[k][j]
    <3>1. Len(f[k]) <= Len(whole) /\ \A j \in 1 .. Len(f[k]) : whole[j] = f[k][j]
      BY <2>1, <2>8
    <3>2. Len(whole) \in Nat
      BY <1>1, <2>1, <2>3, <2>4
    <3>3. /\ start[k + 1] = Len(f[k]) /\ Len(f[k]) = start[k] + Len(texts[k])
          /\ start[k] \in Nat /\ Len(texts[k]) \in Nat /\ Len(f[k]) \in Nat
      BY <2>4, <2>5, <2>6
    <3> HIDE DEF start, whole
    <3>4. \A j \in 1 .. Len(texts[k]) : start[k] + j \in 1 .. Len(f[k])
      <4>1. \A x, y \in Nat : \A j \in 1 .. y : x + j \in 1 .. x + y
        OBVIOUS
      <4> QED  BY <3>3, <4>1
    <3>5. \A j \in 1 .. Len(texts[k]) : whole[start[k] + j] = texts[k][j]
      BY <2>6, <3>1, <3>4
    <3> QED  BY <3>1, <3>2, <3>3, <3>5
  <2>10. start[1] = 0 /\ start[n + 1] = Len(whole)
    <3>1. n \in 1 .. n /\ 1 \in 1 .. n
      BY <1>1, <2>3
    <3> QED  BY <2>1, <2>4, <2>5, <3>1
  <2>11. start \in [1 .. n + 1 -> 0 .. Len(whole)]
    <3>1. ASSUME NEW k \in 1 .. n + 1 PROVE start[k] \in 0 .. Len(whole)
      <4>1. CASE k \in 1 .. n
        BY <2>9, <4>1
      <4>2. CASE k = n + 1
        <5>1. n \in 1 .. n
          BY <1>1, <2>3
        <5> QED  BY <2>9, <4>2, <5>1
      <4>3. k \in 1 .. n \/ k = n + 1
        BY <1>1, <3>1
      <4> HIDE DEF start, whole
      <4> QED  BY <4>1, <4>2, <4>3
    <3>2. start = [k \in 1 .. n + 1 |-> start[k]]
      OBVIOUS
    <3> HIDE DEF start, whole
    <3> QED  BY <3>1, <3>2
  <2> HIDE DEF start, whole
  <2>12. Placed(start, texts, whole)
    BY <2>9, <2>10, <2>11 DEF Placed
  <2> QED  BY <2>12 DEF whole
<1> QED  BY <1>2, <1>3

\* What is left of a text.
LEMMA RestsOfText ==
  ASSUME NEW text \in Texts, NEW n, n = Len(text)
  PROVE  /\ SubSeq(text, n + 1, n) = << >>
         /\ SubSeq(text, 1, n) = text
         /\ \A k \in 1 .. n + 1 : SubSeq(text, k, n) \in Texts
         /\ \A k \in 1 .. n : SubSeq(text, k, n) = <<text[k]>> \o SubSeq(text, k + 1, n)
<1>1. n \in Nat
  BY Characters
<1>2. n + 1 \in Int /\ n \in Int /\ n < n + 1
  BY <1>1
<1>3. \A k \in 1 .. n + 1 : k \in Nat \ {0} /\ n \in Int /\ n <= Len(text)
  BY <1>1
<1>4. \A k \in 1 .. n : k \in 1 .. Len(text) /\ n \in k .. Len(text)
  BY <1>1
<1>5. SubSeq(text, n + 1, n) = << >>
  BY <1>2, SubSeqEmpty
<1>6. SubSeq(text, 1, n) = text
  BY SubSeqFull DEF Texts
<1>7. \A k \in 1 .. n + 1 : SubSeq(text, k, n) \in Texts
  BY <1>3, PartOfText DEF Texts
<1>8. \A k \in 1 .. n : SubSeq(text, k, n) = <<text[k]>> \o SubSeq(text, k + 1, n)
  BY <1>4, SubSeqRecursiveFirst DEF Texts
<1> QED  BY <1>5, <1>6, <1>7, <1>8

-----------------------------------------------------------------------------
(* Quoted texts. *)

Read(text, next) == [text |-> text, next |-> next, error |-> "none"]

\* A way to write c in a word, in a mode.
Spells(mode, c, chunk) ==
  \/ chunk = <<c>> /\ mode # "plain" /\ c # mode /\ (Escapes(mode) => c # "\\")
  \/ chunk = <<"\\", c>> /\ Escapes(mode) /\ (mode # "plain" => Unescaped(c) = <<c>>)

\* At i, the line has that spelling of c, and the rest of the word is read
\* behind it.
Spelled(line, f, mode, c, chunk, i, rest, next) ==
  /\ c \in STRING /\ Spells(mode, c, chunk)
  /\ i \in 1 .. Len(line) /\ i + Len(chunk) \in 1 .. Len(line) + 1
  /\ \A j \in 1 .. Len(chunk) : line[(i - 1) + j] = chunk[j]
  /\ f[i + Len(chunk)][mode] = Read(rest, next)

\* One character is read.
LEMMA SpellingRead ==
  ASSUME NEW line \in Texts, NEW f, Scans(line, f), NEW mode \in Modes,
         NEW c, NEW chunk, NEW i, NEW rest, NEW next,
         Spelled(line, f, mode, c, chunk, i, rest, next)
  PROVE  f[i][mode] = Read(<<c>> \o rest, next)
<1> USE DEF Spelled
<1>1. Len(line) \in Nat /\ i \in Nat /\ i # Len(line) + 1 /\ i < Len(line) + 1
  BY Characters
<1>2. f[i][mode] = ModeStep(line, f, i, mode)
  <2>1. i \in 1 .. Len(line) + 1
    BY <1>1
  <2>2. f[i] = WordStep(line, f, i)
    BY <2>1 DEF Scans
  <2> QED  BY <2>2 DEF WordStep
<1>3. Before(<<c>>, Read(rest, next)) = Read(<<c>> \o rest, next)
  <2> DEFINE word == Read(rest, next)
             joined == <<c>> \o rest
  <2>1. Before(<<c>>, word) = [word EXCEPT !.text = <<c>> \o word.text]
    BY Zenon DEF Before
  <2>2. word.text = rest
    BY DEF Read
  <2> HIDE DEF joined
  <2>3. [word EXCEPT !.text = joined] = Read(joined, next)
    BY DEF Read
  <2> QED  BY <2>1, <2>2, <2>3 DEF joined
<1>4. CASE chunk = <<c>> /\ mode # "plain" /\ c # mode /\ (Escapes(mode) => c # "\\")
  <2>1. Len(chunk) = 1 /\ chunk[1] = c /\ (i - 1) + 1 = i
    BY <1>1, <1>4
  <2>2. line[i] = c
    <3>1. 1 \in 1 .. Len(chunk)
      BY <2>1
    <3> QED  BY <2>1, <3>1
  <2>3. ModeStep(line, f, i, mode) = Before(<<line[i]>>, f[i + 1][mode])
    BY <1>1, <1>4, <2>2, Zenon DEF ModeStep
  <2> QED  BY <1>2, <1>3, <2>1, <2>2, <2>3
<1>5. CASE chunk = <<"\\", c>> /\ Escapes(mode) /\ (mode # "plain" => Unescaped(c) = <<c>>)
  <2>1. /\ Len(chunk) = 2 /\ chunk[1] = "\\" /\ chunk[2] = c
        /\ (i - 1) + 1 = i /\ (i - 1) + 2 = i + 1
    BY <1>1, <1>5
  <2>2. line[i] = "\\" /\ line[i + 1] = c
    BY <2>1
  <2>3. i + 1 # Len(line) + 1
    BY <1>1, <2>1
  <2>4. mode # line[i] /\ line[i] \notin EndsWord /\ line[i] \notin Quotes
    BY <2>2 DEF Modes, Quotes, EndsWord, Blanks
  <2>5. ModeStep(line, f, i, mode) =
          Before(IF mode = "plain" THEN <<line[i + 1]>> ELSE Unescaped(line[i + 1]), f[i + 2][mode])
    BY <1>1, <1>5, <2>2, <2>3, <2>4, Zenon DEF ModeStep
  <2>6. (IF mode = "plain" THEN <<line[i + 1]>> ELSE Unescaped(line[i + 1])) = <<c>>
    BY <1>5, <2>2
  <2> QED  BY <1>2, <1>3, <2>1, <2>5, <2>6
<1> QED  BY <1>4, <1>5 DEF Spells

\* Where a spelling of length l stands whose character is the next behind x
\* members of the spelled text.
Continues(line, spelled, a, x, y, l) ==
  /\ a + x + 1 \in 1 .. Len(line) /\ (a + x + 1) + l = a + y + 1
  /\ (a + x + 1) + l \in 1 .. Len(line) + 1
  /\ \A j \in 1 .. l : ((a + x + 1) - 1) + j = a + (x + j) /\ x + j \in 1 .. Len(spelled)

\* The spellings of the characters of a text.
Spelling(mode, text, chunks) ==
  /\ chunks \in Seq(Texts) /\ Len(chunks) = Len(text)
  /\ \A k \in 1 .. Len(text) : Spells(mode, text[k], chunks[k])

\* Behind its first a characters, the line goes on with the text.
Stands(line, a, text) ==
  /\ a + Len(text) <= Len(line)
  /\ \A j \in 1 .. Len(text) : line[a + j] = text[j]

\* A text is read, however its characters are written.
LEMMA SpellingsRead ==
  ASSUME NEW line \in Texts, NEW f, Scans(line, f), NEW mode \in Modes,
         NEW text \in Texts, NEW chunks, Spelling(mode, text, chunks),
         NEW a \in Nat, NEW spelled, spelled = FlattenSeq(chunks), Stands(line, a, spelled),
         NEW next, f[a + Len(spelled) + 1][mode] = Read(<< >>, next)
  PROVE  f[a + 1][mode] = Read(text, next)
<1> USE DEF Spelling, Stands
<1> DEFINE n == Len(text)
           left(k) == SubSeq(text, k, n)
<1>1. n \in Nat /\ Len(line) \in Nat /\ Len(spelled) \in Nat /\ \A k \in 1 .. n : text[k] \in STRING
  <2>1. spelled \in Seq(STRING)
    BY FlattenType DEF Texts
  <2> QED  BY <2>1, Characters, LenProperties
<1>2. PICK p : Placed(p, chunks, spelled)
  BY FlattenPlaces DEF Texts
<1>3. /\ \A k \in 1 .. n + 1 : p[k] \in 0 .. Len(spelled)
      /\ p[1] = 0 /\ p[n + 1] = Len(spelled)
      /\ \A k \in 1 .. n : /\ p[k + 1] = p[k] + Len(chunks[k])
                           /\ \A j \in 1 .. Len(chunks[k]) : spelled[p[k] + j] = chunks[k][j]
  BY <1>2 DEF Placed
<1>4. \A k \in 1 .. n : Len(chunks[k]) \in {1, 2}
  <2> TAKE k \in 1 .. n
  <2>1. chunks[k] = <<text[k]>> \/ chunks[k] = <<"\\", text[k]>>
    BY DEF Spells
  <2>2. Len(<<text[k]>>) = 1 /\ Len(<<"\\", text[k]>>) = 2
    OBVIOUS
  <2> QED  BY <2>1, <2>2
<1>5. left(n + 1) = << >> /\ left(1) = text /\ \A k \in 1 .. n : left(k) = <<text[k]>> \o left(k + 1)
  BY RestsOfText
<1>6. \A x, y \in 0 .. Len(spelled) : \A l \in {1, 2} : y = x + l => Continues(line, spelled, a, x, y, l)
  BY <1>1 DEF Continues
<1> HIDE DEF left
<1> DEFINE Good == {k \in 1 .. n + 1 : f[a + p[k] + 1][mode] = Read(left(k), next)}
<1>7. ASSUME NEW k \in 1 .. n + 1, \A j \in k + 1 .. n + 1 : j \in Good
      PROVE  k \in Good
  <2>1. CASE k = n + 1
    BY <1>3, <1>5, <2>1
  <2>2. CASE k # n + 1
    <3> DEFINE i == a + p[k] + 1
               chunk == chunks[k]
    <3>1. k \in 1 .. n /\ k + 1 \in k + 1 .. n + 1 /\ k + 1 \in 1 .. n + 1
      <4>1. n \in Nat
        BY <1>1
      <4> HIDE DEF n
      <4> QED  BY <2>2, <4>1
    <3>2. f[a + p[k + 1] + 1][mode] = Read(left(k + 1), next)
      BY <1>7, <3>1
    <3>3. p[k] \in 0 .. Len(spelled) /\ p[k + 1] \in 0 .. Len(spelled) /\ Len(chunk) \in {1, 2}
      BY <1>3, <1>4, <3>1
    <3>4. p[k + 1] = p[k] + Len(chunk)
      BY <1>3, <3>1
    <3> HIDE DEF chunk
    <3>5. Continues(line, spelled, a, p[k], p[k + 1], Len(chunk))
      BY <1>6, <3>3, <3>4
    <3>6. /\ i \in 1 .. Len(line) /\ i + Len(chunk) = a + p[k + 1] + 1 /\ i + Len(chunk) \in 1 .. Len(line) + 1
          /\ \A j \in 1 .. Len(chunk) : (i - 1) + j = a + (p[k] + j) /\ p[k] + j \in 1 .. Len(spelled)
      BY <3>5, Zenon DEF Continues
    <3>7. \A j \in 1 .. Len(chunk) : line[(i - 1) + j] = chunk[j]
      <4>1. \A j \in 1 .. Len(chunk) : spelled[p[k] + j] = chunk[j]
        BY <1>3, <3>1 DEF chunk
      <4> HIDE DEF i
      <4>2. \A j \in 1 .. Len(chunk) : line[(i - 1) + j] = spelled[p[k] + j]
        BY <3>6
      <4> QED  BY <4>1, <4>2
    <3>8. f[i + Len(chunk)][mode] = Read(left(k + 1), next)
      BY <3>2, <3>6
    <3>9. text[k] \in STRING /\ Spells(mode, text[k], chunk)
      BY <1>1, <3>1 DEF chunk
    <3> HIDE DEF i
    <3>10. f[i][mode] = Read(<<text[k]>> \o left(k + 1), next)
      <4>1. Spelled(line, f, mode, text[k], chunk, i, left(k + 1), next)
        BY <3>6, <3>7, <3>8, <3>9, Zenon DEF Spelled
      <4> QED  BY <4>1, SpellingRead
    <3>11. f[i][mode] = Read(left(k), next)
      BY <1>5, <3>1, <3>10
    <3> QED  BY <3>11 DEF i
  <2> QED  BY <2>1, <2>2
<1>8. \A k \in 1 .. n + 1 : k \in Good
  <2>1. n + 1 \in Nat
    BY <1>1
  <2> HIDE DEF Good
  <2> QED  BY <1>7, <2>1, FromTheEnd
<1>9. 1 \in 1 .. n + 1 /\ a + 0 + 1 = a + 1
  BY <1>1
<1>10. f[a + 0 + 1][mode] = Read(left(1), next)
  BY <1>3, <1>8, <1>9
<1> QED  BY <1>5, <1>9, <1>10

\* The spellings of a text's characters, and what stands around them.
Shape(q, text, mode, chunks) ==
  /\ mode \in Modes /\ Spelling(mode, text, chunks)
  /\ q = IF mode = "plain" THEN FlattenSeq(chunks) ELSE <<mode>> \o FlattenSeq(chunks) \o <<mode>>
  /\ mode = "plain" => q # << >> /\ q[1] = "\\"

\* Each of the three ways has that shape.
LEMMA QuotingShapes ==
  ASSUME NEW text \in Texts, NEW q \in Quotings(text)
  PROVE  \E mode, chunks : Shape(q, text, mode, chunks)
<1> DEFINE n == Len(text)
<1>1. n \in Nat /\ DOMAIN text = 1 .. n /\ \A k \in 1 .. n : text[k] \in STRING
  BY Characters
<1>2. \A c \in STRING : <<c>> \in Texts /\ <<"\\", c>> \in Texts
  BY ShortSequences, StringAssumption DEF Literals, Texts
<1>3. CASE q = InSingleQuotes(text) /\ "'" \notin ToSet(text)
  <2> DEFINE chunks == [k \in 1 .. n |-> <<text[k]>>]
  <2>1. chunks \in [1 .. n -> Texts]
    BY <1>1, <1>2
  <2>2. \A k \in 1 .. n : chunks[k] = <<text[k]>> /\ text[k] # "'"
    BY <1>1, <1>3 DEF ToSet
  <2> HIDE DEF chunks
  <2>3. chunks \in Seq(Texts) /\ Len(chunks) = n
    BY <1>1, <2>1
  <2>4. FlattenSeq(chunks) = text
    <3>1. chunks \in Seq(Seq(STRING)) /\ \A k \in 1 .. n : Len(chunks[k]) = 1 /\ chunks[k][1] = text[k]
      <4>1. chunks \in Seq(Seq(STRING))
        BY <2>3 DEF Texts
      <4>2. \A c : Len(<<c>>) = 1 /\ <<c>>[1] = c
        OBVIOUS
      <4>3. \A k \in 1 .. n : Len(chunks[k]) = 1 /\ chunks[k][1] = text[k]
        BY <2>2, <4>2
      <4> QED  BY <4>1, <4>3
    <3> DEFINE whole == FlattenSeq(chunks)
    <3>2. PICK p : Placed(p, chunks, whole)
      BY <3>1, FlattenPlaces
    <3>3. /\ p[1] = 0 /\ p[n + 1] = Len(whole)
          /\ \A k \in 1 .. n : p[k + 1] = p[k] + 1 /\ whole[p[k] + 1] = text[k]
      <4>1. \A k \in 1 .. n : 1 \in 1 .. Len(chunks[k])
        BY <3>1
      <4> HIDE DEF whole
      <4> QED  BY <2>3, <3>1, <3>2, <4>1 DEF Placed
    <3>4. whole \in Seq(STRING)
      BY <3>1, FlattenType
    <3> HIDE DEF whole
    <3> DEFINE Good == {k \in 0 .. n : p[k + 1] = k}
    <3>5. ASSUME NEW k \in 0 .. n, \A j \in 0 .. k - 1 : j \in Good
          PROVE  k \in Good
      <4>1. CASE k = 0
        BY <3>3, <4>1
      <4>2. CASE k # 0
        <5>1. k \in 1 .. n /\ k - 1 \in 0 .. k - 1 /\ (k - 1) + 1 = k
          BY <1>1, <4>2
        <5>2. p[(k - 1) + 1] = k - 1
          BY <3>5, <5>1
        <5>3. p[k + 1] = p[k] + 1
          BY <3>3, <5>1
        <5>4. p[k + 1] = k
          BY <5>1, <5>2, <5>3
        <5> QED  BY <5>4
      <4> QED  BY <4>1, <4>2
    <3>6. \A k \in 0 .. n : k \in Good
      <4> HIDE DEF Good
      <4> QED  BY <1>1, <3>5, FromTheFront
    <3>7. Len(whole) = n
      <4>1. n \in 0 .. n
        BY <1>1
      <4> QED  BY <3>3, <3>6, <4>1
    <3>8. \A k \in 1 .. n : whole[k] = text[k]
      <4> TAKE k \in 1 .. n
      <4>1. k - 1 \in 0 .. n /\ (k - 1) + 1 = k
        BY <1>1
      <4>2. p[k] = k - 1
        BY <3>6, <4>1
      <4> QED  BY <3>3, <4>1, <4>2
    <3>9. whole = text
      BY <3>4, <3>7, <3>8, SeqEqual DEF Texts
    <3> QED  BY <3>9 DEF whole
  <2>5. \A k \in 1 .. n : Spells("'", text[k], chunks[k])
    BY <2>2 DEF Spells, Escapes
  <2>6. Shape(q, text, "'", chunks)
    BY <1>3, <2>3, <2>4, <2>5 DEF Shape, Spelling, InSingleQuotes, Modes, Quotes
  <2> QED  BY <2>6
<1>4. CASE q = InDoubleQuotes(text)
  <2> DEFINE chunks == [k \in 1 .. n |-> IF text[k] \in {"\"", "\\"} THEN <<"\\", text[k]>> ELSE <<text[k]>>]
  <2>1. chunks \in [1 .. n -> Texts]
    BY <1>1, <1>2
  <2>2. \A k \in 1 .. n : chunks[k] = IF text[k] \in {"\"", "\\"} THEN <<"\\", text[k]>> ELSE <<text[k]>>
    OBVIOUS
  <2>3. q = <<"\"">> \o FlattenSeq(chunks) \o <<"\"">>
    BY <1>1, <1>4 DEF InDoubleQuotes
  <2> HIDE DEF chunks
  <2>4. chunks \in Seq(Texts) /\ Len(chunks) = n
    BY <1>1, <2>1
  <2>5. \A k \in 1 .. n : Spells("\"", text[k], chunks[k])
    BY <2>2 DEF Spells, Escapes, Unescaped
  <2>6. Shape(q, text, "\"", chunks)
    BY <2>3, <2>4, <2>5 DEF Shape, Spelling, Modes, Quotes
  <2> QED  BY <2>6
<1>5. CASE q = Backslashed(text) /\ text # << >>
  <2> DEFINE chunks == [k \in 1 .. n |-> <<"\\", text[k]>>]
  <2>1. chunks \in [1 .. n -> Texts]
    BY <1>1, <1>2
  <2>2. \A k \in 1 .. n : chunks[k] = <<"\\", text[k]>>
    OBVIOUS
  <2>3. q = FlattenSeq(chunks)
    BY <1>1, <1>5 DEF Backslashed
  <2> HIDE DEF chunks
  <2>4. chunks \in Seq(Texts) /\ Len(chunks) = n
    BY <1>1, <2>1
  <2>5. \A k \in 1 .. n : Spells("plain", text[k], chunks[k])
    BY <2>2 DEF Spells, Escapes
  <2>6. q # << >> /\ q[1] = "\\"
    <3>1. 1 \in 1 .. n
      BY <1>1, <1>5, EmptySeq DEF Texts
    <3>2. chunks \in Seq(Seq(STRING)) /\ chunks[1] = <<"\\", text[1]>>
      BY <2>2, <2>4, <3>1 DEF Texts
    <3>3. PICK p : Placed(p, chunks, q)
      BY <2>3, <3>2, FlattenPlaces
    <3>4. 1 \in 1 .. Len(chunks[1]) /\ chunks[1][1] = "\\" /\ Len(chunks[1]) = 2
      BY <3>2
    <3>5. p[1] = 0 /\ q[p[1] + 1] = chunks[1][1]
      BY <2>4, <3>1, <3>3, <3>4 DEF Placed
    <3>6. p[1 + 1] = 0 + 2 /\ p[1 + 1] \in 0 .. Len(q)
      <4>1. 1 + 1 \in 1 .. Len(chunks) + 1
        BY <1>1, <2>4, <3>1
      <4> QED  BY <2>4, <3>1, <3>3, <3>4, <3>5, <4>1 DEF Placed
    <3>7. q # << >>
      <4>1. Len(<< >>) = 0
        OBVIOUS
      <4> QED  BY <3>6, <4>1
    <3> QED  BY <3>4, <3>5, <3>7
  <2>7. Shape(q, text, "plain", chunks)
    BY <1>5, <2>3, <2>4, <2>5, <2>6 DEF Shape, Spelling, Modes
  <2> QED  BY <2>7
<1> QED  BY <1>3, <1>4, <1>5 DEF Quotings

\* The ends of a word: a blank where no quotes are open, a closing quote, an
\* opening one.
LEMMA WordBoundaries ==
  ASSUME NEW line \in Texts, NEW f, Scans(line, f), NEW i \in 1 .. Len(line)
  PROVE  /\ line[i] \in Blanks => f[i]["plain"] = Read(<< >>, i)
         /\ line[i] \in Quotes => f[i]["plain"] = f[i + 1][line[i]]
         /\ line[i] \in Quotes => f[i][line[i]] = f[i + 1]["plain"]
<1>1. i \in 1 .. Len(line) + 1 /\ i # Len(line) + 1 /\ i < Len(line) + 1
  BY Characters
<1>2. f[i] = WordStep(line, f, i)
  BY <1>1 DEF Scans
<1>3. \A mode \in Modes : f[i][mode] = ModeStep(line, f, i, mode)
  BY <1>2 DEF WordStep
<1>4. ASSUME line[i] \in Blanks PROVE f[i]["plain"] = Read(<< >>, i)
  <2>1. line[i] \in EndsWord
    BY <1>4 DEF EndsWord
  <2>2. line[i] \notin Quotes /\ line[i] # "plain" /\ line[i] # "\\"
    BY <1>4 DEF Blanks, Quotes
  <2>3. ModeStep(line, f, i, "plain") = Stop(i)
    BY <1>1, <2>1, <2>2 DEF ModeStep
  <2> QED  BY <1>3, <2>3 DEF Stop, Read, Modes
<1>5. ASSUME line[i] \in Quotes
      PROVE  f[i]["plain"] = f[i + 1][line[i]] /\ f[i][line[i]] = f[i + 1]["plain"]
  <2>1. line[i] \notin EndsWord /\ line[i] # "plain" /\ line[i] # "\\" /\ line[i] \in Modes /\ "plain" \in Modes
    BY <1>5 DEF EndsWord, Blanks, Quotes, Modes
  <2>2. ModeStep(line, f, i, "plain") = f[i + 1][line[i]]
    BY <1>1, <1>5, <2>1 DEF ModeStep
  <2>3. ModeStep(line, f, i, line[i]) = f[i + 1]["plain"]
    BY <1>1, <2>1 DEF ModeStep
  <2> QED  BY <1>3, <2>1, <2>2, <2>3
<1> QED  BY <1>4, <1>5

\* A quoted text in front of a blank is read as one word.
LEMMA QuotingIsWord ==
  ASSUME NEW line \in Texts, NEW text \in Texts, NEW q \in Quotings(text), NEW a \in Nat,
         a + Len(q) + 1 <= Len(line), \A j \in 1 .. Len(q) : line[a + j] = q[j],
         line[a + Len(q) + 1] \in Blanks
  PROVE  /\ ReadWord(line, a + 1) = Read(text, a + Len(q) + 1)
         /\ q \in Texts /\ Len(q) >= 1
         /\ line[a + 1] \in Quotes \cup {"\\"}
<1>1. PICK mode, chunks : Shape(q, text, mode, chunks)
  BY QuotingShapes
<1> DEFINE f == CHOOSE g : Scans(line, g)
           spelled == FlattenSeq(chunks)
           L == Len(spelled)
<1>2. Scans(line, f) /\ ReadWord(line, a + 1) = f[a + 1]["plain"]
  BY ScanExists, ReadWordUnfolds
<1>3. spelled \in Seq(STRING) /\ L \in Nat /\ Len(line) \in Nat
  <2>1. chunks \in Seq(Seq(STRING))
    BY <1>1 DEF Shape, Spelling, Texts
  <2>2. spelled \in Seq(STRING)
    BY <2>1, FlattenType
  <2> QED  BY <2>2, Characters, LenProperties
<1>4. mode \in Modes /\ Spelling(mode, text, chunks) /\ spelled = FlattenSeq(chunks)
  BY <1>1 DEF Shape
<1>5. /\ mode = "plain" => q = spelled /\ q # << >> /\ q[1] = "\\"
      /\ mode # "plain" => q = <<mode>> \o spelled \o <<mode>>
  BY <1>1 DEF Shape
<1> HIDE DEF f, spelled
<1>6. CASE mode = "plain"
  <2>1. q = spelled /\ a + L + 1 \in 1 .. Len(line)
    BY <1>3, <1>5, <1>6
  <2>2. f[a + L + 1]["plain"] = Read(<< >>, a + L + 1)
    BY <1>2, <2>1, WordBoundaries
  <2>3. Stands(line, a, spelled)
    BY <1>3, <2>1 DEF Stands
  <2>4. f[a + 1][mode] = Read(text, a + L + 1)
    BY <1>2, <1>4, <1>6, <2>1, <2>2, <2>3, SpellingsRead
  <2>5. L >= 1
    <3>1. spelled # << >>
      BY <1>5, <1>6, <2>1
    <3> QED  BY <1>3, <3>1, EmptySeq
  <2>6. 1 \in 1 .. Len(q)
    BY <1>3, <2>1, <2>5
  <2>7. line[a + 1] = "\\"
    BY <1>5, <1>6, <2>6
  <2> QED  BY <1>2, <1>3, <1>6, <2>1, <2>4, <2>5, <2>7 DEF Texts
<1>7. CASE mode # "plain"
  <2>1. mode \in Quotes /\ mode \in STRING
    BY <1>4, <1>7, StringAssumption DEF Modes, Quotes, Literals
  <2> DEFINE b == <<mode>>
             opened == b \o spelled
  <2>2. b \in Seq(STRING) /\ Len(b) = 1 /\ b[1] = mode
    BY <2>1, ShortSequences
  <2> HIDE DEF b
  <2>3. /\ opened \in Seq(STRING) /\ Len(opened) = 1 + L
        /\ \A i \in 1 .. 1 + L : opened[i] = IF i <= 1 THEN b[i] ELSE spelled[i - 1]
    <3>1. /\ opened \in Seq(STRING) /\ Len(opened) = Len(b) + Len(spelled)
          /\ \A i \in 1 .. Len(b) + Len(spelled) :
               opened[i] = IF i <= Len(b) THEN b[i] ELSE spelled[i - Len(b)]
      BY <1>3, <2>2, ConcatProperties
    <3> HIDE DEF opened
    <3> QED  BY <2>2, <3>1
  <2> HIDE DEF opened
  <2>4. q = opened \o b
    BY <1>5, <1>7 DEF opened, b
  <2>5. /\ q \in Seq(STRING) /\ Len(q) = (1 + L) + 1
        /\ \A i \in 1 .. (1 + L) + 1 : q[i] = IF i <= 1 + L THEN opened[i] ELSE b[i - (1 + L)]
    <3>1. /\ q \in Seq(STRING) /\ Len(q) = Len(opened) + Len(b)
          /\ \A i \in 1 .. Len(opened) + Len(b) :
               q[i] = IF i <= Len(opened) THEN opened[i] ELSE b[i - Len(opened)]
      <4>1. /\ opened \o b \in Seq(STRING) /\ Len(opened \o b) = Len(opened) + Len(b)
            /\ \A i \in 1 .. Len(opened) + Len(b) :
                 (opened \o b)[i] = IF i <= Len(opened) THEN opened[i] ELSE b[i - Len(opened)]
        <5>1. opened \in Seq(STRING) /\ b \in Seq(STRING)
          BY <2>2, <2>3
        <5> QED  BY <5>1, ConcatProperties, Zenon
      <4> QED  BY <2>4, <4>1, Zenon
    <3> QED  BY <2>2, <2>3, <3>1
  <2>6. q[1] = mode /\ q[L + 2] = mode /\ \A j \in 1 .. L : q[1 + j] = spelled[j]
    <3>1. /\ 1 \in 1 .. 1 + L /\ 1 \in 1 .. (1 + L) + 1 /\ 1 <= 1 + L
          /\ L + 2 \in 1 .. (1 + L) + 1 /\ ~ L + 2 <= 1 + L /\ (L + 2) - (1 + L) = 1
      BY <1>3
    <3>2. \A j \in 1 .. L : /\ 1 + j \in 1 .. 1 + L /\ 1 + j \in 1 .. (1 + L) + 1
                            /\ ~ 1 + j <= 1 /\ (1 + j) - 1 = j
      BY <1>3
    <3>3. q[1] = mode /\ q[L + 2] = mode
      BY <2>2, <2>3, <2>5, <3>1
    <3>4. \A j \in 1 .. L : q[1 + j] = spelled[j]
      BY <2>3, <2>5, <3>2
    <3> QED  BY <3>3, <3>4
  <2>7. /\ a + 1 \in 1 .. Len(line) /\ (a + 1) + 1 = a + 2
        /\ a + L + 2 \in 1 .. Len(line) /\ (a + L + 2) + 1 = a + L + 3
        /\ a + L + 3 \in 1 .. Len(line) /\ a + Len(q) + 1 = a + L + 3
        /\ (a + 1) + L + 1 = a + L + 2 /\ (a + 1) + L <= Len(line) /\ a + 1 \in Nat
        /\ a + (L + 2) = a + L + 2 /\ L + 2 \in 1 .. Len(q) /\ 1 \in 1 .. Len(q)
    BY <1>3, <2>5
  <2>8. \A j \in 1 .. L : 1 + j \in 1 .. Len(q) /\ a + (1 + j) = (a + 1) + j
    BY <1>3, <2>5
  <2>9. line[a + 1] = mode /\ line[a + L + 2] = mode /\ \A j \in 1 .. L : line[(a + 1) + j] = spelled[j]
    <3>1. line[a + 1] = mode
      BY <2>6, <2>7
    <3>2. line[a + L + 2] = mode
      BY <2>6, <2>7
    <3>3. \A j \in 1 .. L : line[(a + 1) + j] = spelled[j]
      BY <2>6, <2>8
    <3> QED  BY <3>1, <3>2, <3>3
  <2>10. f[a + L + 3]["plain"] = Read(<< >>, a + L + 3)
    BY <1>2, <2>7, WordBoundaries
  <2>11. f[a + L + 2][mode] = Read(<< >>, a + L + 3)
    BY <1>2, <2>1, <2>7, <2>9, <2>10, WordBoundaries
  <2>12. f[(a + 1) + L + 1][mode] = Read(<< >>, a + L + 3)
    BY <2>7, <2>11
  <2>13. Stands(line, a + 1, spelled)
    BY <2>7, <2>9 DEF Stands
  <2>14. f[(a + 1) + 1][mode] = Read(text, a + L + 3)
    <3>1. \A at \in Nat, next \in {a + L + 3} :
            Stands(line, at, spelled) /\ f[at + L + 1][mode] = Read(<< >>, next)
              => f[at + 1][mode] = Read(text, next)
      BY <1>2, <1>4, SpellingsRead
    <3>2. a + 1 \in Nat
      BY <2>7
    <3> QED  BY <2>12, <2>13, <3>1, <3>2
  <2>15. f[a + 1]["plain"] = Read(text, a + L + 3)
    <3>1. \A i \in 1 .. Len(line) : line[i] \in Quotes => f[i]["plain"] = f[i + 1][line[i]]
      BY <1>2, WordBoundaries
    <3>2. f[a + 1]["plain"] = f[(a + 1) + 1][line[a + 1]]
      BY <2>1, <2>7, <2>9, <3>1
    <3> QED  BY <2>9, <2>14, <3>2
  <2>16. Len(q) >= 1
    BY <1>3, <2>5
  <2> QED  BY <1>2, <2>1, <2>5, <2>7, <2>9, <2>15, <2>16 DEF Texts
<1> QED  BY <1>6, <1>7

-----------------------------------------------------------------------------
(* A line of quoted texts. *)

\* Blanks are skipped up to the first other character, and no further.
LEMMA SkipsTo ==
  ASSUME NEW line \in Texts, NEW i \in 1 .. Len(line) + 1, NEW s \in i .. Len(line) + 1,
         \A k \in i .. s - 1 : line[k] \in Blanks, s <= Len(line) => line[s] \notin Blanks
  PROVE  SkipWhitespace(line, i) = s
<1> DEFINE Stops(k) == /\ \A m \in i .. k - 1 : line[m] \in Blanks
                       /\ k <= Len(line) => line[k] \notin Blanks
           c == CHOOSE k \in i .. Len(line) + 1 : Stops(k)
<1>1. Len(line) \in Nat
  BY Characters
<1>2. c \in i .. Len(line) + 1 /\ Stops(c)
  OBVIOUS
<1>3. c = SkipWhitespace(line, i)
  BY DEF SkipWhitespace
<1> HIDE DEF c
<1>4. CASE c < s
  <2>1. c \in i .. s - 1 /\ c <= Len(line)
    BY <1>1, <1>2, <1>4
  <2> QED  BY <1>2, <2>1
<1>5. CASE s < c
  <2>1. s \in i .. c - 1 /\ s <= Len(line)
    BY <1>1, <1>2, <1>5
  <2> QED  BY <1>2, <2>1
<1>6. c < s \/ s < c \/ c = s
  BY <1>1, <1>2
<1> QED  BY <1>3, <1>4, <1>5, <1>6

\* The token of a word.
LEMMA WordAt ==
  ASSUME NEW line \in Texts, NEW i \in 1 .. Len(line), NEW text, NEW next,
         line[i] \notin EndsWord \cup {"#", "2"}, ReadWord(line, i) = Read(text, next)
  PROVE  TokenAt(line, i) = [kind |-> "word", text |-> text, next |-> next]
<1>1. ~ i > Len(line) /\ ~ IsStderrArrow(line, i)
  BY Characters DEF IsStderrArrow
<1>2. line[i] # "|" /\ line[i] # ">" /\ line[i] # "<" /\ line[i] # "#"
  BY DEF EndsWord
<1>3. TokenAt(line, i) = WordToken(ReadWord(line, i))
  BY <1>1, <1>2, Zenon DEF TokenAt
<1>4. WordToken(Read(text, next)) = [kind |-> "word", text |-> text, next |-> next]
  BY DEF WordToken, Read
<1> QED  BY <1>3, <1>4

\* The token of a quoted text, also with a blank in front.
LEMMA QuotingToken ==
  ASSUME NEW line \in Texts, NEW text \in Texts, NEW q \in Quotings(text), NEW a \in Nat,
         Stands(line, a, q), a + Len(q) + 1 <= Len(line), line[a + Len(q) + 1] \in Blanks,
         NEW i \in 1 .. a + 1, \A k \in i .. a : line[k] \in Blanks
  PROVE  /\ q \in Texts /\ Len(q) >= 1
         /\ NextToken(line, i) = [kind |-> "word", text |-> text, next |-> a + Len(q) + 1]
<1>1. /\ ReadWord(line, a + 1) = Read(text, a + Len(q) + 1)
      /\ q \in Texts /\ Len(q) >= 1 /\ line[a + 1] \in Quotes \cup {"\\"}
  BY QuotingIsWord DEF Stands
<1>2. /\ Len(line) \in Nat /\ a + 1 \in 1 .. Len(line) /\ a + 1 \in i .. Len(line) + 1
      /\ i \in 1 .. Len(line) + 1 /\ (a + 1) - 1 = a
  BY <1>1, Characters
<1>3. line[a + 1] \notin EndsWord \cup {"#", "2"} /\ line[a + 1] \notin Blanks
  BY <1>1 DEF EndsWord, Blanks, Quotes
<1>4. SkipWhitespace(line, i) = a + 1
  BY <1>2, <1>3, SkipsTo
<1>5. TokenAt(line, a + 1) = [kind |-> "word", text |-> text, next |-> a + Len(q) + 1]
  BY <1>1, <1>2, <1>3, WordAt
<1> QED  BY <1>1, <1>4, <1>5 DEF NextToken

\* A word of one letter at the end of a line, with a blank in front.
LEMMA LastLetterToken ==
  ASSUME NEW line \in Texts, NEW i \in 1 .. Len(line), i + 1 = Len(line),
         line[i] \in Blanks, line[i + 1] = "n"
  PROVE  NextToken(line, i) = [kind |-> "word", text |-> <<"n">>, next |-> Len(line) + 1]
<1> DEFINE f == CHOOSE g : Scans(line, g)
           end == Len(line) + 1
           s == i + 1
<1>1. Scans(line, f) /\ ReadWord(line, s) = f[s]["plain"]
  BY ScanExists, ReadWordUnfolds
<1> HIDE DEF f
<1>2. /\ Len(line) \in Nat /\ i \in Nat /\ s \in 1 .. Len(line) /\ s \in i .. Len(line) + 1 /\ s - 1 = i
      /\ s + 1 = end /\ s # end /\ s < end /\ end \in 1 .. end /\ s \in 1 .. end /\ i \in 1 .. Len(line) + 1
  BY Characters
<1>3. line[s] = "n"
  OBVIOUS
<1>4. f[s] = WordStep(line, f, s) /\ f[end] = WordStep(line, f, end)
  BY <1>1, <1>2 DEF Scans
<1>5. f[end]["plain"] = Stop(end)
  BY <1>4 DEF WordStep, ModeStep, Modes
<1>6. f[s]["plain"] = Before(<<"n">>, f[end]["plain"])
  <2>1. "n" \notin EndsWord /\ "n" \notin Quotes
    BY DEF EndsWord, Blanks, Quotes
  <2>2. ModeStep(line, f, s, "plain") = Before(<<line[s]>>, f[s + 1]["plain"])
    BY <1>2, <1>3, <2>1 DEF ModeStep
  <2>3. f[s]["plain"] = ModeStep(line, f, s, "plain")
    BY <1>4 DEF WordStep, Modes
  <2> QED  BY <1>2, <1>3, <2>2, <2>3
<1>7. Before(<<"n">>, Stop(end)) = Read(<<"n">>, end)
  <2>1. <<"n">> \o << >> = <<"n">>
    OBVIOUS
  <2> QED  BY <2>1 DEF Before, Stop, Read
<1>8. ReadWord(line, s) = Read(<<"n">>, end)
  BY <1>1, <1>5, <1>6, <1>7
<1>9. line[s] \notin EndsWord \cup {"#", "2"} /\ line[s] \notin Blanks
  BY <1>3 DEF EndsWord, Blanks
<1>10. \A k \in i .. s - 1 : line[k] \in Blanks
  BY <1>2
<1>11. SkipWhitespace(line, i) = s
  BY <1>2, <1>9, <1>10, SkipsTo
<1>12. TokenAt(line, s) = [kind |-> "word", text |-> <<"n">>, next |-> end]
  BY <1>2, <1>8, <1>9, WordAt
<1> QED  BY <1>11, <1>12 DEF NextToken

\* The token at the end of a line.
LEMMA EndToken ==
  ASSUME NEW line \in Texts
  PROVE  NextToken(line, Len(line) + 1) = [kind |-> "eof", next |-> Len(line) + 1]
<1> DEFINE end == Len(line) + 1
<1>1. Len(line) \in Nat /\ end \in 1 .. end /\ end \in end .. end /\ ~ end <= Len(line) /\ end > Len(line)
  BY Characters
<1>2. \A k \in end .. end - 1 : line[k] \in Blanks
  BY <1>1
<1>3. SkipWhitespace(line, end) = end
  BY <1>1, <1>2, SkipsTo
<1> QED  BY <1>1, <1>3 DEF NextToken, TokenAt

\* A sequence of three members, one put in front of the others.
LEMMA TupleOfThree ==
  ASSUME NEW a, NEW b, NEW c
  PROVE  <<a>> \o (<<b>> \o (<<c>> \o << >>)) = <<a, b, c>>
<1> DEFINE S == {a, b, c}
           one == <<c>> \o << >>
           two == <<b>> \o one
           three == <<a>> \o two
           all == <<a, b, c>>
<1>1. /\ \A d \in S : <<d>> \in Seq(S) /\ Len(<<d>>) = 1 /\ <<d>>[1] = d
      /\ all \in Seq(S) /\ Len(all) = 3 /\ all[1] = a /\ all[2] = b /\ all[3] = c
      /\ a \in S /\ b \in S /\ c \in S
  OBVIOUS
<1>2. one = <<c>>
  OBVIOUS
<1>3. two \in Seq(S) /\ Len(two) = 2 /\ two[1] = b /\ two[2] = c
  <2> DEFINE first == <<b>>
             last == <<c>>
  <2>1. /\ first \in Seq(S) /\ Len(first) = 1 /\ first[1] = b
        /\ last \in Seq(S) /\ Len(last) = 1 /\ last[1] = c /\ two = first \o last
    BY <1>1, <1>2
  <2> HIDE DEF first, last, two, S
  <2>2. /\ two \in Seq(S) /\ Len(two) = Len(first) + Len(last)
        /\ \A i \in 1 .. Len(first) + Len(last) :
             two[i] = IF i <= Len(first) THEN first[i] ELSE last[i - Len(first)]
    BY <2>1, ConcatProperties
  <2>3. /\ 1 \in 1 .. 2 /\ 2 \in 1 .. 2 /\ 1 <= 1 /\ ~ 2 <= 1 /\ 2 - 1 = 1 /\ 1 + 1 = 2
    OBVIOUS
  <2> QED  BY <2>1, <2>2, <2>3
<1> HIDE DEF two
<1>4. three \in Seq(S) /\ Len(three) = 3 /\ three[1] = a /\ three[2] = b /\ three[3] = c
  <2>1. /\ three \in Seq(S) /\ Len(three) = Len(<<a>>) + Len(two)
        /\ \A i \in 1 .. Len(<<a>>) + Len(two) :
             three[i] = IF i <= Len(<<a>>) THEN <<a>>[i] ELSE two[i - Len(<<a>>)]
    <3>1. <<a>> \in Seq(S) /\ two \in Seq(S)
      BY <1>1, <1>3
    <3> QED  BY <3>1, ConcatProperties, Zenon
  <2> HIDE DEF three
  <2>2. \A i \in 1 .. 3 : three[i] = IF i <= 1 THEN <<a>>[i] ELSE two[i - 1]
    BY <1>1, <1>3, <2>1
  <2> QED  BY <1>1, <1>3, <2>1, <2>2
<1> HIDE DEF three, all, S
<1>5. \A i \in 1 .. 3 : three[i] = all[i]
  BY <1>1, <1>4
<1>6. three = all
  BY <1>1, <1>4, <1>5, SeqEqual
<1> QED  BY <1>6 DEF three, two, all

\* The part of a line that makes these arguments.
Words(argv) == Part(Command(argv, << >>), << >>, "none")

\* A line of three words makes one command.
LEMMA ThreeWords ==
  ASSUME NEW line \in Texts, NEW a \in Texts, NEW b \in Texts, NEW c \in Texts,
         NEW i \in 1 .. Len(line), NEW k \in 1 .. Len(line),
         NextToken(line, 1) = [kind |-> "word", text |-> a, next |-> i],
         NextToken(line, i) = [kind |-> "word", text |-> b, next |-> k],
         NextToken(line, k) = [kind |-> "word", text |-> c, next |-> Len(line) + 1]
  PROVE  ParseLine(line) = [commands |-> <<Command(<<a, b, c>>, << >>)>>, error |-> "none"]
<1> DEFINE rest == CHOOSE f : Parses(line, f)
           end == Len(line) + 1
<1>1. Parses(line, rest)
  BY ParseExists
<1>2. ParseLine(line) = Pipeline(rest[1])
  BY Zenon DEF ParseLine, Parses, ParseStep
<1> HIDE DEF rest
<1>3. Len(line) \in Nat /\ 1 \in 1 .. end /\ i \in 1 .. end /\ k \in 1 .. end /\ end \in 1 .. end
  BY Characters
<1>4. \A m \in 1 .. end : rest[m] = FromToken(line, NextToken(line, m), rest)
  BY <1>1 DEF Parses, ParseStep
<1>5. ASSUME NEW m \in 1 .. end, NEW next, NEW argv, NEW word,
             NextToken(line, m) = [kind |-> "word", text |-> word, next |-> next],
             rest[next] = Words(argv)
      PROVE  rest[m] = Words(<<word>> \o argv)
  <2> DEFINE token == [kind |-> "word", text |-> word, next |-> next]
             part == Words(argv)
             longer == <<word>> \o argv
  <2>1. rest[m] = FromToken(line, token, rest)
    BY <1>4, <1>5
  <2>2. FromToken(line, token, rest) = [rest[next] EXCEPT !.command.argv = <<word>> \o @]
    BY DEF FromToken
  <2>3. [part EXCEPT !.command.argv = <<word>> \o @] = [part EXCEPT !.command.argv = longer]
    BY DEF Words, Part, Command
  <2> HIDE DEF longer
  <2>4. [part EXCEPT !.command.argv = longer] = Words(longer)
    BY DEF Words, Part, Command
  <2> QED  BY <1>5, <2>1, <2>2, <2>3, <2>4 DEF longer
<1>6. rest[end] = Words(<< >>)
  <2>1. rest[end] = FromToken(line, [kind |-> "eof", next |-> end], rest)
    BY <1>3, <1>4, EndToken
  <2> QED  BY <2>1 DEF FromToken, NoCommand, Words
<1>7. rest[k] = Words(<<c>> \o << >>)
  <2>1. NextToken(line, k) = [kind |-> "word", text |-> c, next |-> end]
    OBVIOUS
  <2> DEFINE none == << >>
  <2>2. rest[end] = Words(none)
    BY <1>6
  <2> HIDE DEF end, none
  <2>3. rest[k] = Words(<<c>> \o none)
    BY <1>3, <1>5, <2>1, <2>2
  <2> QED  BY <2>3 DEF none
<1>8. rest[i] = Words(<<b>> \o (<<c>> \o << >>))
  BY <1>3, <1>5, <1>7
<1>9. rest[1] = Words(<<a>> \o (<<b>> \o (<<c>> \o << >>)))
  BY <1>3, <1>5, <1>8
<1>10. <<a>> \o (<<b>> \o (<<c>> \o << >>)) = <<a, b, c>>
  BY TupleOfThree
<1>11. Pipeline(Words(<<a, b, c>>)) = [commands |-> <<Command(<<a, b, c>>, << >>)>>, error |-> "none"]
  <2> DEFINE command == Command(<<a, b, c>>, << >>)
  <2>1. command # Command(<< >>, << >>)
    <3>1. Len(<<a, b, c>>) = 3 /\ Len(<< >>) = 0
      OBVIOUS
    <3> QED  BY <3>1 DEF Command
  <2>2. Words(<<a, b, c>>).command = command /\ Words(<<a, b, c>>).later = << >> /\ Words(<<a, b, c>>).error = "none"
    BY DEF Words, Part
  <2> HIDE DEF command
  <2>3. Pushed(command, << >>) = <<command>>
    <3>1. <<command>> \o << >> = <<command>>
      OBVIOUS
    <3> QED  BY <2>1, <3>1 DEF Pushed
  <2>4. <<command>> # << >>
    OBVIOUS
  <2> QED  BY <2>2, <2>3, <2>4 DEF Pipeline, command
<1> QED  BY <1>2, <1>9, <1>10, <1>11

\* A line of two quoted texts and a word.
Twice(q) == q \o <<" ">> \o q \o <<" ", "n">>

\* Where the parts of two quoted texts and a word stand in their line.
LEMMA TwoQuotings ==
  ASSUME NEW q \in Texts, NEW line, line = Twice(q)
  PROVE  /\ line \in Texts /\ Len(line) = Len(q) + Len(q) + 3 /\ Len(q) \in Nat
         /\ \A j \in 1 .. Len(q) : line[j] = q[j] /\ line[Len(q) + 1 + j] = q[j]
         /\ line[Len(q) + 1] = " " /\ line[Len(q) + Len(q) + 2] = " "
         /\ line[Len(q) + Len(q) + 3] = "n"
<1> DEFINE blank == <<" ">>
           last == <<" ", "n">>
           first == q \o blank
           second == first \o q
           L == Len(q)
<1>1. L \in Nat /\ q \in Seq(STRING)
  BY Characters DEF Texts
<1>2. /\ blank \in Seq(STRING) /\ Len(blank) = 1 /\ blank[1] = " "
      /\ last \in Seq(STRING) /\ Len(last) = 2 /\ last[1] = " " /\ last[2] = "n"
  BY ShortSequences, StringAssumption DEF Literals
<1> HIDE DEF blank, last, L
<1>3. first \in Seq(STRING) /\ Len(first) = L + 1 /\ (\A j \in 1 .. L : first[j] = q[j]) /\ first[L + 1] = " "
  <2>1. /\ first \in Seq(STRING) /\ Len(first) = Len(q) + Len(blank)
        /\ \A i \in 1 .. Len(q) + Len(blank) : first[i] = IF i <= Len(q) THEN q[i] ELSE blank[i - Len(q)]
    BY <1>1, <1>2, ConcatProperties
  <2> HIDE DEF first
  <2>2. /\ first \in Seq(STRING) /\ Len(first) = L + 1
        /\ \A i \in 1 .. L + 1 : first[i] = IF i <= L THEN q[i] ELSE blank[i - L]
    BY <1>2, <2>1 DEF L
  <2>3. /\ \A j \in 1 .. L : j \in 1 .. L + 1 /\ j <= L
        /\ L + 1 \in 1 .. L + 1 /\ ~ L + 1 <= L /\ (L + 1) - L = 1
    BY <1>1
  <2> QED  BY <1>2, <2>2, <2>3
<1> HIDE DEF first
<1>4. /\ second \in Seq(STRING) /\ Len(second) = L + 1 + L
      /\ \A j \in 1 .. L + 1 : second[j] = first[j]
      /\ \A j \in 1 .. L : second[L + 1 + j] = q[j]
  <2>1. /\ second \in Seq(STRING) /\ Len(second) = Len(first) + Len(q)
        /\ \A i \in 1 .. Len(first) + Len(q) : second[i] = IF i <= Len(first) THEN first[i] ELSE q[i - Len(first)]
    <3>1. first \in Seq(STRING) /\ q \in Seq(STRING)
      BY <1>1, <1>3
    <3> QED  BY <3>1, ConcatProperties, Zenon
  <2> HIDE DEF second
  <2>2. /\ second \in Seq(STRING) /\ Len(second) = L + 1 + L
        /\ \A i \in 1 .. L + 1 + L : second[i] = IF i <= L + 1 THEN first[i] ELSE q[i - (L + 1)]
    BY <1>3, <2>1 DEF L
  <2>3. /\ \A j \in 1 .. L + 1 : j \in 1 .. L + 1 + L /\ j <= L + 1
        /\ \A j \in 1 .. L : L + 1 + j \in 1 .. L + 1 + L /\ ~ L + 1 + j <= L + 1 /\ (L + 1 + j) - (L + 1) = j
    BY <1>1
  <2> QED  BY <2>2, <2>3
<1>5. line = second \o last
  BY DEF Twice, second, first, blank, last
<1> HIDE DEF second
<1>6. /\ line \in Seq(STRING) /\ Len(line) = L + L + 3
      /\ \A j \in 1 .. L + 1 + L : line[j] = second[j]
      /\ line[L + L + 2] = " " /\ line[L + L + 3] = "n"
  <2>1. /\ second \o last \in Seq(STRING) /\ Len(second \o last) = Len(second) + Len(last)
        /\ \A i \in 1 .. Len(second) + Len(last) :
             (second \o last)[i] = IF i <= Len(second) THEN second[i] ELSE last[i - Len(second)]
    <3>1. second \in Seq(STRING) /\ last \in Seq(STRING)
      BY <1>2, <1>4
    <3> QED  BY <3>1, ConcatProperties, Zenon
  <2>2. /\ line \in Seq(STRING) /\ Len(line) = L + 1 + L + 2
        /\ \A i \in 1 .. L + 1 + L + 2 : line[i] = IF i <= L + 1 + L THEN second[i] ELSE last[i - (L + 1 + L)]
    BY <1>2, <1>4, <1>5, <2>1
  <2>3. /\ L + 1 + L + 2 = L + L + 3
        /\ \A j \in 1 .. L + 1 + L : j \in 1 .. L + 1 + L + 2 /\ j <= L + 1 + L
        /\ L + L + 2 \in 1 .. L + 1 + L + 2 /\ ~ L + L + 2 <= L + 1 + L /\ (L + L + 2) - (L + 1 + L) = 1
        /\ L + L + 3 \in 1 .. L + 1 + L + 2 /\ ~ L + L + 3 <= L + 1 + L /\ (L + L + 3) - (L + 1 + L) = 2
    BY <1>1
  <2> QED  BY <1>2, <2>2, <2>3
<1>7. /\ \A j \in 1 .. L : j \in 1 .. L + 1 /\ j \in 1 .. L + 1 + L /\ L + 1 + j \in 1 .. L + 1 + L
      /\ L + 1 \in 1 .. L + 1 /\ L + 1 \in 1 .. L + 1 + L
  BY <1>1
<1>8. line[L + 1] = " "
  BY <1>3, <1>4, <1>6, <1>7
<1>9. \A j \in 1 .. L : line[j] = q[j] /\ line[L + 1 + j] = q[j]
  BY <1>3, <1>4, <1>6, <1>7
<1> QED  BY <1>1, <1>6, <1>8, <1>9 DEF L, Texts

\* A quoted text is a text.
LEMMA QuotingTexts ==
  ASSUME NEW text \in Texts, NEW q \in Quotings(text)
  PROVE  q \in Texts
<1>1. PICK mode, chunks : Shape(q, text, mode, chunks)
  BY QuotingShapes
<1> DEFINE spelled == FlattenSeq(chunks)
<1>2. spelled \in Texts
  <2>1. chunks \in Seq(Seq(STRING))
    BY <1>1 DEF Shape, Spelling, Texts
  <2> QED  BY <2>1, FlattenType DEF Texts
<1>3. mode \in Modes /\ q = IF mode = "plain" THEN spelled ELSE <<mode>> \o spelled \o <<mode>>
  BY <1>1 DEF Shape
<1> HIDE DEF spelled
<1>4. CASE mode = "plain"
  BY <1>2, <1>3, <1>4
<1>5. CASE mode # "plain"
  <2>1. mode \in STRING
    BY <1>3, <1>5, StringAssumption DEF Modes, Quotes, Literals
  <2>2. <<mode>> \in Texts
    BY <2>1, TextsJoined
  <2>3. <<mode>> \o spelled \in Texts
    BY <1>2, <2>2, TextsJoined
  <2>4. <<mode>> \o spelled \o <<mode>> \in Texts
    BY <2>2, <2>3, TextsJoined
  <2> QED  BY <1>3, <1>5, <2>4
<1> QED  BY <1>4, <1>5

\* Two quoted texts and a word make a command with these three arguments.
LEMMA QuotingsAreArguments ==
  ASSUME NEW text \in Texts, NEW q \in Quotings(text)
  PROVE  ParseLine(q \o <<" ">> \o q \o <<" ", "n">>) =
           [commands |-> <<Command(<<text, text, <<"n">>>>, << >>)>>, error |-> "none"]
<1> DEFINE line == Twice(q)
           L == Len(q)
           N == Len(line)
<1>1. q \in Texts
  BY QuotingTexts
<1>2. /\ line \in Texts /\ Len(line) = L + L + 3 /\ L \in Nat
      /\ \A j \in 1 .. L : line[j] = q[j] /\ line[L + 1 + j] = q[j]
      /\ line[L + 1] = " " /\ line[L + L + 2] = " "
      /\ line[L + L + 3] = "n"
  BY <1>1, TwoQuotings
<1>3. L \in Nat /\ N = L + L + 3
  BY <1>2
<1> HIDE DEF line, L, N
<1>4. /\ 0 + L + 1 = L + 1 /\ 0 + L + 1 <= N /\ 0 + L <= N /\ \A j \in 1 .. L : 0 + j = j
      /\ (L + 1) + L + 1 = L + L + 2 /\ (L + 1) + L + 1 <= N /\ (L + 1) + L <= N
      /\ L + 1 \in Nat /\ L + 1 \in 1 .. (L + 1) + 1 /\ \A k \in L + 1 .. L + 1 : k = L + 1
      /\ L + L + 2 \in 1 .. N /\ (L + L + 2) + 1 = N /\ (L + L + 2) + 1 = L + L + 3
      /\ L + 1 \in 1 .. N
  BY <1>3
<1>5. " " \in Blanks
  BY DEF Blanks
<1>6. NextToken(line, 1) = [kind |-> "word", text |-> text, next |-> L + 1]
  <2>1. Stands(line, 0, q) /\ 0 + L + 1 = L + 1 /\ 0 + L + 1 <= Len(line)
    BY <1>2, <1>4 DEF Stands, L, N
  <2>2. 0 \in Nat /\ 1 \in 1 .. 0 + 1 /\ \A k \in 1 .. 0 : line[k] \in Blanks
    OBVIOUS
  <2>3. line[0 + L + 1] \in Blanks
    BY <1>2, <1>5, <2>1
  <2>4. NextToken(line, 1) = [kind |-> "word", text |-> text, next |-> 0 + L + 1]
    BY <1>2, <2>1, <2>2, <2>3, QuotingToken DEF L
  <2> QED  BY <2>1, <2>4
<1>7. NextToken(line, L + 1) = [kind |-> "word", text |-> text, next |-> L + L + 2]
  <2>1. Stands(line, L + 1, q) /\ (L + 1) + L + 1 = L + L + 2 /\ (L + 1) + L + 1 <= Len(line)
    BY <1>2, <1>4 DEF Stands, L, N
  <2>2. L + 1 \in Nat /\ L + 1 \in 1 .. (L + 1) + 1
    BY <1>4
  <2>3. \A k \in L + 1 .. L + 1 : line[k] \in Blanks
    BY <1>2, <1>5, <1>4
  <2>4. line[(L + 1) + L + 1] \in Blanks
    BY <1>2, <1>5, <2>1
  <2>5. NextToken(line, L + 1) = [kind |-> "word", text |-> text, next |-> (L + 1) + L + 1]
    BY <1>2, <2>1, <2>2, <2>3, <2>4, QuotingToken DEF L
  <2> QED  BY <2>1, <2>5
<1>8. NextToken(line, L + L + 2) = [kind |-> "word", text |-> <<"n">>, next |-> Len(line) + 1]
  <2>1. L + L + 2 \in 1 .. Len(line) /\ (L + L + 2) + 1 = Len(line) /\ (L + L + 2) + 1 = L + L + 3
    BY <1>4 DEF N
  <2> QED  BY <1>2, <1>5, <2>1, LastLetterToken
<1>9. L + 1 \in 1 .. Len(line) /\ L + L + 2 \in 1 .. Len(line)
  BY <1>4 DEF N
<1>10. <<"n">> \in Texts
  BY ShortSequences, StringAssumption DEF Literals, Texts
<1>11. ParseLine(line) = [commands |-> <<Command(<<text, text, <<"n">>>>, << >>)>>, error |-> "none"]
  <2>1. line \in Texts
    BY <1>2
  <2>2. ASSUME NEW at \in Texts, at = line
        PROVE  ParseLine(at) = [commands |-> <<Command(<<text, text, <<"n">>>>, << >>)>>, error |-> "none"]
    <3>1. /\ L + 1 \in 1 .. Len(at) /\ L + L + 2 \in 1 .. Len(at)
          /\ NextToken(at, 1) = [kind |-> "word", text |-> text, next |-> L + 1]
          /\ NextToken(at, L + 1) = [kind |-> "word", text |-> text, next |-> L + L + 2]
          /\ NextToken(at, L + L + 2) = [kind |-> "word", text |-> <<"n">>, next |-> Len(at) + 1]
      BY <1>6, <1>7, <1>8, <1>9, <2>2
    <3> QED  BY <1>10, <3>1, ThreeWords
  <2> QED  BY <2>1, <2>2
<1> QED  BY <1>11 DEF line, Twice

-----------------------------------------------------------------------------
(* Texts with backslashes written as escapes. *)

\* Digits in a row are taken up to the limit.
LEMMA DigitsInARow ==
  ASSUME NEW text \in Texts, NEW i \in 1 .. Len(text) + 1, NEW base, NEW limit \in Nat,
         i + limit <= Len(text) + 1, \A m \in i .. i + limit - 1 : IsDigit(text[m], base)
  PROVE  DigitRun(text, i, base, limit) = limit
<1> DEFINE run == DigitRun(text, i, base, limit)
<1>1. /\ run \in 0 .. limit /\ i + run <= Len(text) + 1
      /\ run < limit /\ i + run <= Len(text) => ~ IsDigit(text[i + run], base)
  BY DigitRunType
<1> HIDE DEF run
<1>2. run < limit => i + run <= Len(text) /\ i + run \in i .. i + limit - 1
  BY <1>1, Characters
<1>3. ~ run < limit
  BY <1>1, <1>2
<1>4. run = limit
  BY <1>1, <1>3
<1> QED  BY <1>4 DEF run

\* Parts of two and three characters.
LEMMA ShortParts ==
  ASSUME NEW text \in Texts, NEW i \in 1 .. Len(text)
  PROVE  /\ i + 1 <= Len(text) => SubSeq(text, i, i + 1) = <<text[i], text[i + 1]>>
         /\ i + 2 <= Len(text) => SubSeq(text, i, i + 2) = <<text[i], text[i + 1], text[i + 2]>>
<1>1. Len(text) \in Nat /\ i \in Int /\ \A k \in 1 .. Len(text) : text[k] \in STRING
  BY Characters
<1>2. ASSUME i + 1 <= Len(text)
      PROVE  SubSeq(text, i, i + 1) = <<text[i], text[i + 1]>>
  <2> DEFINE part == SubSeq(text, i, i + 1)
             all == <<text[i], text[i + 1]>>
  <2>1. i + 1 \in Int /\ i <= i + 1 /\ (i + 1) - i + 1 = 2 /\ \A k \in i .. i + 1 : k \in 1 .. Len(text)
    BY <1>1, <1>2
  <2>2. \A k \in i .. i + 1 : text[k] \in STRING
    BY <1>1, <2>1
  <2>3. /\ part \in Seq(STRING) /\ Len(part) = (i + 1) - i + 1
        /\ \A k \in 1 .. (i + 1) - i + 1 : part[k] = text[i + k - 1]
    BY <1>1, <2>1, <2>2, SubSeqProperties
  <2>4. text[i] \in STRING /\ text[i + 1] \in STRING
    BY <1>1, <1>2, <2>1, <2>2
  <2>5. all \in Seq(STRING) /\ Len(all) = 2 /\ all[1] = text[i] /\ all[2] = text[i + 1]
    BY <2>4, ShortSequences
  <2> HIDE DEF part, all
  <2>6. part[1] = all[1] /\ part[2] = all[2] /\ Len(part) = Len(all)
    BY <1>1, <2>1, <2>3, <2>5
  <2>7. \A k \in 1 .. Len(part) : part[k] = all[k]
    BY <2>5, <2>6
  <2>8. part = all
    BY <2>3, <2>5, <2>6, <2>7, SeqEqual
  <2> QED  BY <2>8 DEF part, all
<1>3. ASSUME i + 2 <= Len(text)
      PROVE  SubSeq(text, i, i + 2) = <<text[i], text[i + 1], text[i + 2]>>
  <2> DEFINE part == SubSeq(text, i, i + 2)
             all == <<text[i], text[i + 1], text[i + 2]>>
  <2>1. i + 2 \in Int /\ i <= i + 2 /\ (i + 2) - i + 1 = 3 /\ \A k \in i .. i + 2 : k \in 1 .. Len(text)
    BY <1>1, <1>3
  <2>2. \A k \in i .. i + 2 : text[k] \in STRING
    BY <1>1, <2>1
  <2>3. /\ part \in Seq(STRING) /\ Len(part) = (i + 2) - i + 1
        /\ \A k \in 1 .. (i + 2) - i + 1 : part[k] = text[i + k - 1]
    BY <1>1, <2>1, <2>2, SubSeqProperties
  <2>4. text[i] \in STRING /\ text[i + 1] \in STRING /\ text[i + 2] \in STRING
    BY <1>1, <1>3, <2>1, <2>2
  <2>5. all \in Seq(STRING) /\ Len(all) = 3 /\ all[1] = text[i] /\ all[2] = text[i + 1] /\ all[3] = text[i + 2]
    BY <2>4, ShortSequences
  <2> HIDE DEF part, all
  <2>6. part[1] = all[1] /\ part[2] = all[2] /\ part[3] = all[3] /\ Len(part) = Len(all)
    BY <1>1, <2>1, <2>3, <2>5
  <2>7. \A k \in 1 .. Len(part) : part[k] = all[k]
    BY <2>5, <2>6
  <2>8. part = all
    BY <2>3, <2>5, <2>6, <2>7, SeqEqual
  <2> QED  BY <2>8 DEF part, all
<1> QED  BY <1>2, <1>3

\* How c is written in a masked text.
MaskedAs(c, chunk) ==
  \/ chunk = <<c>> /\ c # "\\"
  \/ c = "\\" /\ chunk \in {<<"\\", "\\">>, <<"\\", "x", "5", "c">>, <<"\\", "1", "3", "4">>}

\* It stands at i.
MaskedAt(text, c, chunk, i) ==
  /\ c \in STRING /\ MaskedAs(c, chunk)
  /\ i \in 1 .. Len(text) /\ i + Len(chunk) \in 1 .. Len(text) + 1
  /\ \A j \in 1 .. Len(chunk) : text[(i - 1) + j] = chunk[j]

\* The step of write_escaped that writes a single piece.
WritesOne(f, c, i, next) == \E w \in Writes : w.text = <<c>> /\ f[i] = <<w>> \o f[next]

\* c is written, and what stands behind it is next.
LEMMA MaskedRead ==
  ASSUME NEW text \in Texts, NEW f, Escapings(text, f), NEW c, NEW chunk, NEW i,
         MaskedAt(text, c, chunk, i)
  PROVE  WritesOne(f, c, i, i + Len(chunk))
<1> USE DEF MaskedAt
<1>1. Len(text) \in Nat /\ i \in Nat /\ i # Len(text) + 1 /\ i \in 1 .. Len(text) + 1 /\ (i - 1) + 1 = i
  BY Characters
<1>2. f[i] = EscapeStep(text, f, i)
  BY <1>1 DEF Escapings
<1>3. CASE chunk = <<c>> /\ c # "\\"
  <2>1. Len(chunk) = 1 /\ chunk[1] = c /\ 1 \in 1 .. Len(chunk)
    BY <1>3
  <2>2. text[i] = c
    BY <1>1, <2>1
  <2>3. EscapeStep(text, f, i) = <<Write(<<c>>)>> \o f[i + 1]
    BY <1>1, <1>3, <2>2 DEF EscapeStep
  <2>4. Write(<<c>>) \in Writes /\ Write(<<c>>).text = <<c>>
    BY TextsJoined, WriteTypes DEF Write
  <2> QED  BY <1>2, <2>1, <2>3, <2>4 DEF WritesOne
<1>4. WriteByte("\\") \in Writes /\ WriteByte("\\").text = <<"\\">>
  BY StringAssumption, WriteTypes DEF WriteByte, Literals
<1> DEFINE after == i + 2 + Hex(text, i + 2)
           next == i + 1 + Octal(text, i + 1)
<1>5. CASE c = "\\" /\ chunk = <<"\\", "\\">>
  <2>1. Len(chunk) = 2 /\ chunk[1] = "\\" /\ chunk[2] = "\\" /\ (i - 1) + 2 = i + 1
    BY <1>1, <1>5
  <2>2. text[i] = "\\" /\ text[i + 1] = "\\" /\ i + 1 # Len(text) + 1
    BY <1>1, <2>1
  <2>3. "\\" \in DOMAIN SimpleEscapes /\ SimpleEscapes["\\"] = 92
    BY DEF SimpleEscapes
  <2>4. EscapeStep(text, f, i) = <<WriteByte(Byte(SimpleEscapes["\\"]))>> \o f[i + 2]
    <3>1. ~ IsDigit("\\", 8)
      BY EscapeAssumption
    <3> QED  BY <1>1, <2>2, <2>3, <3>1 DEF EscapeStep
  <2>5. Byte(SimpleEscapes["\\"]) = "\\"
    BY <2>3, EscapeAssumption
  <2> QED  BY <1>2, <1>4, <1>5, <2>1, <2>4, <2>5 DEF WritesOne
<1>6. CASE c = "\\" /\ chunk = <<"\\", "x", "5", "c">>
  <2>1. /\ Len(chunk) = 4 /\ chunk[1] = "\\" /\ chunk[2] = "x" /\ chunk[3] = "5" /\ chunk[4] = "c"
        /\ (i - 1) + 2 = i + 1 /\ (i - 1) + 3 = i + 2 /\ (i - 1) + 4 = (i + 2) + 1
    BY <1>1, <1>6
  <2>2. /\ text[i] = "\\" /\ text[i + 1] = "x" /\ text[i + 2] = "5" /\ text[(i + 2) + 1] = "c"
    BY <1>1, <2>1
  <2>3. /\ i + 1 # Len(text) + 1 /\ i + 2 \in 1 .. Len(text) /\ i + 2 \in 1 .. Len(text) + 1
        /\ (i + 2) + 1 <= Len(text) /\ (i + 2) + 2 <= Len(text) + 1
        /\ \A m \in i + 2 .. (i + 2) + 2 - 1 : m = i + 2 \/ m = (i + 2) + 1
        /\ 2 \in Nat /\ (i + 2 + 2) - 1 = (i + 2) + 1 /\ i + 2 + 2 = i + 4
    BY <1>1, <2>1
  <2>4. IsDigit("5", 16) /\ IsDigit("c", 16)
    BY EscapeAssumption
  <2>5. \A m \in i + 2 .. (i + 2) + 2 - 1 : IsDigit(text[m], 16)
    BY <2>2, <2>3, <2>4
  <2>6. HexLimit = 2
    BY DEF HexLimit
  <2>7. Hex(text, i + 2) = 2
    BY <2>3, <2>5, <2>6, DigitsInARow DEF Hex
  <2>8. SubSeq(text, i + 2, after - 1) = <<"5", "c">>
    <3>1. SubSeq(text, i + 2, (i + 2) + 1) = <<text[i + 2], text[(i + 2) + 1]>>
      BY <2>3, ShortParts
    <3> QED  BY <2>2, <2>3, <2>7, <3>1
  <2>9. EscapeStep(text, f, i) =
          <<WriteByte(Byte(Number(SubSeq(text, i + 2, after - 1), 16)))>> \o f[after]
    <3>1. "x" \notin DOMAIN SimpleEscapes
      BY DEF SimpleEscapes
    <3>2. ~ IsDigit("x", 8)
      BY EscapeAssumption
    <3> DEFINE hex == Hex(text, i + 2)
               digits == SubSeq(text, i + 2, after - 1)
               hexByte == <<WriteByte(Byte(Number(digits, 16)))>> \o f[after]
    <3>3. text[i] = "\\" /\ i # Len(text) + 1 /\ i + 1 # Len(text) + 1
      BY <1>1, <2>2, <2>3
    <3>4. \E crlf, simple, literal, octal, unknown :
            EscapeStep(text, f, i) =
              CASE text[i + 1] = "c" -> << >>
                [] text[i + 1] = "n" -> crlf
                [] text[i + 1] \in DOMAIN SimpleEscapes -> simple
                [] text[i + 1] = "x" /\ hex = HexLimit -> hexByte
                [] text[i + 1] = "x" /\ hex < HexLimit -> literal
                [] IsDigit(text[i + 1], 8) -> octal
                [] OTHER -> unknown
      BY <3>3, Zenon DEF EscapeStep
    <3> HIDE DEF hexByte
    <3>5. EscapeStep(text, f, i) = hexByte
      BY <2>2, <2>6, <2>7, <3>1, <3>2, <3>4
    <3> QED  BY <3>5 DEF hexByte
  <2>10. Byte(Number(SubSeq(text, i + 2, after - 1), 16)) = "\\"
    <3>1. Byte(Number(<<"5", "c">>, 16)) = "\\"
      BY EscapeAssumption
    <3> QED  BY <2>8, <3>1
  <2>11. after = i + Len(chunk)
    BY <1>1, <2>1, <2>7
  <2> HIDE DEF after
  <2> QED  BY <1>2, <1>4, <1>6, <2>9, <2>10, <2>11 DEF WritesOne
<1>7. CASE c = "\\" /\ chunk = <<"\\", "1", "3", "4">>
  <2>1. /\ Len(chunk) = 4 /\ chunk[1] = "\\" /\ chunk[2] = "1" /\ chunk[3] = "3" /\ chunk[4] = "4"
        /\ (i - 1) + 2 = i + 1 /\ (i - 1) + 3 = (i + 1) + 1 /\ (i - 1) + 4 = (i + 1) + 2
    BY <1>1, <1>7
  <2>2. /\ text[i] = "\\" /\ text[i + 1] = "1" /\ text[(i + 1) + 1] = "3" /\ text[(i + 1) + 2] = "4"
    BY <1>1, <2>1
  <2>3. /\ i + 1 # Len(text) + 1 /\ i + 1 \in 1 .. Len(text) /\ i + 1 \in 1 .. Len(text) + 1
        /\ (i + 1) + 2 <= Len(text) /\ (i + 1) + 3 <= Len(text) + 1
        /\ \A m \in i + 1 .. (i + 1) + 3 - 1 : m = i + 1 \/ m = (i + 1) + 1 \/ m = (i + 1) + 2
        /\ 3 \in Nat /\ (i + 1 + 3) - 1 = (i + 1) + 2 /\ i + 1 + 3 = i + 4
    BY <1>1, <2>1
  <2>4. IsDigit("1", 8) /\ IsDigit("3", 8) /\ IsDigit("4", 8)
    BY EscapeAssumption
  <2>5. \A m \in i + 1 .. (i + 1) + 3 - 1 : IsDigit(text[m], 8)
    BY <2>2, <2>3, <2>4
  <2>6. Octal(text, i + 1) = 3
    BY <2>3, <2>5, DigitsInARow DEF Octal
  <2>7. SubSeq(text, i + 1, next - 1) = <<"1", "3", "4">>
    <3>1. SubSeq(text, i + 1, (i + 1) + 2) = <<text[i + 1], text[(i + 1) + 1], text[(i + 1) + 2]>>
      BY <2>3, ShortParts
    <3> QED  BY <2>2, <2>3, <2>6, <3>1
  <2>8. EscapeStep(text, f, i) =
          <<WriteByte(Byte(Number(SubSeq(text, i + 1, next - 1), 8)))>> \o f[next]
    <3>1. "1" \notin DOMAIN SimpleEscapes
      BY DEF SimpleEscapes
    <3> QED  BY <1>1, <2>2, <2>3, <2>4, <2>6, <3>1 DEF EscapeStep
  <2>9. Byte(Number(SubSeq(text, i + 1, next - 1), 8)) = "\\"
    <3>1. Byte(Number(<<"1", "3", "4">>, 8)) = "\\"
      BY EscapeAssumption
    <3> QED  BY <2>7, <3>1
  <2>10. next = i + Len(chunk)
    BY <1>1, <2>1, <2>6
  <2> HIDE DEF next
  <2> QED  BY <1>2, <1>4, <1>7, <2>8, <2>9, <2>10 DEF WritesOne
<1> QED  BY <1>3, <1>5, <1>6, <1>7 DEF MaskedAs

\* echo -e -- takes its other argument for text and writes its escapes.
LEMMA EchoOfOne ==
  ASSUME NEW text \in Texts
  PROVE  Echo(<<Text("-e"), Text("--"), text>>) = WriteEscaped(text) \o <<Write(Crlf)>>
<1> DEFINE args == <<Text("-e"), Text("--"), text>>
           f == CHOOSE f : FlagsRead(args, f)
           flags == f[Len(args)]
           rest == SubSeq(args, flags.start, Len(args))
           printed(i) ==
             (IF i > 1 THEN <<WriteByte(" ")>> ELSE << >>)
               \o (IF flags.escapes THEN WriteEscaped(rest[i]) ELSE <<Write(rest[i])>>)
           last == IF flags.newline THEN <<Write(Crlf)>> ELSE << >>
           marker == <<"-", "e">>
           end == <<"-", "-">>
<1>1. Text("-e") = marker /\ Text("--") = end
  BY EscapeAssumption
<1>2. marker \in Texts /\ end \in Texts
  <2>1. "-" \in STRING /\ "e" \in STRING
    BY EscapeAssumption
  <2> QED  BY <2>1, ShortSequences DEF Texts
<1>3. /\ args \in Seq(Texts) /\ Len(args) = 3
      /\ args[1] = marker /\ args[2] = end /\ args[3] = text
  BY <1>1, <1>2, ShortSequences
<1>4. FlagsRead(args, f)
  BY <1>3, FlagsReadExist
<1>5. Echo(args) = FlattenSeq([i \in DOMAIN rest |-> printed(i)]) \o last
  BY Zenon DEF Echo, FlagsRead, FlagStep, Unread
<1> HIDE DEF f, args
<1>6. /\ f[0] = Unread /\ f[1] = ReadFlags(f[0], args[1])
      /\ f[2] = ReadFlags(f[1], args[2]) /\ f[3] = ReadFlags(f[2], args[3])
  <2>1. \A k \in 0 .. 3 : f[k] = FlagStep(args, f, k)
    BY <1>3, <1>4 DEF FlagsRead
  <2> QED  BY <2>1 DEF FlagStep
<1>7. ReadFlags(Unread, marker) = [start |-> 2, newline |-> TRUE, escapes |-> TRUE, done |-> FALSE]
  <2> DEFINE letters == {"n", "e", "E"}
             valid == CHOOSE k \in 1 .. Len(marker) :
               /\ \A m \in 2 .. k : marker[m] \in letters
               /\ k < Len(marker) => marker[k + 1] \notin letters
             switches == {m \in 2 .. valid : marker[m] \in {"e", "E"}}
  <2>1. Len(marker) = 2 /\ marker[1] = "-" /\ marker[2] = "e" /\ marker # end
    OBVIOUS
  <2> HIDE DEF marker
  <2>2. valid = 2
    <3>1. \A k \in 1 .. 2 : (k < 2 => marker[k + 1] \notin letters) => k = 2
      BY <2>1
    <3>2. \A m \in 2 .. 2 : marker[m] \in letters
      BY <2>1
    <3>3. \E k \in 1 .. Len(marker) : /\ \A m \in 2 .. k : marker[m] \in letters
                                      /\ k < Len(marker) => marker[k + 1] \notin letters
      BY <2>1, <3>2
    <3> QED  BY <2>1, <3>1, <3>3
  <2>3. switches = {2}
    BY <2>1, <2>2
  <2> HIDE DEF valid
  <2>4. Max(switches) = 2
    BY <2>3 DEF Max
  <2>5. \A m \in 2 .. valid : marker[m] # "n"
    BY <2>1, <2>2
  <2> HIDE DEF switches
  <2> DEFINE newline == Unread.newline /\ \A m \in 2 .. valid : marker[m] # "n"
             escapes == IF switches = {} THEN Unread.escapes ELSE marker[Max(switches)] = "e"
  <2>6. ReadFlags(Unread, marker) =
          [start |-> Unread.start + 1, done |-> FALSE, newline |-> newline, escapes |-> escapes]
    BY <1>1, <2>1, <2>2 DEF ReadFlags, Unread, valid, switches
  <2>7. newline = TRUE
    BY <2>5 DEF Unread
  <2>8. escapes = TRUE
    BY <2>1, <2>3, <2>4
  <2> HIDE DEF newline, escapes
  <2>9. Unread.start + 1 = 2
    BY DEF Unread
  <2> QED  BY <2>6, <2>7, <2>8, <2>9
<1> DEFINE first == [start |-> 2, newline |-> TRUE, escapes |-> TRUE, done |-> FALSE]
           second == [first EXCEPT !.start = @ + 1, !.done = TRUE]
<1>8. ReadFlags(first, end) = second
  <2>1. first.done = FALSE /\ end = Text("--")
    BY <1>1
  <2> HIDE DEF first, end
  <2> QED  BY <2>1 DEF ReadFlags
<1>9. second.start = 3 /\ second.newline /\ second.escapes /\ second.done
  OBVIOUS
<1> HIDE DEF first, second
<1>10. flags = second
  <2>1. ReadFlags(second, text) = second
    BY <1>9 DEF ReadFlags
  <2> QED  BY <1>3, <1>6, <1>7, <1>8, <2>1 DEF first
<1> HIDE DEF flags
<1>11. flags.start = 3 /\ flags.newline /\ flags.escapes
  BY <1>9, <1>10
<1>12. rest = <<text>>
  <2>1. 3 \in 1 .. Len(args) /\ 3 \in 3 .. Len(args) /\ 3 + 1 = 4 /\ 4 \in Int /\ 3 \in Int /\ 3 < 4
    BY <1>3
  <2>2. SubSeq(args, 3, 3) = <<args[3]>> \o SubSeq(args, 3 + 1, 3)
    BY <1>3, <2>1, SubSeqRecursiveFirst
  <2>3. SubSeq(args, 4, 3) = << >>
    BY <2>1, SubSeqEmpty
  <2>4. <<text>> \o << >> = <<text>>
    OBVIOUS
  <2> QED  BY <1>3, <1>11, <2>1, <2>2, <2>3, <2>4
<1> HIDE DEF rest
<1>13. DOMAIN rest = 1 .. 1 /\ rest[1] = text
  BY <1>12
<1>14. WriteEscaped(text) \in Seq(Writes)
  BY WriteEscapedType
<1> DEFINE each == [i \in 1 .. 1 |-> printed(i)]
<1>15. each \in Seq(Seq(Writes)) /\ Len(each) = 1 /\ each[1] = WriteEscaped(text) /\ each # << >>
  <2>1. printed(1) = << >> \o WriteEscaped(text)
    BY <1>11, <1>13
  <2>2. << >> \o WriteEscaped(text) = WriteEscaped(text)
    BY <1>14, ConcatEmptySeq
  <2>3. printed(1) \in Seq(Writes) /\ printed(1) = WriteEscaped(text)
    BY <1>14, <2>1, <2>2
  <2> HIDE DEF printed
  <2> QED  BY <2>3
<1>16. FlattenSeq(each) = WriteEscaped(text)
  <2> HIDE DEF each
  <2>1. PICK g : Joins(g, each) /\ FlattenSeq(each) = g[Len(each)]
    BY <1>15, FlattenJoins
  <2> QED  BY <1>15, <2>1 DEF Joins
<1>17. last = <<Write(Crlf)>>
  BY <1>11
<1>18. Echo(args) = FlattenSeq(each) \o last
  BY <1>5, <1>13
<1> HIDE DEF each, last
<1> QED  BY <1>16, <1>17, <1>18 DEF args

=============================================================================
