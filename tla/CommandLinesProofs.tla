-------------------------- MODULE CommandLinesProofs --------------------------
(***************************************************************************)
(* Proofs about the writers: whatever a line prints, however much of it a   *)
(* write takes and wherever the terminal breaks, what arrives is what was    *)
(* written, in its order, with the rest still to be written.                  *)
(***************************************************************************)
EXTENDS CommandLines, BuiltinsProofs

-----------------------------------------------------------------------------
(* What a sequence of writes contains. *)

Piece == [call : {"write_str", "write_char"}, text : Texts \ {<< >>}]

\* Texts can be put behind each other.
LEMMA TextsJoin ==
  /\ << >> \in Texts
  /\ \A a, b \in Texts : a \o b \in Texts
  /\ \A a \in Texts : a \o << >> = a /\ << >> \o a = a
  /\ \A a, b, c \in Texts : (a \o b) \o c = a \o (b \o c)
<1>1. ASSUME NEW S
      PROVE  /\ << >> \in Seq(S)
             /\ \A a, b \in Seq(S) : a \o b \in Seq(S)
             /\ \A a \in Seq(S) : a \o << >> = a /\ << >> \o a = a
             /\ \A a, b, c \in Seq(S) : (a \o b) \o c = a \o (b \o c)
  <2>1. << >> \in Seq(S) /\ \A a, b \in Seq(S) : a \o b \in Seq(S)
    BY EmptySeq, ConcatProperties
  <2>2. \A a \in Seq(S) : a \o << >> = a /\ << >> \o a = a
    BY ConcatEmptySeq
  <2>3. \A a, b, c \in Seq(S) : (a \o b) \o c = a \o (b \o c)
    BY ConcatAssociative
  <2> QED  BY <2>1, <2>2, <2>3
<1> QED  BY <1>1 DEF Texts

\* It does not matter which two of three are put together first.
Associates(a, b, c) == (a \o b) \o c = a \o (b \o c)

\* It holds for any three texts.
LEMMA ThreeTexts ==
  ASSUME NEW a \in Texts, NEW b \in Texts, NEW c \in Texts
  PROVE  Associates(a, b, c)
BY TextsJoin, Zenon DEF Associates

\* It does not matter where they are put together: with one text appended to
\* the one before it, and with one cut off the one behind it.
Regroups(a, b, c, d) == (a \o b) \o (c \o d) = (a \o (b \o c)) \o d
RegroupsCut(a, b, c, d) == a \o ((b \o c) \o d) = (a \o b) \o (c \o d)

\* What is put into the buffer stands behind what was in it.
LEMMA RegroupBuffer ==
  ASSUME NEW a \in Texts, NEW b \in Texts, NEW c \in Texts, NEW d \in Texts
  PROVE  Regroups(a, b, c, d)
<1> DEFINE ab == a \o b
<1>1. ab \in Texts
  BY TextsJoin
<1>2. ab \o c = a \o (b \o c)
  BY TextsJoin
<1> HIDE DEF ab
<1>3. ab \o (c \o d) = (ab \o c) \o d
  <2>1. Associates(ab, c, d)
    BY <1>1, ThreeTexts
  <2> QED  BY <2>1, Zenon DEF Associates
<1> QED  BY <1>2, <1>3 DEF ab, Regroups

\* What was taken of a text stands in front of what is left of it.
LEMMA RegroupTaken ==
  ASSUME NEW a \in Texts, NEW b \in Texts, NEW c \in Texts, NEW d \in Texts
  PROVE  RegroupsCut(a, b, c, d)
<1> DEFINE cd == c \o d
<1>1. cd \in Texts
  BY TextsJoin
<1>2. (b \o c) \o d = b \o cd
  BY TextsJoin
<1> HIDE DEF cd
<1>3. a \o (b \o cd) = (a \o b) \o cd
  <2>1. Associates(a, b, cd)
    BY <1>1, ThreeTexts
  <2> QED  BY <2>1, Zenon DEF Associates
<1> QED  BY <1>2, <1>3 DEF cd, RegroupsCut

\* One text more in front.
LEMMA FlattenFirst ==
  ASSUME NEW texts \in Seq(Texts), texts # << >>
  PROVE  /\ FlattenSeq(texts) \in Texts
         /\ FlattenSeq(texts) = Head(texts) \o FlattenSeq(Tail(texts))
<1> DEFINE n == Len(texts)
<1>1. n \in Nat \ {0} /\ \A i \in 1 .. n : texts[i] \in Texts
  BY EmptySeq, LenProperties
<1>2. Head(texts) = texts[1]
  OBVIOUS
<1>3. texts \in Seq(Seq(STRING))
  BY DEF Texts
<1>4. PICK f : Joins(f, texts) /\ FlattenSeq(texts) = f[n]
  BY <1>3, FlattenJoins
<1>5. FlattenSeq(texts) \in Texts
  BY <1>3, FlattenType DEF Texts
<1>6. CASE n = 1
  <2>1. Tail(texts) = << >> /\ Len(Tail(texts)) = 0
    <3>1. Tail(texts) \in Seq(Texts) /\ Len(Tail(texts)) = 0
      BY <1>1, <1>6, HeadTailProperties
    <3> QED  BY <3>1, EmptySeq
  <2>2. FlattenSeq(Tail(texts)) = << >>
    BY <2>1 DEF FlattenSeq
  <2>3. f[n] = texts[1]
    BY <1>4, <1>6 DEF Joins
  <2> QED  BY <1>1, <1>2, <1>4, <1>5, <2>2, <2>3, ConcatEmptySeq DEF Texts
<1>7. CASE n > 1
  <2> DEFINE rest == Tail(texts)
  <2>1. /\ rest \in Seq(Texts) /\ Len(rest) = n - 1 /\ rest # << >>
        /\ \A i \in 1 .. n - 1 : rest[i] = texts[i + 1] /\ rest[i] \in Texts
    <3>1. rest \in Seq(Texts) /\ Len(rest) = n - 1 /\ \A i \in 1 .. Len(rest) : rest[i] = texts[i + 1]
      BY HeadTailProperties
    <3>2. rest # << >>
      <4>1. Len(rest) # 0
        BY <1>7, <3>1
      <4> QED  BY <4>1, EmptySeq
    <3>3. \A i \in 1 .. n - 1 : rest[i] = texts[i + 1] /\ rest[i] \in Texts
      BY <3>1, ElementOfSeq
    <3> QED  BY <3>1, <3>2, <3>3
  <2>2. PICK g : Joins(g, rest) /\ FlattenSeq(rest) = g[n - 1]
    <3>1. rest \in Seq(Seq(STRING)) /\ rest # << >> /\ Len(rest) = n - 1
      BY <2>1 DEF Texts
    <3> HIDE DEF rest
    <3> QED  BY <3>1, FlattenJoins
  <2> HIDE DEF rest
  <2>3. \A i \in 1 .. n - 1 : g[i] \in Texts
    <3>1. Len(rest) \in Nat /\ \A i \in 1 .. Len(rest) : rest[i] \in Seq(STRING)
      BY <1>1, <2>1 DEF Texts
    <3>2. \A i \in 1 .. Len(rest) : g[i] \in Texts
      BY <2>2, <3>1, JoinType DEF Texts
    <3> QED  BY <2>1, <3>2, Zenon
  <2> DEFINE h == [i \in 1 .. n |-> IF i = 1 THEN texts[1] ELSE texts[1] \o g[i - 1]]
  <2>4. DOMAIN h = 1 .. n /\ h = [i \in 1 .. n |-> h[i]]
    OBVIOUS
  <2>5. h[1] = texts[1] /\ \A i \in 2 .. n : h[i] = texts[1] \o g[i - 1]
    <3>1. 1 \in 1 .. n /\ \A i \in 2 .. n : i \in 1 .. n /\ i # 1
      BY <1>1
    <3> HIDE DEF n
    <3> QED  BY <3>1
  <2> HIDE DEF h
  <2>6. \A i \in 1 .. n : h[i] = IF i = 1 THEN texts[i] ELSE h[i - 1] \o texts[i]
    <3> SUFFICES ASSUME NEW i \in 1 .. n, i # 1
                 PROVE  h[i] = h[i - 1] \o texts[i]
      BY <2>5
    <3>1. i \in 2 .. n
      BY <1>1
    <3>2. i - 1 \in 1 .. n - 1 /\ texts[i] = rest[i - 1]
      BY <1>1, <2>1
    <3>3. CASE i = 2
      <4>1. 1 \in 1 .. Len(rest)
        BY <2>1, <3>2
      <4>2. g[1] = rest[1]
        BY <2>2, <4>1 DEF Joins
      <4>3. h[i] = texts[1] \o g[1] /\ h[i - 1] = texts[1]
        <5>1. i - 1 = 1
          BY <3>3
        <5> QED  BY <2>5, <3>1, <5>1
      <4>4. texts[i] = rest[1]
        BY <3>2, <3>3
      <4> QED  BY <4>2, <4>3, <4>4
    <3>4. CASE i # 2
      <4>1. i - 2 \in 1 .. n - 1 /\ i - 1 \in 1 .. n /\ i - 1 # 1
        BY <3>2, <3>4
      <4>2. g[i - 1] = g[i - 2] \o rest[i - 1]
        <5>1. i - 1 \in 1 .. Len(rest)
          BY <2>1, <3>2
        <5>2. g[i - 1] = g[(i - 1) - 1] \o rest[i - 1]
          BY <2>2, <4>1, <5>1 DEF Joins
        <5>3. (i - 1) - 1 = i - 2
          OBVIOUS
        <5> QED  BY <5>2, <5>3
      <4>3. h[i] = texts[1] \o (g[i - 2] \o texts[i]) /\ h[i - 1] = texts[1] \o g[i - 2]
        <5>1. h[i] = texts[1] \o g[i - 1]
          BY <2>5, <3>1
        <5>2. h[i - 1] = texts[1] \o g[(i - 1) - 1] /\ (i - 1) - 1 = i - 2
          <6>1. i - 1 \in 2 .. n
            BY <4>1
          <6>2. (i - 1) - 1 = i - 2
            OBVIOUS
          <6> QED  BY <2>5, <6>1, <6>2
        <5> QED  BY <3>2, <4>2, <5>1, <5>2
      <4>4. texts[1] \in Texts /\ g[i - 2] \in Texts /\ texts[i] \in Texts
        BY <1>1, <2>3, <4>1
      <4>5. texts[1] \o (g[i - 2] \o texts[i]) = (texts[1] \o g[i - 2]) \o texts[i]
        BY <4>4, TextsJoin
      <4> QED  BY <4>3, <4>5, Zenon
    <3> QED  BY <3>3, <3>4
  <2>7. Joins(h, texts)
    BY <2>6, <2>4 DEF Joins
  <2>8. f = h
    BY <1>1, <1>4, <2>7, JoinIsUnique
  <2>9. f[n] = texts[1] \o g[n - 1]
    <3>1. n \in 2 .. n
      BY <1>1, <1>7
    <3> QED  BY <2>8, <2>5, <3>1
  <2>10. FlattenSeq(texts) = Head(texts) \o FlattenSeq(rest)
    BY <1>2, <1>4, <2>2, <2>9
  <2> QED  BY <1>5, <2>10 DEF rest
<1>8. n = 1 \/ n > 1
  BY <1>1
<1> QED  BY <1>6, <1>7, <1>8

\* What nothing contains, and what is in front and behind.
LEMMA WrittenFirst ==
  /\ Written(<< >>) = << >>
  /\ \A writes \in Seq(Piece) : Written(writes) \in Texts
  /\ \A writes \in Seq(Piece) : writes # << >> =>
       /\ Head(writes) \in Piece /\ Tail(writes) \in Seq(Piece)
       /\ Written(writes) = Head(writes).text \o Written(Tail(writes))
<1>1. Written(<< >>) = << >>
  BY DEF Written, FlattenSeq
<1>2. ASSUME NEW writes \in Seq(Piece), writes # << >>
      PROVE  /\ Head(writes) \in Piece /\ Tail(writes) \in Seq(Piece)
             /\ Written(writes) \in Texts
             /\ Written(writes) = Head(writes).text \o Written(Tail(writes))
  <2> DEFINE texts == [i \in DOMAIN writes |-> writes[i].text]
  <2>1. /\ Head(writes) \in Piece /\ Tail(writes) \in Seq(Piece)
        /\ Len(writes) \in Nat \ {0} /\ DOMAIN writes = 1 .. Len(writes)
        /\ \A i \in 1 .. Len(writes) : writes[i] \in Piece
        /\ Len(Tail(writes)) = Len(writes) - 1
        /\ \A i \in 1 .. Len(writes) - 1 : Tail(writes)[i] = writes[i + 1]
        /\ DOMAIN Tail(writes) = 1 .. Len(Tail(writes))
    BY <1>2, EmptySeq, LenProperties, HeadTailProperties
  <2>2. texts \in Seq(Texts) /\ Len(texts) = Len(writes) /\ texts # << >>
    <3>1. texts \in [1 .. Len(writes) -> Texts]
      BY <2>1 DEF Piece
    <3> QED  BY <2>1, <3>1
  <2>3. Head(texts) = Head(writes).text
    BY <2>1, <2>2
  <2>4. Tail(texts) = [i \in DOMAIN Tail(writes) |-> Tail(writes)[i].text]
    <3>1. Tail(texts) \in Seq(Texts) /\ Len(Tail(texts)) = Len(writes) - 1
          /\ \A i \in 1 .. Len(writes) - 1 : Tail(texts)[i] = texts[i + 1]
      BY <2>2, HeadTailProperties
    <3>2. Tail(texts) = [i \in 1 .. Len(writes) - 1 |-> Tail(texts)[i]]
      BY <3>1, LenProperties
    <3>3. \A i \in 1 .. Len(writes) - 1 : Tail(texts)[i] = Tail(writes)[i].text
      BY <2>1, <3>1
    <3> HIDE DEF texts
    <3> QED  BY <2>1, <3>2, <3>3
  <2>5. FlattenSeq(texts) = Head(texts) \o FlattenSeq(Tail(texts)) /\ FlattenSeq(texts) \in Texts
    BY <2>2, FlattenFirst
  <2>6. Written(writes) = FlattenSeq(texts) /\ Written(Tail(writes)) = FlattenSeq(Tail(texts))
    BY <2>4 DEF Written
  <2> QED  BY <2>1, <2>3, <2>5, <2>6
<1>3. << >> \in Texts
  BY EmptySeq DEF Texts
<1> QED  BY <1>1, <1>2, <1>3

-----------------------------------------------------------------------------
(* Parts of a text. *)

\* What a write took of a text, and what is left of it.
LEMMA CutText ==
  ASSUME NEW text \in Texts, NEW count \in 0 .. Len(text)
  PROVE  /\ SubSeq(text, 1, count) \in Texts /\ RestOfText(text, count) \in Texts
         /\ SubSeq(text, 1, count) \o RestOfText(text, count) = text
         /\ RestOfText(text, count) = << >> <=> count = Len(text)
<1>1. Len(text) \in Nat /\ \A i \in 1 .. Len(text) : text[i] \in STRING
  BY LenProperties DEF Texts
<1>2. SubSeq(text, 1, count) \in Texts
  BY <1>1, SubSeqProperties DEF Texts
<1>3. /\ RestOfText(text, count) \in Texts
      /\ Len(RestOfText(text, count)) = Len(text) - count
  BY <1>1, SubSeqProperties DEF Texts, RestOfText
<1>4. SubSeq(text, 1, count) \o RestOfText(text, count) = text
  <2>1. SubSeq(text, 1, count) \o SubSeq(text, count + 1, Len(text)) = SubSeq(text, 1, Len(text))
    <3>1. /\ text \in Seq(STRING) /\ 1 \in 1 .. Len(text) + 1
          /\ count \in 1 - 1 .. Len(text) /\ Len(text) \in count .. Len(text)
      BY <1>1 DEF Texts
    <3> QED  BY <3>1, ConcatAdjacentSubSeq
  <2> QED  BY <2>1, SubSeqFull DEF Texts, RestOfText
<1>5. RestOfText(text, count) = << >> <=> Len(text) - count = 0
  BY <1>3, EmptySeq DEF Texts
<1> QED  BY <1>1, <1>2, <1>3, <1>4, <1>5

\* The lines of a text are what it begins with.
LEMMA CutLinesOf ==
  ASSUME NEW text \in Texts
  PROVE  /\ ThroughNewline(text) \in Texts
         /\ Len(ThroughNewline(text)) \in 0 .. Len(text)
         /\ ThroughNewline(text) = SubSeq(text, 1, Len(ThroughNewline(text)))
<1> DEFINE newlines == {i \in 1 .. Len(text) : text[i] = "\n"}
           end == SelectLastInSeq(text, LAMBDA c : c = "\n")
<1>1. Len(text) \in Nat
  BY LenProperties DEF Texts
<1>2. end \in 0 .. Len(text)
  <2>1. end = IF newlines # {} THEN Max(newlines) ELSE 0
    BY DEF SelectLastInSeq
  <2>2. newlines # {} => Max(newlines) \in newlines
    <3>1. newlines \subseteq 0 .. Len(text)
      BY <1>1
    <3> HIDE DEF newlines
    <3>2. newlines # {} => \E i \in newlines : \A k \in newlines : i >= k
      BY <1>1, <3>1, Largest
    <3> QED  BY <3>2 DEF Max
  <2> QED  BY <1>1, <2>1, <2>2
<1>3. ThroughNewline(text) = SubSeq(text, 1, end)
  BY DEF ThroughNewline
<1> HIDE DEF end
<1>4. ThroughNewline(text) \in Texts
  BY <1>2, <1>3, CutText
<1>5. Len(ThroughNewline(text)) = end
  <2>1. end \in Int /\ \A i \in 1 .. end : text[i] \in STRING
    BY <1>1, <1>2, LenProperties DEF Texts
  <2> QED  BY <1>2, <1>3, <2>1, SubSeqProperties
<1> QED  BY <1>2, <1>3, <1>4, <1>5

\* So is what is given to the kernel past the buffer, and a text of which that is
\* nothing is shorter than the buffer.
LEMMA UnbufferedOf ==
  ASSUME NEW text \in Texts
  PROVE  /\ Unbuffered(text) \in Texts
         /\ Len(Unbuffered(text)) \in 0 .. Len(text)
         /\ Unbuffered(text) = SubSeq(text, 1, Len(Unbuffered(text)))
         /\ Unbuffered(text) = << >> => Len(text) < BufferSize
<1>1. Len(text) \in Nat /\ text = SubSeq(text, 1, Len(text))
  BY LenProperties, SubSeqFull DEF Texts
<1>2. CASE ThroughNewline(text) # << >>
  <2>1. Unbuffered(text) = ThroughNewline(text)
    BY <1>2 DEF Unbuffered
  <2> QED  BY <1>2, <2>1, CutLinesOf
<1>3. CASE ThroughNewline(text) = << >> /\ Len(text) >= BufferSize
  <2>1. Unbuffered(text) = text
    BY <1>3 DEF Unbuffered
  <2>2. text # << >>
    <3>1. Len(text) # 0 /\ Len(<< >>) = 0
      BY <1>1, <1>3, EmptySeq, CommandAssumption
    <3> QED  BY <3>1, Zenon
  <2>3. Len(text) \in 0 .. Len(text)
    BY <1>1
  <2> QED  BY <1>1, <2>1, <2>2, <2>3, Zenon
<1>4. CASE ThroughNewline(text) = << >> /\ ~ (Len(text) >= BufferSize)
  <2>1. Unbuffered(text) = << >>
    BY <1>4 DEF Unbuffered
  <2>2. << >> \in Texts /\ Len(<< >>) = 0
    BY EmptySeq DEF Texts
  <2>3. SubSeq(text, 1, 0) = << >>
    BY SubSeqEmpty
  <2>4. 0 \in 0 .. Len(text) /\ Len(text) < BufferSize
    BY <1>1, <1>4, CommandAssumption
  <2> QED  BY <2>1, <2>2, <2>3, <2>4
<1> QED  BY <1>2, <1>3, <1>4

\* A part of what a text begins with is a part of the text.
LEMMA PartOfPart ==
  ASSUME NEW text \in Texts, NEW end \in 0 .. Len(text), NEW count \in 0 .. end
  PROVE  SubSeq(SubSeq(text, 1, end), 1, count) = SubSeq(text, 1, count)
<1> DEFINE front == SubSeq(text, 1, end)
<1>1. Len(text) \in Nat /\ \A i \in 1 .. Len(text) : text[i] \in STRING
  BY LenProperties DEF Texts
<1>2. /\ front \in Texts /\ Len(front) = end
      /\ \A i \in 1 .. end : front[i] = text[i]
  <2>1. \A i \in 1 .. end : text[i] \in STRING
    BY <1>1
  <2>2. /\ SubSeq(text, 1, end) \in Seq(STRING)
        /\ Len(SubSeq(text, 1, end)) = IF 1 <= end THEN end - 1 + 1 ELSE 0
        /\ \A i \in 1 .. end - 1 + 1 : SubSeq(text, 1, end)[i] = text[1 + i - 1]
    BY <2>1, SubSeqProperties
  <2> QED  BY <2>2 DEF Texts
<1> HIDE DEF front
<1>3. /\ SubSeq(front, 1, count) \in Seq(STRING) /\ Len(SubSeq(front, 1, count)) = count
      /\ \A i \in 1 .. count : SubSeq(front, 1, count)[i] = front[i]
  <2>1. \A i \in 1 .. count : front[i] \in STRING
    BY <1>1, <1>2
  <2>2. /\ SubSeq(front, 1, count) \in Seq(STRING)
        /\ Len(SubSeq(front, 1, count)) = IF 1 <= count THEN count - 1 + 1 ELSE 0
        /\ \A i \in 1 .. count - 1 + 1 : SubSeq(front, 1, count)[i] = front[1 + i - 1]
    BY <2>1, SubSeqProperties
  <2> QED  BY <2>2
<1>4. /\ SubSeq(text, 1, count) \in Seq(STRING) /\ Len(SubSeq(text, 1, count)) = count
      /\ \A i \in 1 .. count : SubSeq(text, 1, count)[i] = text[i]
  <2>1. \A i \in 1 .. count : text[i] \in STRING
    BY <1>1
  <2>2. /\ SubSeq(text, 1, count) \in Seq(STRING)
        /\ Len(SubSeq(text, 1, count)) = IF 1 <= count THEN count - 1 + 1 ELSE 0
        /\ \A i \in 1 .. count - 1 + 1 : SubSeq(text, 1, count)[i] = text[1 + i - 1]
    BY <2>1, SubSeqProperties
  <2> QED  BY <2>2
<1>5. \A i \in 1 .. count : SubSeq(front, 1, count)[i] = SubSeq(text, 1, count)[i]
  BY <1>2, <1>3, <1>4
<1> QED  BY <1>3, <1>4, <1>5, SeqEqual DEF front

\* What the buffer keeps of a text lies behind what the kernel took of it, and
\* the buffer can hold it.
LEMMA KeptOf ==
  ASSUME NEW text \in Texts, NEW count \in Nat \ {0}, count <= Len(Unbuffered(text)),
         NEW end \in KeptTo(text, count)
  PROVE  /\ count \in 0 .. Len(text) /\ end \in count .. Len(text)
         /\ SubSeq(text, count + 1, end) \in Texts
         /\ Len(SubSeq(text, count + 1, end)) <= BufferSize
<1> DEFINE lines == Len(ThroughNewline(text))
           full == SubSeq(text, count + 1, count + BufferSize)
<1>1. /\ Len(text) \in Nat /\ \A i \in 1 .. Len(text) : text[i] \in STRING
      /\ lines \in 0 .. Len(text) /\ BufferSize \in Nat \ {0}
      /\ count \in 0 .. Len(text)
  <2>1. Len(text) \in Nat /\ \A i \in 1 .. Len(text) : text[i] \in STRING
    BY LenProperties DEF Texts
  <2>2. lines \in 0 .. Len(text) /\ BufferSize \in Nat \ {0}
    BY CutLinesOf, CommandAssumption
  <2> HIDE DEF lines
  <2>3. count \in 0 .. Len(text)
    BY <2>1, UnbufferedOf
  <2> QED  BY <2>1, <2>2, <2>3
<1>2. end \in count .. Len(text) /\ end - count <= BufferSize
  <2>1. CASE lines = 0
    <3>1. end = count
      BY <2>1 DEF KeptTo
    <3> QED  BY <1>1, <3>1
  <2>2. CASE lines # 0 /\ count >= lines
    <3>1. count = lines
      <4>1. Unbuffered(text) = ThroughNewline(text)
        <5>1. ThroughNewline(text) # << >>
          <6>1. Len(<< >>) = 0
            BY EmptySeq
          <6> QED  BY <2>2, <6>1, Zenon
        <5> QED  BY <5>1 DEF Unbuffered
      <4> QED  BY <1>1, <2>2, <4>1
    <3>2. end \in IF Len(text) - lines < BufferSize THEN {Len(text)}
                  ELSE {lines, lines + BufferSize}
      BY <1>1, <2>2 DEF KeptTo
    <3> HIDE DEF lines
    <3> QED  BY <1>1, <3>1, <3>2
  <2>3. CASE lines # 0 /\ ~ (count >= lines) /\ lines - count <= BufferSize
    <3>1. end = lines
      BY <1>1, <2>3 DEF KeptTo
    <3> HIDE DEF lines
    <3> QED  BY <1>1, <2>3, <3>1
  <2>4. CASE lines # 0 /\ ~ (count >= lines) /\ ~ (lines - count <= BufferSize)
    <3>1. end = count + IF ThroughNewline(full) # << >> THEN Len(ThroughNewline(full)) ELSE BufferSize
      BY <1>1, <2>4 DEF KeptTo
    <3>2. count + BufferSize <= Len(text)
      <4> HIDE DEF lines
      <4> QED  BY <1>1, <2>4
    <3>3. full \in Texts /\ Len(full) = BufferSize
      <4>1. \A i \in count + 1 .. count + BufferSize : text[i] \in STRING
        BY <1>1, <3>2
      <4>2. /\ SubSeq(text, count + 1, count + BufferSize) \in Seq(STRING)
            /\ Len(SubSeq(text, count + 1, count + BufferSize)) =
                 IF count + 1 <= count + BufferSize
                 THEN (count + BufferSize) - (count + 1) + 1 ELSE 0
        BY <1>1, <4>1, SubSeqProperties
      <4> QED  BY <1>1, <4>2 DEF Texts
    <3> HIDE DEF full
    <3>4. Len(ThroughNewline(full)) \in 0 .. BufferSize
      BY <3>3, CutLinesOf
    <3> QED  BY <1>1, <3>1, <3>2, <3>4
  <2> HIDE DEF lines
  <2> QED  BY <1>1, <2>1, <2>2, <2>3, <2>4
<1>3. /\ SubSeq(text, count + 1, end) \in Texts
      /\ Len(SubSeq(text, count + 1, end)) = end - count
  <2>1. end \in Int /\ \A i \in count + 1 .. end : text[i] \in STRING
    BY <1>1, <1>2
  <2>2. /\ SubSeq(text, count + 1, end) \in Seq(STRING)
        /\ Len(SubSeq(text, count + 1, end)) =
             IF count + 1 <= end THEN end - (count + 1) + 1 ELSE 0
    BY <2>1, SubSeqProperties
  <2> QED  BY <1>1, <1>2, <2>2 DEF Texts
<1> QED  BY <1>1, <1>2, <1>3

-----------------------------------------------------------------------------
(* A line and what it leaves to the next. *)

\* What is so of the loop, whatever the writers do: printenv finds the
\* directory of the last cd.
SessionInv ==
  /\ backend \in Backends
  /\ at \in {"reading", "printing", "leaving", "exited"}
  /\ line \in Lines \cup {<< >>}
  /\ env \in Seq(Texts) /\ cwd \in Texts
  /\ cwd # << >> => HasPwd(env, cwd)
  /\ broken \in BOOLEAN /\ refused \in BOOLEAN
  /\ cuts \in 0 .. MaxCuts

\* A line that is trimmed is a text.
LEMMA TrimmedType ==
  ASSUME NEW text \in Texts
  PROVE  Trimmed(text) \in Texts
<1> DEFINE black == {i \in DOMAIN text : text[i] \notin White}
           first == CHOOSE i \in black : \A k \in black : i <= k
           last == CHOOSE i \in black : \A k \in black : k <= i
<1>1. DOMAIN text = 1 .. Len(text) /\ Len(text) \in Nat
  BY Characters
<1>2. Trimmed(text) = IF black = {} THEN << >> ELSE SubSeq(text, first, last)
  BY DEF Trimmed
<1>3. ASSUME black # {} PROVE SubSeq(text, first, last) \in Texts
  <2>1. black \subseteq 1 .. Len(text)
    BY <1>1
  <2>2. black \subseteq Nat /\ black \subseteq 0 .. Len(text)
    <3>1. 1 .. Len(text) \subseteq 0 .. Len(text) /\ 1 .. Len(text) \subseteq Nat
      BY <1>1
    <3> HIDE DEF black
    <3> QED  BY <2>1, <3>1
  <2>3. \A i \in black : i \in Nat \ {0} /\ i <= Len(text) /\ i \in Int
    <3> HIDE DEF black
    <3> QED  BY <1>1, <2>1
  <2> HIDE DEF black
  <2>4. \E i \in black : \A k \in black : i <= k
    BY <1>3, <2>2, Smallest
  <2>5. \E i \in black : \A k \in black : k <= i
    <3>1. PICK i \in black : \A k \in black : i >= k
      BY <1>1, <1>3, <2>2, Largest
    <3>2. \A k \in black : k <= i
      BY <2>3, <3>1
    <3> QED  BY <3>2
  <2>6. first \in black /\ last \in black
    BY <2>4, <2>5
  <2> HIDE DEF first, last
  <2>7. first \in Nat \ {0} /\ last \in Int /\ last <= Len(text) /\ text \in Seq(STRING)
    BY <2>3, <2>6 DEF Texts
  <2>8. SubSeq(text, first, last) \in Seq(STRING)
    BY <2>7, PartOfText
  <2> QED  BY <2>8 DEF Texts
<1> HIDE DEF black, first, last
<1> QED  BY <1>2, <1>3, TextsJoined

\* The entries of the history with the line.
LEMMA RecordedType ==
  ASSUME NEW l \in Texts
  PROVE  Recorded(l) \in Seq(Texts) /\ Len(Recorded(l)) <= 4
<1>1. Earlier \in Seq(Texts) /\ Len(Earlier) \in 0 .. 3
  BY CommandAssumption DEF Texts
<1>2. Append(Earlier, l) \in Seq(Texts) /\ Len(Append(Earlier, l)) = Len(Earlier) + 1
  BY <1>1, AppendProperties
<1>3. Recorded(l) = Earlier \/ Recorded(l) = Append(Earlier, l)
  BY DEF Recorded
<1>4. Len(Earlier) <= 4 /\ Len(Append(Earlier, l)) <= 4
  <2>1. \A n \in 0 .. 3 : n <= 4 /\ n + 1 <= 4
    OBVIOUS
  <2> QED  BY <1>1, <1>2, <2>1
<1> QED  BY <1>1, <1>2, <1>3, <1>4

\* The first command of a line runs in the environment of the one before.
LEMMA RunsCommand ==
  ASSUME SessionInv, NEW l \in Lines, NEW parsed, parsed = ParseLine(Trimmed(l)), RunLine(l, parsed)
  PROVE  \E result :
           /\ Outcome(result) /\ Output(result.output, result.leave) /\ env' = result.env
           /\ cwd' \in Texts /\ (cwd' # << >> => HasPwd(env', cwd'))
<1> DEFINE commands == parsed.commands
           argv == commands[1].argv
           args == Tail(argv)
           result == Execute(commands, env, Recorded(l), Std)
           cd == argv # << >> /\ argv[1] = Text("cd")
           moves == Std /\ args # << >> /\ args[1] \in DOMAIN Directories
           path == Directories[args[1]]
<1>1. l \in Texts /\ Trimmed(l) \in Texts
  BY CommandAssumption, TrimmedType DEF Texts
<1>2. commands \in Seq(Commands) /\ commands # << >>
  BY <1>1, ParseLineType
<1>3. Recorded(l) \in Seq(Texts) /\ Len(Recorded(l)) <= 4
  BY <1>1, RecordedType
<1>4. env \in Seq(Texts) /\ cwd \in Texts /\ (cwd # << >> => HasPwd(env, cwd))
  BY DEF SessionInv
<1>5. Std \in BOOLEAN
  BY DEF Std
<1>6. Outcome(result)
  BY <1>2, <1>3, <1>4, <1>5, ExecuteType
<1>7. Output(result.output, result.leave) /\ env' = result.env
  BY DEF RunLine, Executed
<1>8. cwd' = IF cd /\ moves THEN path ELSE cwd
  <2>1. cwd' = Moved(argv)
    BY DEF RunLine
  <2> HIDE DEF argv
  <2> QED  BY <2>1 DEF Moved
<1>9. cd => result = Cd(args, env, Std)
  BY CdRuns
<1>10. ~ cd => result.env = env
  BY <1>2, <1>4, OnlyCdChanges
<1> HIDE DEF commands, argv, result
<1>11. result.env = IF cd /\ moves THEN UpdatedPwd(env, path) ELSE env
  <2>1. Cd(args, env, Std).env = IF moves THEN UpdatedPwd(env, path) ELSE env
    <3>1. moves <=> args # << >> /\ Std /\ args[1] \in DOMAIN Directories
      OBVIOUS
    <3> HIDE DEF args, moves
    <3> QED  BY <3>1, CdLeaves
  <2> HIDE DEF cd, moves, args, path
  <2> QED  BY <1>9, <1>10, <2>1
<1>12. moves => path \in Texts
  BY FileAssumption DEF Texts
<1> HIDE DEF cd, moves, path
<1>13. cwd' \in Texts /\ (cwd' # << >> => HasPwd(env', cwd'))
  <2>1. CASE cd /\ moves
    <3>1. path \in Texts /\ cwd' = path /\ env' = UpdatedPwd(env, path)
      BY <1>7, <1>8, <1>11, <1>12, <2>1
    <3>2. HasPwd(UpdatedPwd(env, path), path)
      BY <1>4, <3>1, UpdatedPwdDefines
    <3> QED  BY <3>1, <3>2
  <2>2. CASE ~ (cd /\ moves)
    <3>1. cwd' = cwd /\ env' = env
      BY <1>7, <1>8, <1>11, <2>2
    <3> QED  BY <1>4, <3>1
  <2> QED  BY <2>1, <2>2
<1> QED  BY <1>6, <1>7, <1>13

\* A line that is refused gives the writers a message.
LEMMA RefusesLine ==
  ASSUME NEW l \in Lines, NEW parsed, parsed = ParseLine(Trimmed(l)), RefuseLine(parsed)
  PROVE  /\ \E writes \in Seq(Writes) : Output(writes, FALSE)
         /\ UNCHANGED <<env, cwd>>
<1> DEFINE one == <<Write(<<"parse error: ", parsed.error>> \o Crlf)>>
           three == <<Write(<<"parse error: ">>), Write(<<parsed.error>>), Write(Crlf)>>
           writes == IF Std THEN one ELSE three
<1>1. parsed.error \in STRING
  <2>1. Trimmed(l) \in Texts
    BY CommandAssumption, TrimmedType DEF Texts
  <2> QED  BY <2>1, ParseLineType
<1>2. "parse error: " \in STRING
  BY StringAssumption DEF Literals
<1>3. one \in Seq(Writes)
  <2>1. <<"parse error: ", parsed.error>> \in Texts
    BY <1>1, <1>2, ShortSequences DEF Texts
  <2> QED  BY <2>1, TextsJoined, WriteTypes, WritesJoined
<1>4. three \in Seq(Writes)
  BY <1>1, <1>2, TextsJoined, WriteTypes, WritesJoined
<1>5. Output(writes, FALSE) /\ UNCHANGED <<env, cwd>>
  BY DEF RefuseLine
<1> HIDE DEF one, three
<1>6. writes \in Seq(Writes)
  BY <1>3, <1>4
<1> HIDE DEF writes
<1> QED  BY <1>5, <1>6

\* A line gives the writers writes, and leaves an environment to the next.
LEMMA EnterMeans ==
  ASSUME SessionInv, NEW l \in Lines, EnterLine(l)
  PROVE  /\ \E writes \in Seq(Writes) : \E leave : Output(writes, leave)
         /\ env' \in Seq(Texts) /\ cwd' \in Texts /\ (cwd' # << >> => HasPwd(env', cwd'))
<1> DEFINE parsed == ParseLine(Trimmed(l))
<1>1. \/ BlankLine(l)
      \/ RefuseLine(parsed)
      \/ RunLine(l, parsed)
  BY DEF EnterLine, ParseAndRun
<1>2. ASSUME UNCHANGED <<env, cwd>>
      PROVE  env' \in Seq(Texts) /\ cwd' \in Texts /\ (cwd' # << >> => HasPwd(env', cwd'))
  BY <1>2 DEF SessionInv
<1>3. CASE BlankLine(l)
  <2>1. Output(<< >>, FALSE) /\ << >> \in Seq(Writes) /\ UNCHANGED <<env, cwd>>
    BY <1>3, WritesJoined DEF BlankLine
  <2> QED  BY <1>2, <2>1
<1>4. CASE RefuseLine(parsed)
  <2>1. (\E writes \in Seq(Writes) : Output(writes, FALSE)) /\ UNCHANGED <<env, cwd>>
    BY <1>4, RefusesLine
  <2> QED  BY <1>2, <2>1
<1>5. CASE RunLine(l, parsed)
  <2>1. PICK result : /\ Outcome(result) /\ Output(result.output, result.leave) /\ env' = result.env
                      /\ cwd' \in Texts /\ (cwd' # << >> => HasPwd(env', cwd'))
    BY <1>5, RunsCommand
  <2>2. result.output \in Seq(Writes) /\ env' \in Seq(Texts)
    BY <2>1 DEF Outcome
  <2> QED  BY <2>1, <2>2
<1> QED  BY <1>1, <1>3, <1>4, <1>5

\* What is to be written are the writes that are not empty, and the prompt.
LEMMA EnterGivesWrites ==
  ASSUME SessionInv, NEW l \in Lines, EnterLine(l)
  PROVE  WritesOK'
<1> DEFINE pieces == {w \in Piece : w.call = "write_char" => Len(w.text) = 1}
<1>1. PICK writes \in Seq(Writes) : \E leave : Output(writes, leave)
  BY EnterMeans
<1>2. PICK leave : Output(writes, leave)
  BY <1>1
<1> DEFINE all == AllWrites(writes, leave)
           each == [i \in 1 .. Len(all) |-> Made(all[i])]
<1>3. all \in Seq(Writes)
  <2>1. "vish$ " \in STRING
    BY StringAssumption DEF Literals
  <2>2. Write(Prompt) \in Writes
    BY <2>1, TextsJoined, WriteTypes DEF Prompt
  <2>3. Append(writes, Write(Prompt)) \in Seq(Writes)
    BY <2>2, AppendProperties
  <2> QED  BY <2>3 DEF AllWrites
<1>4. todo' = FlattenSeq([i \in DOMAIN all |-> Made(all[i])])
  BY <1>2 DEF Output
<1> HIDE DEF all
<1>5. Len(all) \in Nat /\ DOMAIN all = 1 .. Len(all) /\ \A i \in 1 .. Len(all) : all[i] \in Writes
  BY <1>3, LenProperties, ElementOfSeq
<1>6. ASSUME NEW write \in Writes PROVE Made(write) \in Seq(pieces)
  <2>1. write.text # << >> => write \in pieces
    BY DEF Writes, Piece
  <2> HIDE DEF pieces
  <2>2. \A w \in pieces : <<w>> \in Seq(pieces)
    BY ShortSequences
  <2>3. << >> \in Seq(pieces)
    BY EmptySeq
  <2> QED  BY <2>1, <2>2, <2>3 DEF Made
<1>7. FlattenSeq(each) \in Seq(pieces)
  <2> HIDE DEF pieces
  <2>1. each = [i \in 1 .. Len(all) |-> each[i]] /\ \A i \in 1 .. Len(all) : each[i] \in Seq(pieces)
    BY <1>5, <1>6
  <2> HIDE DEF each
  <2> QED  BY <1>5, <2>1, FlattenEach
<1>8. todo' \in Seq(pieces)
  BY <1>4, <1>5, <1>7
<1>9. todo' \in Seq(Piece) /\ \A i \in DOMAIN todo' : todo'[i] \in pieces
  <2>1. pieces \subseteq Piece
    OBVIOUS
  <2> HIDE DEF pieces
  <2>2. Seq(pieces) \subseteq Seq(Piece)
    BY <2>1, SeqMonotonic
  <2> QED  BY <1>8, <2>2, LenProperties
<1> QED  BY <1>9 DEF WritesOK, Piece, Texts

\* At the start no directory was changed to.
LEMMA SessionInvInit ==
  ASSUME CommandInit
  PROVE  SessionInv
<1>1. env \in Seq(Texts)
  <2>1. << >> \in Seq(Texts) /\ Environments \subseteq Seq(Texts)
    BY CommandAssumption, EmptySeq DEF Texts
  <2> QED  BY <2>1 DEF CommandInit
<1>2. << >> \in Texts /\ 0 \in 0 .. MaxCuts
  BY TextsJoined, CommandAssumption
<1> QED  BY <1>1, <1>2 DEF CommandInit, SessionInv

\* Every step keeps the invariant of the loop.
LEMMA SessionInvNext ==
  ASSUME SessionInv, [CommandNext]_commandVars
  PROVE  SessionInv'
<1>1. CASE UNCHANGED commandVars
  BY <1>1 DEF commandVars, lineVars, writeVars, SessionInv
<1>2. ASSUME NEW l \in Lines, EnterLine(l) PROVE SessionInv'
  <2>1. /\ env' \in Seq(Texts) /\ cwd' \in Texts /\ (cwd' # << >> => HasPwd(env', cwd'))
        /\ \E writes, leave : Output(writes, leave)
        /\ line' = l
    BY <1>2, EnterMeans DEF EnterLine
  <2>2. /\ at' \in {"printing", "leaving"}
        /\ UNCHANGED <<backend, broken, cuts, refused>>
    BY <2>1 DEF Output
  <2> QED  BY <2>1, <2>2 DEF SessionInv
<1>3. ASSUME /\ UNCHANGED <<backend, env, cwd>>
             /\ at' \in {"reading", "printing", "leaving", "exited"}
             /\ line' \in {line, << >>}
             /\ broken' \in BOOLEAN /\ refused' \in BOOLEAN
             /\ cuts' \in {cuts, 0} \/ (cuts < MaxCuts /\ cuts' = cuts + 1)
      PROVE  SessionInv'
  <2>1. cuts' \in 0 .. MaxCuts
    BY <1>3, CommandAssumption DEF SessionInv
  <2> QED  BY <1>3, <2>1 DEF SessionInv
<1>4. CASE BufferText
  BY <1>3, <1>4 DEF BufferText, SessionInv, lineVars
<1>5. CASE WriteTakesAll
  BY <1>3, <1>5 DEF WriteTakesAll, Takes, SessionInv, lineVars
<1>6. ASSUME NEW count \in ShortCounts, WriteTakes(count) PROVE SessionInv'
  BY <1>3, <1>6 DEF WriteTakes, Takes, SessionInv, lineVars
<1>7. CASE WriteRefused
  BY <1>3, <1>7 DEF WriteRefused, SessionInv, lineVars
<1>8. CASE LineDone
  BY <1>3, <1>8 DEF LineDone, SessionInv
<1>9. CASE TerminalBreaks
  BY <1>3, <1>9 DEF TerminalBreaks, SessionInv, lineVars
<1> QED  BY <1>1, <1>2, <1>4, <1>5, <1>6, <1>7, <1>8, <1>9 DEF CommandNext, Proceed

\* The directory of the last cd is printed.
LEMMA PwdIsPrinted ==
  ASSUME SessionInv
  PROVE  PrintenvFollowsCd
<1> SUFFICES ASSUME cwd # << >>
             PROVE  Written(Printenv(<<Text("PWD")>>, env)) = cwd \o Crlf
  BY DEF PrintenvFollowsCd
<1>1. env \in Seq(Texts) /\ cwd \in Texts /\ HasPwd(env, cwd)
  BY DEF SessionInv
<1>2. Printenv(<<Text("PWD")>>, env) = <<Write(cwd), Write(Crlf)>>
  BY <1>1, PrintenvPrints
<1>3. Crlf \in Texts /\ Crlf # << >>
  BY WriteTypes DEF Crlf
<1>4. /\ Write(cwd) \in Piece /\ Write(cwd).text = cwd
      /\ Write(Crlf) \in Piece /\ Write(Crlf).text = Crlf
  BY <1>1, <1>3 DEF Write, Piece
<1>5. \A first, second \in Piece : Written(<<first, second>>) = first.text \o second.text
  <2> TAKE first \in Piece, second \in Piece
  <2>1. <<first, second>> \in Seq(Piece) /\ <<second>> \in Seq(Piece)
    BY ShortSequences
  <2>2. /\ <<first, second>> # << >> /\ Head(<<first, second>>) = first
        /\ Tail(<<first, second>>) = <<second>>
        /\ <<second>> # << >> /\ Head(<<second>>) = second /\ Tail(<<second>>) = << >>
    OBVIOUS
  <2>3. Written(<<first, second>>) = first.text \o Written(<<second>>)
    BY <2>1, <2>2, WrittenFirst
  <2>4. Written(<<second>>) = second.text \o << >>
    BY <2>1, <2>2, WrittenFirst
  <2>5. second.text \o << >> = second.text
    BY TextsJoin DEF Piece
  <2> QED  BY <2>3, <2>4, <2>5
<1> QED  BY <1>2, <1>4, <1>5

-----------------------------------------------------------------------------
(* What echo makes of escapes. *)

\* What a piece adds in front of others.
LEMMA PieceInFront ==
  ASSUME NEW w \in Piece, NEW rest \in Seq(Piece), NEW last \in Piece
  PROVE  /\ <<w>> \o rest \in Seq(Piece)
         /\ Written((<<w>> \o rest) \o <<last>>) = w.text \o Written(rest \o <<last>>)
         /\ Written(<< >> \o <<last>>) = last.text
<1> DEFINE behind == rest \o <<last>>
           all == <<w>> \o behind
<1>1. <<w>> \in Seq(Piece) /\ <<last>> \in Seq(Piece)
  BY ShortSequences
<1>2. <<w>> \o rest \in Seq(Piece) /\ behind \in Seq(Piece)
  BY <1>1, ConcatProperties
<1>3. (<<w>> \o rest) \o <<last>> = all
  BY <1>1, ConcatAssociative
<1> HIDE DEF behind
<1>4. /\ all \in Seq(Piece) /\ Len(all) = 1 + Len(behind) /\ Len(behind) \in Nat
      /\ \A i \in 1 .. 1 + Len(behind) : all[i] = IF i <= 1 THEN <<w>>[i] ELSE behind[i - 1]
  <2>1. Len(<<w>>) = 1
    OBVIOUS
  <2>2. /\ all \in Seq(Piece) /\ Len(all) = Len(<<w>>) + Len(behind)
        /\ \A i \in 1 .. Len(<<w>>) + Len(behind) :
             all[i] = IF i <= Len(<<w>>) THEN <<w>>[i] ELSE behind[i - Len(<<w>>)]
    BY <1>1, <1>2, ConcatProperties
  <2>3. Len(behind) \in Nat
    BY <1>2, LenProperties
  <2> HIDE DEF all
  <2> QED  BY <2>1, <2>2, <2>3
<1> HIDE DEF all
<1>5. all # << >> /\ 1 \in 1 .. 1 + Len(behind) /\ all[1] = w
  <2>1. 1 \in 1 .. 1 + Len(behind) /\ Len(all) # 0
    BY <1>4
  <2>2. all[1] = <<w>>[1]
    BY <1>4, <2>1
  <2> QED  BY <2>1, <2>2
<1>6. Head(all) = w
  BY <1>5
<1>7. Tail(all) = behind
  <2>1. /\ Tail(all) \in Seq(Piece) /\ Len(Tail(all)) = Len(all) - 1
        /\ \A i \in 1 .. Len(Tail(all)) : Tail(all)[i] = all[i + 1]
    BY <1>4, <1>5, HeadTailProperties
  <2>2. Len(Tail(all)) = Len(behind)
    BY <1>4, <2>1
  <2>3. \A i \in 1 .. Len(behind) : i + 1 \in 1 .. 1 + Len(behind) /\ ~ i + 1 <= 1 /\ (i + 1) - 1 = i
    BY <1>4
  <2>4. \A i \in 1 .. Len(behind) : Tail(all)[i] = behind[i]
    BY <1>4, <2>1, <2>2, <2>3
  <2> QED  BY <1>2, <2>1, <2>2, <2>4, SeqEqual
<1>8. Written(all) = w.text \o Written(behind)
  BY <1>4, <1>5, <1>6, <1>7, WrittenFirst
<1>9. Written(<< >> \o <<last>>) = last.text
  <2>1. << >> \o <<last>> = <<last>> /\ <<last>> # << >> /\ Head(<<last>>) = last /\ Tail(<<last>>) = << >>
    OBVIOUS
  <2>2. Written(<<last>>) = last.text \o << >>
    BY <1>1, <2>1, WrittenFirst
  <2>3. last.text \o << >> = last.text
    BY TextsJoin DEF Piece
  <2> QED  BY <2>1, <2>2, <2>3
<1> QED  BY <1>2, <1>3, <1>8, <1>9 DEF behind

\* A masked text is a sequence of masked characters.
MaskedText(text, chunks) ==
  /\ chunks \in Seq(Texts) /\ Len(chunks) = Len(text)
  /\ \A k \in 1 .. Len(text) : MaskedAs(text[k], chunks[k])

\* It is one.
LEMMA MaskedShape ==
  ASSUME NEW text \in Texts, NEW escape \in BackslashEscapes
  PROVE  \E chunks : MaskedText(text, chunks) /\ Masked(text, escape) = FlattenSeq(chunks)
<1> DEFINE n == Len(text)
           chunks == [k \in 1 .. n |-> IF text[k] = "\\" THEN Text(escape) ELSE <<text[k]>>]
<1>1. n \in Nat /\ DOMAIN text = 1 .. n /\ \A k \in 1 .. n : text[k] \in STRING
  BY Characters
<1>2. Text(escape) \in {<<"\\", "\\">>, <<"\\", "x", "5", "c">>, <<"\\", "1", "3", "4">>}
  BY EscapeAssumption DEF BackslashEscapes
<1>3. Text(escape) \in Texts
  <2>1. Literals \subseteq STRING
    BY StringAssumption
  <2>2. /\ "\\" \in STRING /\ "x" \in STRING /\ "5" \in STRING /\ "c" \in STRING
        /\ "1" \in STRING /\ "3" \in STRING /\ "4" \in STRING
    <3>1. "\\" \in STRING /\ "x" \in STRING
      BY <2>1 DEF Literals
    <3>2. "5" \in STRING /\ "c" \in STRING /\ "1" \in STRING /\ "3" \in STRING /\ "4" \in STRING
      BY EscapeAssumption
    <3> QED  BY <3>1, <3>2
  <2>3. /\ <<"\\", "\\">> \in Seq(STRING) /\ <<"\\", "x", "5", "c">> \in Seq(STRING)
        /\ <<"\\", "1", "3", "4">> \in Seq(STRING)
    BY <2>2
  <2> QED  BY <1>2, <2>3 DEF Texts
<1>4. \A k \in 1 .. n : <<text[k]>> \in Texts
  BY <1>1, TextsJoined
<1>5. chunks \in [1 .. n -> Texts]
  BY <1>3, <1>4
<1>6. \A k \in 1 .. n : MaskedAs(text[k], chunks[k])
  <2> TAKE k \in 1 .. n
  <2>1. chunks[k] = IF text[k] = "\\" THEN Text(escape) ELSE <<text[k]>>
    OBVIOUS
  <2> HIDE DEF chunks
  <2> QED  BY <1>2, <2>1 DEF MaskedAs
<1>7. Masked(text, escape) = FlattenSeq(chunks)
  BY <1>1, Zenon DEF Masked
<1> HIDE DEF chunks
<1>8. chunks \in Seq(Texts) /\ Len(chunks) = n
  BY <1>1, <1>5
<1> QED  BY <1>6, <1>7, <1>8 DEF MaskedText

\* Where a chunk of length l stands behind the first x characters.
GoesOn(text, x, y, l) ==
  /\ x + 1 \in 1 .. Len(text) /\ (x + 1) + l = y + 1
  /\ (x + 1) + l \in 1 .. Len(text) + 1 /\ (x + 1) - 1 = x

\* It is written as the text.
LEMMA MaskedWritten ==
  ASSUME NEW text \in Texts, NEW chunks, MaskedText(text, chunks),
         NEW masked, masked = FlattenSeq(chunks)
  PROVE  /\ masked \in Texts
         /\ Written(WriteEscaped(masked) \o <<Write(Crlf)>>) = text \o Crlf
<1> USE DEF MaskedText
<1> DEFINE n == Len(text)
           left(k) == SubSeq(text, k, n)
           last == Write(Crlf)
           f == CHOOSE g : Escapings(masked, g)
<1>1. masked \in Texts
  BY FlattenType DEF Texts
<1>2. n \in Nat /\ Len(masked) \in Nat /\ \A k \in 1 .. n : text[k] \in STRING
  BY <1>1, Characters
<1>3. Escapings(masked, f) /\ WriteEscaped(masked) = f[1]
  BY <1>1, EscapingsExist, WriteEscapedUnfolds
<1>4. last \in Piece /\ last.text = Crlf /\ Crlf \in Texts
  <2>1. Crlf \in Texts /\ Crlf # << >>
    BY WriteTypes DEF Crlf
  <2> QED  BY <2>1 DEF Write, Piece
<1>5. PICK p : Placed(p, chunks, masked)
  BY FlattenPlaces DEF Texts
<1>6. /\ \A k \in 1 .. n + 1 : p[k] \in 0 .. Len(masked)
      /\ p[1] = 0 /\ p[n + 1] = Len(masked)
      /\ \A k \in 1 .. n : /\ p[k + 1] = p[k] + Len(chunks[k])
                           /\ \A j \in 1 .. Len(chunks[k]) : masked[p[k] + j] = chunks[k][j]
  BY <1>5 DEF Placed
<1>7. \A k \in 1 .. n : Len(chunks[k]) \in 1 .. 4
  <2> TAKE k \in 1 .. n
  <2>1. MaskedAs(text[k], chunks[k])
    OBVIOUS
  <2>2. chunks[k] \in {<<text[k]>>, <<"\\", "\\">>, <<"\\", "x", "5", "c">>, <<"\\", "1", "3", "4">>}
    BY <2>1 DEF MaskedAs
  <2>3. /\ Len(<<text[k]>>) = 1 /\ Len(<<"\\", "\\">>) = 2
        /\ Len(<<"\\", "x", "5", "c">>) = 4 /\ Len(<<"\\", "1", "3", "4">>) = 4
    OBVIOUS
  <2> QED  BY <2>2, <2>3
<1>8. left(n + 1) = << >> /\ left(1) = text /\ \A k \in 1 .. n : left(k) = <<text[k]>> \o left(k + 1)
  BY RestsOfText
<1>9. \A k \in 1 .. n + 1 : left(k) \in Texts
  BY RestsOfText
<1> HIDE DEF left, f, last
<1> DEFINE Good == {k \in 1 .. n + 1 : /\ f[p[k] + 1] \in Seq(Piece)
                                       /\ Written(f[p[k] + 1] \o <<last>>) = left(k) \o Crlf}
<1>10. ASSUME NEW k \in 1 .. n + 1, \A j \in k + 1 .. n + 1 : j \in Good
      PROVE  k \in Good
  <2>1. CASE k = n + 1
    <3>1. p[k] + 1 = Len(masked) + 1 /\ Len(masked) + 1 \in 1 .. Len(masked) + 1
      BY <1>2, <1>6, <2>1
    <3>2. f[p[k] + 1] = EscapeStep(masked, f, Len(masked) + 1)
      BY <1>3, <3>1 DEF Escapings
    <3>3. f[p[k] + 1] = << >>
      BY <3>2 DEF EscapeStep
    <3>4. << >> \in Seq(Piece)
      BY EmptySeq
    <3>5. Written(<< >> \o <<last>>) = Crlf
      BY <1>4, <3>4, PieceInFront
    <3>6. << >> \o Crlf = Crlf
      BY <1>4, TextsJoin
    <3> QED  BY <1>8, <2>1, <3>3, <3>4, <3>5, <3>6
  <2>2. CASE k # n + 1
    <3> DEFINE i == p[k] + 1
               chunk == chunks[k]
               c == text[k]
    <3>1. k \in 1 .. n /\ k + 1 \in k + 1 .. n + 1 /\ k + 1 \in 1 .. n + 1
      <4>1. n \in Nat
        BY <1>2
      <4> HIDE DEF n
      <4> QED  BY <2>2, <4>1
    <3>2. /\ f[p[k + 1] + 1] \in Seq(Piece)
          /\ Written(f[p[k + 1] + 1] \o <<last>>) = left(k + 1) \o Crlf
      BY <1>10, <3>1
    <3>3. p[k] \in 0 .. Len(masked) /\ p[k + 1] \in 0 .. Len(masked) /\ Len(chunk) \in 1 .. 4
      BY <1>6, <1>7, <3>1
    <3>4. p[k + 1] = p[k] + Len(chunk)
      BY <1>6, <3>1
    <3>5. c \in STRING /\ MaskedAs(c, chunk)
      BY <1>2, <3>1
    <3>6. \A j \in 1 .. Len(chunk) : masked[p[k] + j] = chunk[j]
      BY <1>6, <3>1
    <3> HIDE DEF chunk, c
    <3>7. /\ i \in 1 .. Len(masked) /\ i + Len(chunk) = p[k + 1] + 1 /\ i + Len(chunk) \in 1 .. Len(masked) + 1
          /\ i - 1 = p[k]
      <4>1. \A x, y \in 0 .. Len(masked) : \A l \in 1 .. 4 : y = x + l => GoesOn(masked, x, y, l)
        BY <1>2 DEF GoesOn
      <4>2. GoesOn(masked, p[k], p[k + 1], Len(chunk))
        BY <3>3, <3>4, <4>1
      <4> QED  BY <4>2, Zenon DEF GoesOn
    <3>8. MaskedAt(masked, c, chunk, i)
      BY <3>5, <3>6, <3>7 DEF MaskedAt
    <3>9. WritesOne(f, c, i, i + Len(chunk))
      BY <1>1, <1>3, <3>8, MaskedRead
    <3>10. PICK w \in Writes : w.text = <<c>> /\ f[i] = <<w>> \o f[p[k + 1] + 1]
      BY <3>7, <3>9 DEF WritesOne
    <3>11. w \in Piece
      <4>1. <<c>> # << >> /\ <<c>> \in Texts
        BY <3>5, TextsJoined
      <4> QED  BY <3>10, <4>1 DEF Writes, Piece
    <3> DEFINE rest == f[p[k + 1] + 1]
    <3>12. rest \in Seq(Piece) /\ Written(rest \o <<last>>) = left(k + 1) \o Crlf /\ f[i] = <<w>> \o rest
      BY <3>2, <3>10
    <3> HIDE DEF rest, i
    <3>13. f[i] \in Seq(Piece) /\ Written(f[i] \o <<last>>) = <<c>> \o (left(k + 1) \o Crlf)
      BY <1>4, <3>10, <3>11, <3>12, PieceInFront
    <3>14. <<c>> \o (left(k + 1) \o Crlf) = (<<c>> \o left(k + 1)) \o Crlf
      <4>1. <<c>> \in Texts /\ left(k + 1) \in Texts
        BY <1>9, <3>1, <3>5, TextsJoined
      <4>2. Associates(<<c>>, left(k + 1), Crlf)
        BY <1>4, <4>1, ThreeTexts
      <4> QED  BY <4>2, Zenon DEF Associates
    <3>15. <<c>> \o left(k + 1) = left(k)
      BY <1>8, <3>1 DEF c
    <3>16. Written(f[i] \o <<last>>) = left(k) \o Crlf
      BY <3>13, <3>14, <3>15
    <3> QED  BY <3>13, <3>16 DEF i
  <2> QED  BY <2>1, <2>2
<1>11. \A k \in 1 .. n + 1 : k \in Good
  <2>1. n + 1 \in Nat
    BY <1>2
  <2> HIDE DEF Good
  <2> QED  BY <1>10, <2>1, FromTheEnd
<1>12. 1 \in 1 .. n + 1 /\ p[1] + 1 = 1
  BY <1>2, <1>6
<1>13. Written(f[1] \o <<last>>) = left(1) \o Crlf
  BY <1>11, <1>12
<1> QED  BY <1>1, <1>3, <1>8, <1>13 DEF last

\* What a masked text is written as.
LEMMA MaskedEchoed ==
  ASSUME NEW text \in Texts, NEW escape \in BackslashEscapes
  PROVE  Written(Echo(<<Text("-e"), Text("--"), Masked(text, escape)>>)) = text \o Crlf
<1>1. PICK chunks : MaskedText(text, chunks) /\ Masked(text, escape) = FlattenSeq(chunks)
  BY MaskedShape
<1> DEFINE masked == Masked(text, escape)
<1>2. masked \in Texts /\ Written(WriteEscaped(masked) \o <<Write(Crlf)>>) = text \o Crlf
  BY <1>1, MaskedWritten
<1> HIDE DEF masked
<1>3. Echo(<<Text("-e"), Text("--"), masked>>) = WriteEscaped(masked) \o <<Write(Crlf)>>
  BY <1>2, EchoOfOne
<1> QED  BY <1>2, <1>3 DEF masked

-----------------------------------------------------------------------------
(* The invariant. *)

\* What of the writes still to be made has not been given to the writer yet.
Remaining == IF flushing THEN Tail(todo) ELSE todo

\* OutputArrives needs to know where the flush stands: only the Linux writer
\* keeps something, no more than its buffer holds, and it empties only a buffer
\* with something in it.
ArrivalInv ==
  /\ WritesOK
  /\ screen \in Texts /\ buffer \in Texts /\ wanted \in Texts
  /\ ~ Std => buffer = << >>
  /\ Len(buffer) <= BufferSize
  /\ emptying \in BOOLEAN /\ flushing \in BOOLEAN /\ lost \in BOOLEAN
  /\ flushing \/ emptying => Std /\ buffer # << >> /\ todo # << >>
  /\ ~ (flushing /\ emptying)
  /\ at = "reading" => todo = << >> /\ screen = << >>
  /\ OutputArrives

\* The first of the writes and the others.
LEMMA Types ==
  ASSUME WritesOK
  PROVE  /\ todo \in Seq(Piece)
         /\ todo # << >> => /\ Head(todo) \in Piece /\ Tail(todo) \in Seq(Piece)
                            /\ Head(todo).text \in Texts /\ Head(todo).text # << >>
                            /\ Head(todo).call = "write_char" => Len(Head(todo).text) = 1
<1>1. todo \in Seq(Piece)
  BY DEF WritesOK, Piece, Texts
<1>2. todo # << >> => Head(todo) \in Piece /\ Tail(todo) \in Seq(Piece)
  BY <1>1, WrittenFirst
<1>3. todo # << >> => Head(todo) = todo[1] /\ 1 \in DOMAIN todo
  BY <1>1, EmptySeq, LenProperties
<1> QED  BY <1>1, <1>2, <1>3 DEF Piece, WritesOK

\* Making the first write leaves writes.
LEMMA TailOK ==
  ASSUME WritesOK, todo # << >>, todo' = Tail(todo)
  PROVE  WritesOK'
<1>1. /\ Tail(todo) \in Seq(Piece) /\ Len(todo) \in Nat \ {0}
      /\ Len(Tail(todo)) = Len(todo) - 1
      /\ \A i \in 1 .. Len(Tail(todo)) : Tail(todo)[i] = todo[i + 1]
      /\ DOMAIN todo = 1 .. Len(todo) /\ DOMAIN Tail(todo) = 1 .. Len(Tail(todo))
  BY Types, EmptySeq, LenProperties, HeadTailProperties
<1>2. \A i \in DOMAIN Tail(todo) : i + 1 \in DOMAIN todo /\ Tail(todo)[i] = todo[i + 1]
  BY <1>1
<1>3. \A i \in DOMAIN Tail(todo) :
        Tail(todo)[i].call = "write_char" => Len(Tail(todo)[i].text) = 1
  BY <1>2 DEF WritesOK
<1> QED  BY <1>1, <1>3 DEF WritesOK, Piece, Texts

\* Making a part of it leaves the rest of its text in front of the others.
LEMMA RestOK ==
  ASSUME WritesOK, todo # << >>, NEW rest \in Texts, rest # << >>,
         todo' = <<Write(rest)>> \o Tail(todo)
  PROVE  /\ WritesOK'
         /\ todo' # << >> /\ Written(todo') = rest \o Written(Tail(todo))
<1>1. Write(rest) \in Piece /\ Write(rest).text = rest /\ Write(rest).call = "write_str"
  BY DEF Write, Piece
<1>2. Tail(todo) \in Seq(Piece) /\ <<Write(rest)>> \in Seq(Piece) /\ Len(<<Write(rest)>>) = 1
  BY <1>1, Types
<1>3. /\ todo' \in Seq(Piece) /\ Len(todo') = 1 + Len(Tail(todo))
      /\ \A i \in 1 .. 1 + Len(Tail(todo)) :
           todo'[i] = IF i <= 1 THEN <<Write(rest)>>[i] ELSE Tail(todo)[i - 1]
  BY <1>2, ConcatProperties
<1>4. /\ Len(todo) \in Nat \ {0} /\ Len(Tail(todo)) = Len(todo) - 1
      /\ \A i \in 1 .. Len(todo) - 1 : Tail(todo)[i] = todo[i + 1]
      /\ DOMAIN todo = 1 .. Len(todo) /\ DOMAIN todo' = 1 .. Len(todo')
  BY <1>3, Types, EmptySeq, LenProperties, HeadTailProperties
<1>5. \A i \in DOMAIN todo' : i = 1 \/ (i \in DOMAIN todo /\ todo'[i] = todo[i])
  BY <1>3, <1>4
<1>6. todo'[1] = Write(rest)
  BY <1>3, <1>4
<1>7. WritesOK'
  BY <1>1, <1>3, <1>5, <1>6 DEF WritesOK, Piece, Texts
<1>8. todo' # << >> /\ Head(todo') = Write(rest)
  BY <1>3, <1>4, <1>6, EmptySeq
<1>9. Tail(todo') = Tail(todo)
  <2>1. Tail(todo') \in Seq(Piece) /\ Len(Tail(todo')) = Len(todo') - 1
        /\ \A i \in 1 .. Len(Tail(todo')) : Tail(todo')[i] = todo'[i + 1]
    BY <1>3, <1>8, HeadTailProperties
  <2>2. \A i \in 1 .. Len(Tail(todo')) : Tail(todo')[i] = Tail(todo)[i]
    BY <1>3, <1>4, <2>1
  <2>3. Len(Tail(todo')) = Len(Tail(todo))
    BY <1>3, <1>4, <2>1
  <2> QED  BY <1>2, <2>1, <2>2, <2>3, SeqEqual
<1> QED  BY <1>1, <1>3, <1>7, <1>8, <1>9, WrittenFirst

\* A line is entered only when nothing of the line before is left.
LEMMA EnterKeepsInv ==
  ASSUME ArrivalInv, SessionInv, NEW l \in Lines, EnterLine(l)
  PROVE  ArrivalInv'
<1>1. /\ at = "reading" /\ todo = << >> /\ screen = << >> /\ ~ flushing /\ ~ emptying
  BY DEF EnterLine, ArrivalInv
<1>2. /\ UNCHANGED <<backend, screen, buffer, emptying, flushing, lost, refused>>
      /\ at' \in {"printing", "leaving"}
      /\ wanted' = buffer \o Written(todo')
  BY DEF EnterLine, BlankLine, ParseAndRun, RefuseLine, RunLine, Executed, Output
<1>3. WritesOK'
  BY EnterGivesWrites
<1>4. Written(todo') \in Texts
  BY <1>3, WrittenFirst DEF WritesOK, Piece, Texts
<1>5. wanted' \in Texts /\ OutputArrives'
  BY <1>1, <1>2, <1>4, TextsJoin DEF ArrivalInv, OutputArrives
<1> QED  BY <1>1, <1>2, <1>3, <1>5 DEF ArrivalInv, Std

\* A text that only waits in the line buffer.
LEMMA BufferKeepsInv ==
  ASSUME ArrivalInv, BufferText
  PROVE  ArrivalInv'
<1> DEFINE text == Head(todo).text
<1>1. /\ todo # << >> /\ Std /\ Given = << >>
      /\ buffer' = buffer \o text /\ flushing' = TRUE
      /\ UNCHANGED <<at, backend, todo, screen, wanted, emptying, lost, refused>>
  BY DEF BufferText, Printing, lineVars
<1>2. /\ text \in Texts /\ text # << >> /\ Tail(todo) \in Seq(Piece) /\ todo \in Seq(Piece)
      /\ buffer \in Texts /\ screen \in Texts
  BY <1>1, Types DEF ArrivalInv
<1>3. ~ flushing /\ ~ emptying /\ ~ GivesBuffer
  BY <1>1 DEF ArrivalInv, Given, GivesBuffer
<1>4. Written(todo) = text \o Written(Tail(todo)) /\ Written(Tail(todo)) \in Texts
  BY <1>1, <1>2, WrittenFirst
<1>5. buffer' \in Texts /\ buffer' # << >> /\ Len(buffer') <= BufferSize
  <2>1. buffer' \in Texts /\ buffer' # << >>
    BY <1>1, <1>2, ConcatEqualIffEmpty DEF Texts
  <2>2. Len(buffer') = Len(buffer) + Len(text) /\ Len(text) \in Nat /\ Len(buffer) \in Nat
    BY <1>1, <1>2, ConcatProperties, LenProperties DEF Texts
  <2>3. CASE buffer = << >>
    <3>1. Unbuffered(text) = << >>
      BY <1>1, <1>3 DEF Given
    <3>2. Len(text) < BufferSize /\ Len(buffer) = 0
      BY <1>2, <2>3, <3>1, UnbufferedOf, EmptySeq
    <3> QED  BY <2>1, <2>2, <3>2, CommandAssumption
  <2>4. CASE buffer # << >>
    <3>1. ~ (Len(text) > BufferSize - Len(buffer))
      BY <1>1, <1>3, <2>4 DEF GivesBuffer
    <3> QED  BY <2>1, <2>2, <3>1, CommandAssumption
  <2> QED  BY <2>3, <2>4
<1> HIDE DEF text
<1>6. (screen \o buffer) \o (text \o Written(Tail(todo))) = (screen \o (buffer \o text)) \o Written(Tail(todo))
  <2> DEFINE later == Written(Tail(todo))
  <2>1. screen \in Texts /\ buffer \in Texts /\ text \in Texts /\ later \in Texts
    BY <1>2, <1>4
  <2> HIDE DEF later
  <2>2. Regroups(screen, buffer, text, later)
    BY <2>1, RegroupBuffer
  <2> QED  BY <2>2 DEF Regroups, later
<1>7. OutputArrives'
  BY <1>1, <1>3, <1>4, <1>6 DEF ArrivalInv, OutputArrives
<1> QED  BY <1>1, <1>3, <1>5, <1>7 DEF ArrivalInv, WritesOK, Std

\* VIBIX: the kernel takes a part of the first text, or all of it.
LEMMA VibixTakesKeepsInv ==
  ASSUME ArrivalInv, ~ Std, todo # << >>, NEW count \in Nat \ {0}, count <= Len(Given), Takes(count)
  PROVE  ArrivalInv'
<1> DEFINE text == Head(todo).text
           part == SubSeq(text, 1, count)
           rest == RestOfText(text, count)
           later == Written(Tail(todo))
<1>1. /\ Given = text /\ screen' = screen \o part /\ todo' = AfterWrite(count)
      /\ UNCHANGED <<at, backend, wanted, buffer, emptying, flushing, lost, refused>>
  BY DEF Takes, Given, lineVars
<1>2. /\ text \in Texts /\ Tail(todo) \in Seq(Piece) /\ todo \in Seq(Piece) /\ Head(todo) \in Piece
      /\ Head(todo).call = "write_char" => Len(text) = 1
      /\ screen \in Texts /\ buffer = << >> /\ flushing = FALSE /\ emptying = FALSE
  BY Types DEF ArrivalInv
<1>3. Written(todo) = text \o later /\ later \in Texts
  BY <1>2, WrittenFirst
<1>4. Len(text) \in Nat /\ count \in 0 .. Len(text)
  BY <1>1, <1>2, LenProperties DEF Texts
<1>5. /\ part \in Texts /\ rest \in Texts /\ part \o rest = text
      /\ rest = << >> <=> count = Len(text)
  BY <1>2, <1>4, CutText
<1>6. /\ WritesOK' /\ Written(todo') = rest \o later
  <2>1. CASE rest = << >>
    <3>1. todo' = Tail(todo)
      BY <1>1, <2>1 DEF AfterWrite
    <3> QED  BY <1>3, <2>1, <3>1, TailOK, TextsJoin DEF ArrivalInv
  <2>2. CASE rest # << >>
    <3>1. Head(todo).call = "write_str"
      <4>1. Head(todo).call \in {"write_str", "write_char"}
        BY <1>2 DEF Piece
      <4>2. count # Len(text)
        BY <1>5, <2>2
      <4>3. Len(text) # 1
        <5>1. \A n \in Nat \ {0}, m \in Nat : n \in 0 .. m /\ n # m => m # 1
          OBVIOUS
        <5> HIDE DEF text
        <5> QED  BY <1>4, <4>2, <5>1
      <4> QED  BY <1>2, <4>1, <4>3
    <3>2. todo' = <<Write(rest)>> \o Tail(todo)
      BY <1>1, <2>2, <3>1 DEF AfterWrite
    <3> HIDE DEF rest
    <3> QED  BY <1>5, <2>2, <3>2, RestOK DEF ArrivalInv
  <2> QED  BY <2>1, <2>2
<1> HIDE DEF text, part, rest, later
<1>7. OutputArrives'
  <2> SUFFICES ASSUME ~ refused, ~ lost
               PROVE  (screen' \o buffer') \o Written(todo') = wanted'
    BY <1>1, <1>2 DEF OutputArrives
  <2>1. wanted = (screen \o << >>) \o (text \o later)
    BY <1>2, <1>3 DEF ArrivalInv, OutputArrives
  <2>2. (screen \o << >>) \o ((part \o rest) \o later) = ((screen \o part) \o << >>) \o (rest \o later)
    <3>1. screen \o part \in Texts
      BY <1>2, <1>5, TextsJoin
    <3>2. (screen \o part) \o << >> = screen \o part /\ screen \o << >> = screen
      BY <1>2, <3>1, TextsJoin
    <3>3. screen \o ((part \o rest) \o later) = (screen \o part) \o (rest \o later)
      <4>1. screen \in Texts /\ part \in Texts /\ rest \in Texts /\ later \in Texts
        BY <1>2, <1>3, <1>5
      <4>2. RegroupsCut(screen, part, rest, later)
        BY <4>1, RegroupTaken
      <4> QED  BY <4>2 DEF RegroupsCut
    <3> QED  BY <3>2, <3>3
  <2> QED  BY <1>1, <1>2, <1>5, <1>6, <2>1, <2>2
<1>8. screen' \in Texts
  BY <1>1, <1>2, <1>5, TextsJoin
<1>9. at # "reading"
  BY DEF ArrivalInv
<1> QED  BY <1>1, <1>2, <1>6, <1>7, <1>8, <1>9 DEF ArrivalInv, Std

\* Linux: the buffer goes to the kernel, in a flush or ahead of the lines of a
\* text.
LEMMA BufferGivenKeepsInv ==
  ASSUME ArrivalInv, Std, GivesBuffer, todo # << >>,
         NEW count \in Nat \ {0}, count <= Len(Given), Takes(count)
  PROVE  ArrivalInv'
<1> DEFINE part == SubSeq(buffer, 1, count)
           rest == RestOfText(buffer, count)
<1>1. Given = buffer
  BY DEF Given
<1>2. /\ screen' = screen \o part /\ buffer' = rest
      /\ emptying' = (~ flushing /\ rest # << >>)
      /\ flushing' = (flushing /\ rest # << >>)
      /\ todo' = IF flushing /\ rest = << >> THEN Tail(todo) ELSE todo
      /\ UNCHANGED <<at, backend, wanted, lost, refused>>
  BY <1>1 DEF Takes, LinuxTakes, RestTaken, lineVars
<1>3. /\ buffer \in Texts /\ screen \in Texts /\ todo \in Seq(Piece)
      /\ Tail(todo) \in Seq(Piece) /\ flushing \in BOOLEAN
  BY Types DEF ArrivalInv
<1>4. Len(buffer) \in Nat /\ count \in 0 .. Len(buffer)
  BY <1>1, <1>3, LenProperties DEF Texts
<1>5. part \in Texts /\ rest \in Texts /\ part \o rest = buffer
  BY <1>3, <1>4, CutText
<1> HIDE DEF part, rest
<1>6. Len(rest) <= BufferSize
  <2>1. Len(part) + Len(rest) = Len(buffer) /\ Len(part) \in Nat /\ Len(rest) \in Nat
    BY <1>5, ConcatProperties, LenProperties DEF Texts
  <2> QED  BY <1>4, <2>1, CommandAssumption DEF ArrivalInv
<1>7. WritesOK'
  BY <1>2, TailOK DEF ArrivalInv, WritesOK
<1>8. Remaining' = Remaining
  BY <1>2, <1>3 DEF Remaining
<1>9. Written(Remaining) \in Texts
  BY <1>3, WrittenFirst DEF Remaining
<1>10. (screen \o part) \o rest = screen \o buffer
  <2>1. screen \in Texts
    BY <1>3
  <2>2. Associates(screen, part, rest)
    BY <1>5, <2>1, ThreeTexts
  <2> QED  BY <1>5, <2>2, Zenon DEF Associates
<1>11. OutputArrives'
  <2>1. ~ refused /\ ~ lost => (screen \o buffer) \o Written(Remaining) = wanted
    BY DEF ArrivalInv, OutputArrives, Remaining
  <2>2. ~ refused' /\ ~ lost' => (screen' \o buffer') \o Written(Remaining') = wanted'
    BY <1>2, <1>8, <1>10, <2>1
  <2> QED  BY <2>2 DEF OutputArrives, Remaining
<1>12. screen' \in Texts /\ at # "reading"
  BY <1>2, <1>3, <1>5, TextsJoin DEF ArrivalInv
<1> QED  BY <1>2, <1>3, <1>5, <1>7, <1>11, <1>12, <1>6 DEF ArrivalInv, Std

\* Linux: a text, or its lines, go to the kernel; the buffer keeps a part of what
\* is behind what was taken, and the rest is lost.
LEMMA TextGivenKeepsInv ==
  ASSUME ArrivalInv, Std, ~ GivesBuffer, todo # << >>,
         NEW count \in Nat \ {0}, count <= Len(Given), Takes(count)
  PROVE  ArrivalInv'
<1> DEFINE text == Head(todo).text
           part == SubSeq(text, 1, count)
           later == Written(Tail(todo))
<1>1. Given = Unbuffered(text)
  BY DEF Given
<1>2. /\ text \in Texts /\ text # << >> /\ screen \in Texts /\ buffer \in Texts
      /\ todo \in Seq(Piece) /\ Tail(todo) \in Seq(Piece)
      /\ Written(todo) = text \o later /\ later \in Texts
      /\ wanted \in Texts
  BY Types, WrittenFirst DEF ArrivalInv
<1>3. ~ flushing /\ ~ emptying /\ buffer = << >>
  <2>1. ~ flushing /\ ~ emptying
    BY DEF ArrivalInv, GivesBuffer
  <2>2. buffer = << >>
    <3>1. SUFFICES ASSUME buffer # << >> PROVE FALSE
      OBVIOUS
    <3>2. ThroughNewline(text) = << >> /\ ~ (Len(text) > BufferSize - Len(buffer))
      BY <3>1 DEF GivesBuffer
    <3>3. Len(text) \in Nat /\ Len(buffer) \in Nat \ {0} /\ BufferSize \in Nat
      BY <1>2, <3>1, LenProperties, EmptySeq, CommandAssumption DEF Texts
    <3>4. ~ (Len(text) >= BufferSize)
      <4> HIDE DEF text
      <4> QED  BY <3>2, <3>3
    <3>5. Given = << >>
      BY <1>1, <3>2, <3>4 DEF Unbuffered
    <3>6. Len(Given) = 0
      BY <3>5, EmptySeq
    <3> QED  BY <3>6
  <2> QED  BY <2>1, <2>2
<1>4. PICK end \in KeptTo(text, count) :
        /\ buffer' = SubSeq(text, count + 1, end)
        /\ flushing' = (buffer' # << >>)
        /\ todo' = IF buffer' = << >> THEN Tail(todo) ELSE todo
        /\ lost' = (lost \/ end < Len(text))
        /\ emptying' = emptying
  BY DEF Takes, LinuxTakes, TextTaken
<1> DEFINE kept == SubSeq(text, count + 1, end)
<1>5. /\ count \in 0 .. Len(text) /\ end \in count .. Len(text)
      /\ kept \in Texts /\ Len(kept) <= BufferSize
  BY <1>1, <1>2, KeptOf
<1>6. part \in Texts
  BY <1>2, <1>5, CutText
<1>7. SubSeq(Given, 1, count) = part
  <2>1. /\ Len(Unbuffered(text)) \in 0 .. Len(text)
        /\ Unbuffered(text) = SubSeq(text, 1, Len(Unbuffered(text)))
    BY <1>2, UnbufferedOf
  <2>2. count \in 0 .. Len(Unbuffered(text))
    BY <1>1, <2>1
  <2> DEFINE length == Len(Unbuffered(text))
  <2> HIDE DEF text, length
  <2>3. SubSeq(SubSeq(text, 1, length), 1, count) = SubSeq(text, 1, count)
    BY <1>2, <2>1, <2>2, PartOfPart DEF length
  <2> QED  BY <1>1, <2>1, <2>3 DEF length, text
<1>8. /\ screen' = screen \o part /\ buffer' = kept
      /\ flushing' = (kept # << >>)
      /\ todo' = IF kept = << >> THEN Tail(todo) ELSE todo
      /\ UNCHANGED <<at, backend, wanted, refused>>
  BY <1>4, <1>7 DEF Takes, lineVars
<1>9. lost' \in BOOLEAN
  BY <1>4
<1>10. ~ lost' => part \o kept = text
  <2>1. SUFFICES ASSUME ~ lost' PROVE part \o kept = text
    OBVIOUS
  <2>2. end = Len(text)
    <3>1. ~ (end < Len(text))
      BY <1>4, <2>1
    <3>2. Len(text) \in Nat
      BY <1>2, LenProperties DEF Texts
    <3> HIDE DEF text
    <3> QED  BY <1>5, <3>1, <3>2
  <2>3. kept = RestOfText(text, count)
    BY <2>2 DEF RestOfText
  <2> QED  BY <1>2, <1>5, <2>3, CutText
<1>11. ~ lost' => ~ lost
  BY <1>4
<1> HIDE DEF text, part, kept, later
<1>12. WritesOK'
  BY <1>8, TailOK DEF ArrivalInv, WritesOK
<1>13. Written(Remaining') = later
  BY <1>8 DEF Remaining, later
<1>14. OutputArrives'
  <2>1. SUFFICES ASSUME ~ refused', ~ lost'
                 PROVE  (screen' \o buffer') \o Written(Remaining') = wanted'
    BY DEF OutputArrives, Remaining
  <2>2. wanted = (screen \o << >>) \o (text \o later)
    BY <1>2, <1>3, <1>8, <1>11, <2>1 DEF ArrivalInv, OutputArrives
  <2>3. screen \o << >> = screen
    BY <1>2, TextsJoin
  <2>4. screen \o ((part \o kept) \o later) = (screen \o part) \o (kept \o later)
    <3>1. screen \in Texts /\ part \in Texts /\ kept \in Texts /\ later \in Texts
      BY <1>2, <1>5, <1>6
    <3>2. RegroupsCut(screen, part, kept, later)
      BY <3>1, RegroupTaken
    <3> QED  BY <3>2 DEF RegroupsCut
  <2>5. (screen \o part) \o (kept \o later) = ((screen \o part) \o kept) \o later
    <3>1. screen \o part \in Texts
      BY <1>2, <1>6, TextsJoin
    <3> DEFINE shown == screen \o part
    <3>2. shown \in Texts /\ kept \in Texts /\ later \in Texts
      BY <1>2, <1>5, <3>1
    <3> HIDE DEF shown
    <3>3. shown \o (kept \o later) = (shown \o kept) \o later
      BY <3>2, TextsJoin
    <3> QED  BY <3>3 DEF shown
  <2> QED  BY <1>8, <1>10, <1>13, <2>1, <2>2, <2>3, <2>4, <2>5
<1>15. screen' \in Texts /\ at # "reading"
  BY <1>2, <1>6, <1>8, TextsJoin DEF ArrivalInv
<1>16. flushing' \in BOOLEAN /\ emptying' = FALSE
  BY <1>3, <1>4, <1>8 DEF ArrivalInv
<1>17. flushing' => buffer' # << >> /\ todo' # << >>
  BY <1>8
<1> QED  BY <1>2, <1>5, <1>8, <1>9, <1>12, <1>14, <1>15, <1>16, <1>17 DEF ArrivalInv, Std

\* A write that is refused loses the text, and OutputArrives says no more.
LEMMA RefusalKeepsInv ==
  ASSUME ArrivalInv, WriteRefused
  PROVE  ArrivalInv'
<1>1. /\ todo # << >> /\ refused' = TRUE /\ flushing' = (GivesBuffer /\ ~ flushing)
      /\ todo' = IF GivesBuffer /\ ~ flushing THEN todo ELSE Tail(todo)
      /\ emptying' = FALSE
      /\ UNCHANGED <<at, backend, screen, wanted, buffer, lost>>
  BY DEF WriteRefused, Printing, lineVars, AfterRefusal
<1>2. WritesOK'
  BY <1>1, TailOK DEF ArrivalInv, WritesOK
<1>3. GivesBuffer => Std /\ buffer # << >>
  BY DEF GivesBuffer
<1>4. at # "reading"
  BY <1>1 DEF ArrivalInv
<1> QED  BY <1>1, <1>2, <1>3, <1>4 DEF ArrivalInv, OutputArrives, Std

\* The next line starts with what waits in the buffer.
LEMMA DoneKeepsInv ==
  ASSUME ArrivalInv, LineDone
  PROVE  ArrivalInv'
<1>1. /\ todo = << >> /\ todo' = << >> /\ screen' = << >> /\ wanted' = buffer
      /\ lost' = FALSE
      /\ UNCHANGED <<backend, buffer, emptying, flushing>>
  BY DEF LineDone
<1>2. ~ flushing /\ ~ emptying /\ buffer \in Texts
  BY <1>1 DEF ArrivalInv
<1>3. (screen' \o buffer') \o Written(todo') = wanted'
  BY <1>1, <1>2, WrittenFirst, TextsJoin
<1> QED
  BY <1>1, <1>2, <1>3, TextsJoin DEF ArrivalInv, OutputArrives, WritesOK, Std

\* Every step keeps the invariant.
LEMMA ArrivalInvNext ==
  ASSUME ArrivalInv, SessionInv, [CommandNext]_commandVars
  PROVE  ArrivalInv'
<1>1. CASE UNCHANGED commandVars
  BY <1>1 DEF commandVars, lineVars, writeVars, ArrivalInv, WritesOK, OutputArrives, Std
<1>2. CASE \E l \in Lines : EnterLine(l)
  BY <1>2, EnterKeepsInv
<1>3. ASSUME NEW count \in Nat \ {0}, count <= Len(Given), Takes(count), todo # << >>
      PROVE  ArrivalInv'
  BY <1>3, VibixTakesKeepsInv, BufferGivenKeepsInv, TextGivenKeepsInv
<1>4. CASE WriteTakesAll
  <2>1. Given \in Texts
    <3>1. todo # << >>
      BY <1>4 DEF WriteTakesAll, Printing
    <3> QED  BY <3>1, Types, UnbufferedOf DEF ArrivalInv, Given
  <2>2. Len(Given) \in Nat \ {0}
    BY <1>4, <2>1, EmptySeq DEF Texts, WriteTakesAll
  <2> QED  BY <1>3, <1>4, <2>2 DEF WriteTakesAll, Printing
<1>5. ASSUME NEW count \in ShortCounts, WriteTakes(count)
      PROVE  ArrivalInv'
  <2>1. count \in Nat \ {0}
    BY CommandAssumption
  <2>2. count < Len(Given)
    BY <1>5 DEF WriteTakes
  <2>3. Len(Given) \in Nat
    <3>1. todo # << >>
      BY <1>5 DEF WriteTakes, Printing
    <3>2. Given \in Texts
      BY <3>1, Types, UnbufferedOf DEF ArrivalInv, Given
    <3> QED  BY <3>2, LenProperties DEF Texts
  <2>4. count <= Len(Given)
    BY <2>1, <2>2, <2>3
  <2> QED  BY <1>3, <1>5, <2>1, <2>4 DEF WriteTakes, Printing
<1>6. CASE TerminalBreaks
  BY <1>6 DEF TerminalBreaks, lineVars, ArrivalInv, WritesOK, OutputArrives, Std
<1> QED
  BY <1>1, <1>2, <1>4, <1>5, <1>6, BufferKeepsInv, RefusalKeepsInv, DoneKeepsInv
  DEF CommandNext, Proceed

-----------------------------------------------------------------------------
(* The theorems. *)

\* The inductive invariant of the loop: what a line is given and what it leaves
\* to the next, and that printenv finds the directory of the last cd.
THEOREM SessionInvariance == CommandSpec => []SessionInv
<1>1. CommandInit => SessionInv
  BY SessionInvInit
<1>2. SessionInv /\ [CommandNext]_commandVars => SessionInv'
  BY SessionInvNext
<1> QED  BY <1>1, <1>2, PTL DEF CommandSpec

\* After a cd, printenv PWD prints the directory it went to, whatever commands
\* ran since.
THEOREM PrintenvFollows == CommandSpec => []PrintenvFollowsCd
<1>1. SessionInv => PrintenvFollowsCd
  BY PwdIsPrinted
<1> QED  BY <1>1, SessionInvariance, PTL

\* Whatever was typed, quoted in any of three ways it is parsed to one argument,
\* character by character.
THEOREM AnyTextIsAWord == CommandSpec => []QuotedTextIsOneWord
<1>1. SessionInv => QuotedTextIsOneWord
  <2> SUFFICES ASSUME SessionInv PROVE QuotedTextIsOneWord
    OBVIOUS
  <2>1. line \in Texts
    BY CommandAssumption, TextsJoined DEF SessionInv, Texts
  <2>2. \A q \in Quotings(line) : ParseLine(q \o <<" ">> \o q \o <<" ", "n">>) =
          [commands |-> <<Command(<<line, line, <<"n">>>>, << >>)>>, error |-> "none"]
    BY <2>1, QuotingsAreArguments
  <2> QED  BY <2>2 DEF QuotedTextIsOneWord
<1> QED  BY <1>1, SessionInvariance, PTL

\* echo -e prints any text whose backslashes are written as escapes, in each of
\* the three ways, whatever follows them.
THEOREM BackslashesAreDecoded == CommandSpec => []EchoDecodesBackslashes
<1>1. SessionInv => EchoDecodesBackslashes
  <2> SUFFICES ASSUME SessionInv PROVE EchoDecodesBackslashes
    OBVIOUS
  <2>1. line \in Texts
    BY CommandAssumption, TextsJoined DEF SessionInv, Texts
  <2>2. \A escape \in BackslashEscapes :
          Written(Echo(<<Text("-e"), Text("--"), Masked(line, escape)>>)) = line \o Crlf
    BY <2>1, MaskedEchoed
  <2> QED  BY <2>2 DEF EchoDecodesBackslashes
<1> QED  BY <1>1, SessionInvariance, PTL

\* The inductive invariant of the writers: of what the builtins give them they
\* make writes until nothing is left, and they flush only a buffer with something
\* in it.
THEOREM ArrivalInvariance == CommandSpec => []ArrivalInv
<1>1. CommandInit => ArrivalInv
  <2> SUFFICES ASSUME CommandInit PROVE ArrivalInv
    OBVIOUS
  <2>1. (screen \o buffer) \o Written(todo) = wanted
    BY WrittenFirst, TextsJoin DEF CommandInit
  <2>2. todo = << >> /\ todo \in Seq(Piece) /\ DOMAIN todo = {}
    BY DEF CommandInit
  <2>3. WritesOK
    BY <2>2 DEF WritesOK, Piece, Texts
  <2>4. Len(buffer) <= BufferSize
    BY EmptySeq, CommandAssumption DEF CommandInit
  <2> QED  BY <2>1, <2>3, <2>4, TextsJoin DEF CommandInit, ArrivalInv, OutputArrives
<1>2. ArrivalInv /\ SessionInv /\ [CommandNext]_commandVars => ArrivalInv'
  BY ArrivalInvNext
<1> QED  BY <1>1, <1>2, SessionInvariance, PTL DEF CommandSpec

\* The state of the loop and of the writers has its types: the writes of any line
\* are made of texts, and a character is written alone.
THEOREM CommandTypeCorrect == CommandSpec => []CommandTypeOK
<1>1. ArrivalInv /\ SessionInv => CommandTypeOK
  <2> SUFFICES ASSUME ArrivalInv, SessionInv PROVE CommandTypeOK
    OBVIOUS
  <2>1. \A i \in DOMAIN env : IsText(env[i])
    BY LenProperties DEF SessionInv, IsText, Texts
  <2>2. IsText(cwd) /\ IsText(screen) /\ IsText(wanted) /\ IsText(buffer)
    BY DEF SessionInv, ArrivalInv, IsText, Texts
  <2> QED  BY <2>1, <2>2 DEF SessionInv, ArrivalInv, CommandTypeOK
<1> QED  BY <1>1, ArrivalInvariance, SessionInvariance, PTL

\* What arrived, what waits in the line buffer and what is still to be written
\* make what the line prints, in its order and without repetitions, until a
\* write is refused, or says that it took only a part of its text.
THEOREM OutputArrivesInOrder == CommandSpec => []OutputArrives
<1>1. ArrivalInv => OutputArrives
  BY DEF ArrivalInv
<1> QED  BY <1>1, ArrivalInvariance, PTL

=============================================================================
