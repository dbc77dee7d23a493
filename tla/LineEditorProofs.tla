--------------------------- MODULE LineEditorProofs ---------------------------
(***************************************************************************)
(* Proofs about the line editor: for every capacity, line limit and         *)
(* character set, the history keeps its shape, the browse position is       *)
(* always the index of an entry, and the entry is the line being edited.    *)
(***************************************************************************)
EXTENDS LineEditor, SequenceTheorems, TLAPS

\* What is known of the terminal.
TerminalOK == row \in Rows \cup {Unknown} /\ inStep \in BOOLEAN

\* EditorTypeOK but for the bound of the position, which the history's gives.
EditorVarsOK ==
  /\ entries \in Seq(Lines)
  /\ browse \in Nat
  /\ {pending, buf, draft} \subseteq Lines
  /\ TerminalOK
  /\ esc \in {"none", "esc", "bracket"}
  /\ phase \in {"idle", "reading", "entered", "closed"}

\* The inductive invariant.  BrowseTracksLine is what makes the rest
\* inductive: it says that a line entered while a position is browsed is an
\* entry, hence that add() either resets the position or changes nothing.
EditorInv ==
  /\ EditorVarsOK
  /\ BrowseInRange
  /\ HistoryShape
  /\ BrowseTracksLine
  /\ LineBound

Limit == IF High = {} THEN LineMax ELSE LineMax + 1

\* String::pop yields a line that is no longer.
LEMMA PoppedIsLine ==
  ASSUME NEW line \in Lines, line # << >>
  PROVE  /\ Popped(line) \in Lines
         /\ Len(Popped(line)) <= Len(line)
<1> DEFINE n == Len(line) - (IF line[Len(line)] \in High THEN 2 ELSE 1)
<1>1. Len(line) \in Nat \ {0} /\ n \in Int /\ n < Len(line)
  BY EmptySeq DEF Lines
<1>2. \A i \in 1 .. n : line[i] \in Bytes
  BY <1>1, ElementOfSeq DEF Lines
<1>3. /\ SubSeq(line, 1, n) \in Seq(Bytes)
      /\ Len(SubSeq(line, 1, n)) = IF 1 <= n THEN n - 1 + 1 ELSE 0
  BY <1>1, <1>2, SubSeqProperties
<1> QED  BY <1>1, <1>3 DEF Popped, Lines

\* A stored byte makes the line longer by one, or by two if it is high.
LEMMA StoredIsLine ==
  ASSUME NEW line \in Lines, NEW b \in Chars \cup High, Len(line) < LineMax
  PROVE  /\ line \o Encoding(b) \in Lines
         /\ Len(line \o Encoding(b)) <= Limit
<1>1. LineMax \in Nat /\ Len(line) \in Nat
  BY EditorAssumption DEF Lines
<1>2. Encoding(b) \in Seq(Bytes) /\ Len(Encoding(b)) = IF b \in High THEN 2 ELSE 1
  <2>1. CASE b \in High
    <3>1. <<Lead, b>> \in Seq(Bytes) /\ Len(<<Lead, b>>) = 2
      BY DEF Bytes
    <3> QED  BY <2>1, <3>1 DEF Encoding
  <2>2. CASE b \notin High
    <3>1. <<b>> \in Seq(Bytes) /\ Len(<<b>>) = 1
      BY DEF Bytes
    <3> QED  BY <2>2, <3>1 DEF Encoding
  <2> QED  BY <2>1, <2>2
<1>3. /\ line \o Encoding(b) \in Seq(Bytes)
      /\ Len(line \o Encoding(b)) = Len(line) + Len(Encoding(b))
  BY <1>2, ConcatProperties DEF Lines
<1> QED  BY <1>1, <1>2, <1>3 DEF Limit, Lines

\* add() keeps the history in shape and either forgets the browse position
\* or changes nothing.
LEMMA AddKeepsShape ==
  ASSUME entries \in Seq(Lines), HistoryShape,
         NEW line \in Lines, ~ Blank(line), Len(line) <= Limit,
         \A i \in 1 .. Len(entries) : Len(entries[i]) <= Limit,
         Add(line)
  PROVE  /\ entries' \in Seq(Lines)
         /\ HistoryShape'
         /\ \A i \in 1 .. Len(entries') : Len(entries'[i]) <= Limit
         /\ pending' = pending
         /\ \/ browse' = NotBrowsing
            \/ UNCHANGED history /\ entries # << >> /\ Newest = line
<1> DEFINE kept == IF Len(entries) >= Capacity THEN Tail(entries) ELSE entries
<1>1. line # << >>
  BY DEF Blank
<1>2. CASE entries # << >> /\ Newest = line
  BY <1>2 DEF Add, HistoryShape, history
<1>3. CASE ~ (entries # << >> /\ Newest = line)
  <2>1. entries' = Append(kept, line) /\ browse' = NotBrowsing /\ pending' = pending
    BY <1>1, <1>3 DEF Add
  <2>2. Capacity \in Nat \ {0} /\ Len(entries) \in Nat /\ Len(entries) <= Capacity
    BY EditorAssumption DEF HistoryShape
  <2>3. \E d \in {0, 1} :
          /\ kept \in Seq(Lines)
          /\ Len(kept) = Len(entries) - d
          /\ \A i \in 1 .. Len(kept) : kept[i] = entries[i + d]
          /\ Len(kept) < Capacity
    <3>1. CASE Len(entries) >= Capacity
      <4>1. entries # << >>
        BY <2>2, <3>1, EmptySeq
      <4>2. /\ Tail(entries) \in Seq(Lines)
            /\ Len(Tail(entries)) = Len(entries) - 1
            /\ \A i \in 1 .. Len(Tail(entries)) : Tail(entries)[i] = entries[i + 1]
        BY <4>1, HeadTailProperties
      <4>3. kept = Tail(entries)
        BY <3>1
      <4> HIDE DEF kept
      <4>4. 1 \in {0, 1} /\ Len(kept) < Capacity
        BY <2>2, <4>2, <4>3
      <4> QED  BY <4>2, <4>3, <4>4
    <3>2. CASE ~ (Len(entries) >= Capacity)
      <4>1. kept = entries
        BY <3>2
      <4> HIDE DEF kept
      <4>2. 0 \in {0, 1} /\ Len(kept) < Capacity /\ Len(kept) = Len(entries) - 0
        BY <2>2, <3>2, <4>1
      <4>3. \A i \in 1 .. Len(kept) : kept[i] = entries[i + 0]
        BY <2>2, <4>1
      <4> QED  BY <4>1, <4>2, <4>3
    <3> QED  BY <3>1, <3>2
  <2>4. PICK d \in {0, 1} :
          /\ kept \in Seq(Lines)
          /\ Len(kept) = Len(entries) - d
          /\ \A i \in 1 .. Len(kept) : kept[i] = entries[i + d]
          /\ Len(kept) < Capacity
    BY <2>3
  <2> HIDE DEF kept
  <2>5. /\ entries' \in Seq(Lines)
        /\ Len(entries') = Len(kept) + 1
        /\ \A i \in 1 .. Len(kept) : entries'[i] = kept[i]
        /\ entries'[Len(kept) + 1] = line
    BY <2>1, <2>4, AppendProperties
  <2>6. Len(kept) \in Nat
    BY <2>4
  <2>7. Len(entries') <= Capacity
    BY <2>2, <2>4, <2>5, <2>6
  <2>8. ASSUME NEW i \in 1 .. Len(entries')
        PROVE  ~ Blank(entries'[i]) /\ Len(entries'[i]) <= Limit
    <3>1. CASE i = Len(kept) + 1
      BY <2>5, <3>1
    <3>2. CASE i # Len(kept) + 1
      <4>1. i \in 1 .. Len(kept) /\ i + d \in 1 .. Len(entries)
        <5>1. i \in 1 .. Len(kept)
          BY <2>5, <2>6, <3>2
        <5> QED  BY <2>2, <2>4, <2>6, <5>1
      <4>2. entries'[i] = entries[i + d]
        BY <2>4, <2>5, <4>1
      <4> QED  BY <4>1, <4>2 DEF HistoryShape
    <3> QED  BY <3>1, <3>2
  <2>9. ASSUME NEW i \in 1 .. Len(entries') - 1
        PROVE  entries'[i] # entries'[i + 1]
    <3>1. i \in 1 .. Len(kept) /\ i + d \in 1 .. Len(entries)
      <4>1. i \in 1 .. Len(kept)
        BY <2>5, <2>6
      <4> QED  BY <2>2, <2>4, <2>6, <4>1
    <3>2. entries'[i] = entries[i + d]
      BY <2>4, <2>5, <3>1
    <3>3. CASE i = Len(kept)
      <4>1. entries'[i + 1] = line /\ i + d = Len(entries) /\ entries # << >>
        BY <2>2, <2>4, <2>5, <3>1, <3>3, EmptySeq
      <4> QED  BY <1>3, <3>2, <4>1 DEF Newest
    <3>4. CASE i # Len(kept)
      <4>1. /\ i + 1 \in 1 .. Len(kept)
            /\ i + d \in 1 .. Len(entries) - 1
            /\ (i + 1) + d = (i + d) + 1
        BY <2>2, <2>4, <2>6, <3>1, <3>4
      <4>2. entries'[i + 1] = entries[(i + d) + 1]
        BY <2>4, <2>5, <4>1
      <4> QED  BY <3>2, <4>1, <4>2 DEF HistoryShape
    <3> QED  BY <3>3, <3>4
  <2> QED  BY <2>1, <2>5, <2>7, <2>8, <2>9 DEF HistoryShape
<1> QED  BY <1>2, <1>3

\* What is written to a row is a row.
LEMMA WriteIsRow ==
  ASSUME NEW onto \in Rows, NEW text \in Seq(Glyphs)
  PROVE  Write(onto, text) \in Rows
<1> DEFINE end == onto.at + Len(text)
           at == IF end <= Width THEN end ELSE ((end - 1) % Width) + 1
           left == end - at
           cell(i) == IF left + i \in onto.at + 1 .. end THEN text[left + i - onto.at]
                      ELSE IF left = 0 THEN onto.cells[i] ELSE Space
<1>1. /\ Width \in Nat \ {0} /\ Len(text) \in Nat /\ onto.at \in 0 .. Width
      /\ onto.cells \in [1 .. Width -> Glyphs] /\ Space \in Glyphs
  BY TerminalAssumption DEF Rows
<1>2. end \in Nat /\ at \in 0 .. Width
  <2>1. end \in Nat
    BY <1>1
  <2> HIDE DEF end
  <2>2. CASE end <= Width
    BY <1>1, <2>1, <2>2
  <2>3. CASE ~ (end <= Width)
    <3>1. end - 1 \in Nat
      BY <1>1, <2>1, <2>3
    <3>2. (end - 1) % Width \in 0 .. Width - 1
      BY <1>1, <3>1
    <3>3. at = ((end - 1) % Width) + 1
      BY <2>3
    <3> HIDE DEF at
    <3> QED  BY <1>1, <3>2, <3>3, <2>1
  <2> QED  BY <2>1, <2>2, <2>3
<1>3. left \in Int
  BY <1>2
<1>4. ASSUME NEW i \in 1 .. Width
      PROVE  cell(i) \in Glyphs
  <2>1. left + i \in onto.at + 1 .. end => left + i - onto.at \in 1 .. Len(text)
    <3> DEFINE a == onto.at
               t == Len(text)
               l == left
    <3>1. end = a + t /\ a \in Nat /\ l \in Int /\ t \in Nat
      BY <1>1, <1>3
    <3> HIDE DEF end, left, a, t, l
    <3>2. l + i \in a + 1 .. end => l + i - a \in 1 .. t
      BY <3>1
    <3> QED  BY <3>2 DEF a, t, l
  <2>2. \A k \in 1 .. Len(text) : text[k] \in Glyphs
    BY ElementOfSeq
  <2> HIDE DEF left, end
  <2> QED  BY <1>1, <2>1, <2>2
<1>5. Write(onto, text) = [cells |-> [i \in 1 .. Width |-> cell(i)], at |-> at]
  BY DEF Write
<1> HIDE DEF cell, at
<1>6. [i \in 1 .. Width |-> cell(i)] \in [1 .. Width -> Glyphs]
  BY <1>4
<1> QED  BY <1>2, <1>5, <1>6 DEF Rows

\* A blank row is a row.
LEMMA BlankIsRow == BlankRow \in Rows
  BY TerminalAssumption DEF BlankRow, Rows

\* The rows the editor draws, echoes to and rubs out are rows.
LEMMA TerminalRows ==
  ASSUME EditorVarsOK
  PROVE  /\ \A onto \in Rows, line \in Lines : Drawn(onto, line) \in Rows \cup {Unknown}
         /\ \A line \in Lines : Redrawn(line) \in Rows \cup {Unknown}
         /\ \A b : Echoed(b) \in Rows \cup {Unknown}
         /\ Rubbed \in Rows \cup {Unknown}
<1>1. Width \in Nat /\ Width >= 2 /\ Space \in Glyphs
  BY TerminalAssumption
<1>2. ASSUME NEW onto \in Rows, NEW line \in Lines
      PROVE  Drawn(onto, line) \in Rows \cup {Unknown}
  <2>1. CASE AllShown(line)
    <3>1. PromptText \in Seq(Glyphs)
      BY EditorAssumption
    <3>2. line \in Seq(Glyphs)
      BY <2>1, EditorAssumption DEF AllShown, Lines
    <3>3. PromptText \o line \in Seq(Glyphs)
      BY <3>1, <3>2, ConcatProperties
    <3> QED  BY <2>1, <3>3, WriteIsRow DEF Drawn
  <2> QED  BY <2>1 DEF Drawn
<1>3. \A onto \in Rows : Return(onto) \in Rows /\ ClearToEnd(Return(onto)) \in Rows
  BY <1>1 DEF Return, ClearToEnd, Rows
<1>4. ASSUME NEW line \in Lines
      PROVE  Redrawn(line) \in Rows \cup {Unknown}
  BY <1>2, <1>3, BlankIsRow DEF Redrawn, EditorVarsOK, TerminalOK
<1>5. ASSUME NEW b, row # Unknown, b \in Shown
      PROVE  Write(row, <<b>>) \in Rows
  <2>1. <<b>> \in Seq(Glyphs)
    BY <1>5, EditorAssumption
  <2> QED  BY <1>5, <2>1, WriteIsRow DEF EditorVarsOK, TerminalOK
<1>6. \A onto \in Rows : Back(onto) \in Rows
  BY <1>1 DEF Back, Rows
<1>7. \A onto \in Rows : Write(onto, <<Space>>) \in Rows
  <2>1. <<Space>> \in Seq(Glyphs)
    BY <1>1
  <2> QED  BY <2>1, WriteIsRow
<1>8. Rubbed \in Rows \cup {Unknown}
  BY <1>6, <1>7 DEF Rubbed, EditorVarsOK, TerminalOK
<1> QED  BY <1>2, <1>4, <1>5, <1>8 DEF Echoed

\* Resetting the position (every key that edits the line does) with a line
\* that keeps within the limit.
LEMMA EditKeepsInv ==
  ASSUME EditorInv,
         NEW newBuf \in Lines, Len(newBuf) <= Limit,
         Edit(newBuf),
         TerminalOK'
  PROVE  EditorInv'
<1>1. << >> \in Lines /\ Len(<< >>) = 0
  BY EmptySeq DEF Lines
<1>2. Limit \in Nat
  BY EditorAssumption DEF Limit
<1>3. EditorVarsOK'
  BY <1>1 DEF EditorInv, EditorVarsOK, Edit, ResetBrowse, NotBrowsing
<1>4. BrowseInRange' /\ BrowseTracksLine'
  <2>1. browse' = 0 /\ Len(entries') \in Nat
    BY DEF EditorInv, EditorVarsOK, Edit, ResetBrowse, NotBrowsing
  <2> QED  BY <2>1 DEF BrowseInRange, BrowseTracksLine, NotBrowsing
<1>5. HistoryShape' /\ LineBound'
  BY <1>1, <1>2 DEF EditorInv, HistoryShape, LineBound, Edit, ResetBrowse, Limit, Blank
<1> QED  BY <1>3, <1>4, <1>5 DEF EditorInv

\* The keys that edit the line.
LEMMA EditingKeysKeepInv ==
  ASSUME EditorInv,
         \/ \E b \in Chars \cup High : StoreChar(b)
         \/ DropChar \/ Backspace \/ KillLine
  PROVE  EditorInv'
<1>1. /\ buf \in Lines /\ Len(buf) <= Limit
      /\ << >> \in Lines /\ Len(<< >>) = 0
      /\ Limit \in Nat /\ Len(buf) \in Nat
  BY EmptySeq, EditorAssumption
  DEF EditorInv, EditorVarsOK, LineBound, Limit, Lines
<1>2. TerminalOK'
  <2>1. /\ \A line \in Lines : Redrawn(line) \in Rows \cup {Unknown}
        /\ \A b : Echoed(b) \in Rows \cup {Unknown}
        /\ Rubbed \in Rows \cup {Unknown}
        /\ row \in Rows \cup {Unknown} /\ inStep \in BOOLEAN
    BY TerminalRows DEF EditorInv, EditorVarsOK, TerminalOK
  <2>2. UNCHANGED terminal \/ \E line :
          \E redrawn \in BOOLEAN, shown \in Rows \cup {Unknown} : Show(shown, redrawn, line)
    BY <1>1, <2>1 DEF StoreChar, DropChar, Backspace, KillLine
  <2> QED  BY <2>1, <2>2 DEF Show, terminal, Legible, AllShown, TerminalOK
<1>3. ASSUME NEW b \in Chars \cup High, StoreChar(b)
      PROVE  EditorInv'
  <2>1. Edit(buf \o Encoding(b)) /\ Len(buf) < LineMax
    BY <1>3 DEF StoreChar
  <2>2. /\ buf \o Encoding(b) \in Lines
        /\ Len(buf \o Encoding(b)) <= Limit
    BY <1>1, <2>1, StoredIsLine
  <2> QED  BY <1>2, <2>1, <2>2, EditKeepsInv
<1>4. CASE DropChar
  BY <1>1, <1>2, <1>4, EditKeepsInv DEF DropChar
<1>5. CASE Backspace
  <2>1. CASE buf = << >> /\ Edit(buf)
    BY <1>1, <1>2, <2>1, EditKeepsInv
  <2>2. CASE buf # << >> /\ Edit(Popped(buf))
    <3>1. Popped(buf) \in Lines /\ Len(Popped(buf)) <= Len(buf)
      BY <1>1, <2>2, PoppedIsLine
    <3>2. Len(Popped(buf)) \in Nat
      BY <3>1 DEF Lines
    <3>3. Len(Popped(buf)) <= Limit
      BY <1>1, <3>1, <3>2
    <3> QED  BY <1>2, <2>2, <3>1, <3>3, EditKeepsInv
  <2> QED  BY <1>5, <2>1, <2>2 DEF Backspace
<1>6. CASE KillLine
  <2>1. Edit(<< >>)
    BY <1>6 DEF KillLine
  <2> QED  BY <1>1, <1>2, <2>1, EditKeepsInv
<1> QED  BY <1>3, <1>4, <1>5, <1>6

\* The arrow keys: the entry they move to is the line they leave.
LEMMA ArrowKeysKeepInv ==
  ASSUME EditorInv, ArrowUp \/ ArrowDown
  PROVE  EditorInv'
<1>1. /\ entries \in Seq(Lines) /\ Len(entries) \in Nat
      /\ pending \in Lines /\ buf \in Lines
      /\ << >> \in Lines /\ Len(<< >>) = 0
      /\ Limit \in Nat
      /\ \A i \in 1 .. Len(entries) : entries[i] \in Lines
  BY EmptySeq, ElementOfSeq, EditorAssumption
  DEF EditorInv, EditorVarsOK, Limit, Lines
<1>2. entries' = entries /\ draft' = draft /\ phase' = phase /\ esc' = "none"
  BY DEF ArrowUp, ArrowDown, Replace, history
<1>3. phase = "reading" /\ phase' = "reading"
  BY <1>2 DEF ArrowUp, ArrowDown
<1>4. HistoryShape'
  BY <1>2 DEF EditorInv, HistoryShape, Blank
<1>5. ASSUME NEW line \in Lines, Replace(line)
       PROVE  TerminalOK'
  <2>1. Redrawn(line) \in Rows \cup {Unknown}
    BY TerminalRows DEF EditorInv
  <2> QED  BY <1>5, <2>1 DEF Replace, Show, Legible, AllShown, TerminalOK
<1>6. ASSUME NEW position \in 1 .. Len(entries),
             browse' = position,
             pending' \in {pending, buf},
             Replace(entries[position])
      PROVE  EditorInv'
  <2>1. EditorVarsOK'
    <3>1. TerminalOK'
      BY <1>1, <1>6, <1>5
    <3>2. buf' \in Lines /\ browse' \in Nat /\ pending' \in Lines
      BY <1>1, <1>6 DEF Replace
    <3> QED  BY <1>2, <3>1, <3>2 DEF EditorInv, EditorVarsOK
  <2>2. BrowseInRange' /\ BrowseTracksLine'
    BY <1>1, <1>2, <1>3, <1>6 DEF BrowseInRange, BrowseTracksLine, Replace
  <2>3. LineBound'
    BY <1>1, <1>2, <1>6 DEF EditorInv, LineBound, Replace, Limit
  <2> QED  BY <1>4, <2>1, <2>2, <2>3 DEF EditorInv
<1>7. ASSUME NEW line \in {<< >>, pending},
             browse' = NotBrowsing,
             pending' \in {pending, << >>},
             Replace(line)
      PROVE  EditorInv'
  <2>1. EditorVarsOK'
    BY <1>1, <1>2, <1>7, <1>5 DEF EditorInv, EditorVarsOK, Replace, NotBrowsing
  <2>2. BrowseInRange' /\ BrowseTracksLine'
    BY <1>1, <1>2, <1>7 DEF BrowseInRange, BrowseTracksLine, NotBrowsing
  <2>3. LineBound'
    BY <1>1, <1>2, <1>7 DEF EditorInv, LineBound, Replace, Limit
  <2> QED  BY <1>4, <2>1, <2>2, <2>3 DEF EditorInv
<1>8. UNCHANGED terminal => TerminalOK'
  BY DEF EditorInv, EditorVarsOK, terminal, TerminalOK
<1>9. CASE UNCHANGED <<history, buf, terminal, draft>>
  BY <1>2, <1>3, <1>9, <1>8
  DEF EditorInv, EditorVarsOK, BrowseInRange, HistoryShape, BrowseTracksLine,
      LineBound, Blank, Newest, history
<1>10. browse \in 0 .. Len(entries) /\ (entries # << >> => Len(entries) \in 1 .. Len(entries))
  BY <1>1, EmptySeq DEF EditorInv, BrowseInRange
<1>11. CASE ArrowUp
  <2>1. CASE entries # << >> /\ browse = NotBrowsing /\ pending' = buf
             /\ browse' = Len(entries) /\ Replace(Newest)
    BY <1>6, <1>10, <2>1 DEF Newest
  <2>2. CASE browse > 1 /\ browse' = browse - 1 /\ Replace(entries[browse - 1])
             /\ UNCHANGED pending
    <3>1. browse - 1 \in 1 .. Len(entries)
      BY <1>1, <1>10, <2>2
    <3> QED  BY <1>6, <2>2, <3>1
  <2> QED  BY <1>9, <1>11, <2>1, <2>2 DEF ArrowUp
<1>12. CASE ArrowDown
  <2>1. CASE browse = NotBrowsing /\ Replace(<< >>) /\ UNCHANGED <<browse, pending>>
    BY <1>7, <2>1
  <2>2. CASE browse # NotBrowsing /\ browse < Len(entries) /\ browse' = browse + 1
             /\ Replace(entries[browse + 1]) /\ UNCHANGED pending
    <3>1. browse + 1 \in 1 .. Len(entries)
      BY <1>1, <1>10, <2>2
    <3> QED  BY <1>6, <2>2, <3>1
  <2>3. CASE browse' = NotBrowsing /\ pending' = << >> /\ Replace(pending)
    BY <1>7, <2>3
  <2> QED  BY <1>12, <2>1, <2>2, <2>3 DEF ArrowDown
<1> QED  BY <1>11, <1>12

\* Recording the entered line.
LEMMA RecordKeepsInv ==
  ASSUME EditorInv, Record
  PROVE  EditorInv'
<1>1. /\ phase = "entered" /\ phase' = "idle"
      /\ buf' = buf /\ esc' = esc /\ draft' = draft
      /\ row' = row /\ inStep' = inStep
  BY DEF Record, terminal
<1>2. TerminalOK'
  BY <1>1 DEF EditorInv, EditorVarsOK, TerminalOK
<1>3. /\ entries \in Seq(Lines) /\ Len(entries) \in Nat
      /\ buf \in Lines /\ Len(buf) <= Limit
      /\ browse \in 0 .. Len(entries)
  BY DEF EditorInv, EditorVarsOK, BrowseInRange, LineBound, Limit
<1>4. CASE Blank(buf) /\ UNCHANGED history
  <2>1. browse # NotBrowsing => entries[browse] = Newest
    BY <1>1, <1>3, <1>4
    DEF EditorInv, BrowseTracksLine, HistoryShape, NotBrowsing
  <2> QED  BY <1>1, <1>4, <1>2, <2>1
    DEF EditorInv, EditorVarsOK, BrowseInRange, HistoryShape, BrowseTracksLine,
        LineBound, Blank, Newest, history
<1>5. CASE ~ Blank(buf) /\ Add(buf)
  <2>1. /\ entries' \in Seq(Lines)
        /\ HistoryShape'
        /\ \A i \in 1 .. Len(entries') : Len(entries'[i]) <= Limit
        /\ pending' = pending
        /\ \/ browse' = NotBrowsing
           \/ UNCHANGED history /\ entries # << >> /\ Newest = buf
    BY <1>3, <1>5, AddKeepsShape DEF EditorInv, LineBound, Limit
  <2>2. Len(entries') \in Nat
    BY <2>1
  <2>3. LineBound'
    BY <1>1, <1>3, <2>1 DEF EditorInv, LineBound, Limit
  <2>4. CASE browse' = NotBrowsing
    BY <1>1, <1>2, <2>1, <2>2, <2>3, <2>4
    DEF EditorInv, EditorVarsOK, BrowseInRange, BrowseTracksLine, NotBrowsing
  <2>5. CASE UNCHANGED history /\ entries # << >> /\ Newest = buf
    <3>1. browse # NotBrowsing => entries[browse] = Newest
      BY <1>1, <2>5 DEF EditorInv, BrowseTracksLine
    <3> QED  BY <1>1, <1>2, <2>1, <2>3, <2>5, <3>1
      DEF EditorInv, EditorVarsOK, BrowseInRange, BrowseTracksLine, Newest, history
  <2> QED  BY <2>1, <2>4, <2>5
<1> QED  BY <1>4, <1>5 DEF Record

\* The invariant holds at the start and every step keeps it.
LEMMA EditorInvInit == EditorInit => EditorInv
<1> SUFFICES ASSUME EditorInit PROVE EditorInv
  OBVIOUS
<1>1. << >> \in Lines /\ Len(<< >>) = 0 /\ << >> \in Seq(Lines) /\ LineMax \in Nat /\ Capacity \in Nat
  BY EmptySeq, EditorAssumption DEF Lines
<1>2. TerminalOK
  BY BlankIsRow DEF EditorInit, TerminalOK
<1> QED  BY <1>1, <1>2
  DEF EditorInit, EditorInv, EditorVarsOK, BrowseInRange, HistoryShape,
      BrowseTracksLine, LineBound, NotBrowsing

\* Every key and every step of the caller keeps the invariant.
LEMMA EditorInvNext == EditorInv /\ [EditorNext]_editorVars => EditorInv'
<1> SUFFICES ASSUME EditorInv, [EditorNext]_editorVars PROVE EditorInv'
  OBVIOUS
<1> USE DEF EditorInv, EditorVarsOK, BrowseInRange, HistoryShape,
            BrowseTracksLine, LineBound, Blank, Newest, history
<1>1. << >> \in Lines /\ Len(<< >>) = 0 /\ LineMax \in Nat
  BY EmptySeq, EditorAssumption DEF Lines
<1>2. ASSUME NEW outcome, Finish(outcome)
       PROVE  TerminalOK'
  BY <1>2, BlankIsRow DEF Finish, Show, Legible, AllShown, TerminalOK
<1>3. Prompt => TerminalOK'
  <2> SUFFICES ASSUME NEW n \in OutputEnds,
                      row' = Drawn(Write(BlankRow, [i \in 1 .. n |-> Output]), << >>),
                      inStep' = (n = 0 /\ Legible(<< >>))
               PROVE  TerminalOK'
    BY DEF Prompt
  <2>1. [i \in 1 .. n |-> Output] \in Seq(Glyphs)
    <3>1. n \in Nat /\ Output \in Glyphs
      BY EditorAssumption, TerminalAssumption
    <3> QED  BY <3>1, SeqDef
  <2>2. Write(BlankRow, [i \in 1 .. n |-> Output]) \in Rows
    BY <2>1, BlankIsRow, WriteIsRow
  <2> QED  BY <1>1, <2>2, TerminalRows DEF Legible, AllShown, TerminalOK
<1>4. UNCHANGED terminal => TerminalOK'
  BY DEF terminal, TerminalOK
<1>5. CASE Escape
  BY <1>5, <1>4 DEF Escape, Reading
<1>6. CASE EscapeBracket
  BY <1>6, <1>4 DEF EscapeBracket
<1>7. CASE EscapeOther
  BY <1>7, <1>4 DEF EscapeOther
<1>8. CASE Enter
  BY <1>1, <1>8, <1>2 DEF Enter, Finish, Reading
<1>9. CASE EndOfInput
  BY <1>1, <1>9, <1>2 DEF EndOfInput, Finish, Reading
<1>10. CASE CtrlD
  BY <1>1, <1>10, <1>2 DEF CtrlD, Finish, Reading
<1>11. CASE Prompt
  <2>1. /\ UNCHANGED <<history, esc>> /\ phase' = "reading" /\ TerminalOK'
        /\ phase = "idle" /\ buf' = << >> /\ draft' = << >>
    BY <1>11, <1>3 DEF Prompt
  <2> QED  BY <1>1, <2>1
<1>12. CASE UNCHANGED editorVars
  BY <1>12, <1>4 DEF editorVars
<1>13. CASE (\E b \in Chars \cup High : StoreChar(b)) \/ DropChar \/ Backspace \/ KillLine
  BY <1>13, EditingKeysKeepInv
<1>14. CASE ArrowUp \/ ArrowDown
  BY <1>14, ArrowKeysKeepInv
<1>15. CASE Record
  BY <1>15, RecordKeepsInv
<1> QED
  BY <1>5, <1>6, <1>7, <1>8, <1>9, <1>10, <1>11, <1>12, <1>13, <1>14, <1>15
  DEF EditorNext, Key

\* Every behaviour of the line editor keeps the invariant.
THEOREM EditorInvariance == EditorSpec => []EditorInv
<1>1. EditorInit => EditorInv
  BY EditorInvInit
<1>2. EditorInv /\ [EditorNext]_editorVars => EditorInv'
  BY EditorInvNext
<1> QED  BY <1>1, <1>2, PTL DEF EditorSpec

\* Type correctness: what the editor keeps is what its declarations say.
THEOREM EditorTypeCorrect == EditorSpec => []EditorTypeOK
<1>1. EditorInv => EditorTypeOK
  BY EditorAssumption
  DEF EditorInv, EditorVarsOK, EditorTypeOK, BrowseInRange, HistoryShape, TerminalOK
<1> QED  BY <1>1, EditorInvariance, PTL

\* navigate_up and navigate_down never index outside the entries, whatever
\* was typed, recorded and evicted since the position was taken.
THEOREM BrowsePositionValid == EditorSpec => []BrowseInRange
<1>1. EditorInv => BrowseInRange
  BY DEF EditorInv
<1> QED  BY <1>1, EditorInvariance, PTL

\* The history is bounded, has no blank line and no repeated neighbours.
THEOREM HistoryKeepsShape == EditorSpec => []HistoryShape
<1>1. EditorInv => HistoryShape
  BY DEF EditorInv
<1> QED  BY <1>1, EditorInvariance, PTL

\* The browsed entry is the line being edited, or the line is still empty and
\* the position left over from an earlier line holds the newest text.
THEOREM BrowsedEntryIsLine == EditorSpec => []BrowseTracksLine
<1>1. EditorInv => BrowseTracksLine
  BY DEF EditorInv
<1> QED  BY <1>1, EditorInvariance, PTL

\* No line grows beyond the limit, by whatever path it was put together.
THEOREM LinesBounded == EditorSpec => []LineBound
<1>1. EditorInv => LineBound
  BY DEF EditorInv
<1> QED  BY <1>1, EditorInvariance, PTL

\* The row that shows the prompt and a line, and nothing else.
RowOf(line) ==
  [cells |-> [i \in 1 .. Width |->
                IF i <= Len(PromptText \o line) THEN (PromptText \o line)[i] ELSE Space],
   at |-> Len(PromptText \o line)]

RowInv == phase = "reading" /\ inStep => Legible(buf) /\ row = RowOf(buf)

\* A prompt and a line that leave a column have the lengths and characters one
\* expects of them.
LEMMA PromptAndLine ==
  ASSUME NEW line \in Lines, Legible(line)
  PROVE  /\ Len(PromptText) \in Nat /\ Len(line) \in Nat
         /\ PromptText \o line \in Seq(Glyphs \cup Bytes)
         /\ Len(PromptText \o line) = Len(PromptText) + Len(line)
         /\ Len(PromptText \o line) < Width
         /\ \A i \in 1 .. Len(PromptText) : (PromptText \o line)[i] = PromptText[i]
         /\ \A i \in 1 .. Len(line) : (PromptText \o line)[Len(PromptText) + i] = line[i]
<1>1. PromptText \in Seq(Glyphs) /\ line \in Seq(Bytes)
  BY EditorAssumption DEF Lines
<1>2. PromptText \in Seq(Glyphs \cup Bytes) /\ line \in Seq(Glyphs \cup Bytes)
  BY <1>1
<1> QED  BY <1>1, <1>2, ConcatProperties DEF Legible

\* A row that was cleared from its start is blank.
LEMMA ClearedIsBlank ==
  ASSUME NEW onto \in Rows
  PROVE  ClearToEnd(Return(onto)) = BlankRow
  BY TerminalAssumption DEF ClearToEnd, Return, BlankRow, Rows

\* Prompt and line, drawn on a blank row, are what it shows.
LEMMA DrawnIsRow ==
  ASSUME NEW line \in Lines, Legible(line)
  PROVE  Drawn(BlankRow, line) = RowOf(line)
<1> DEFINE text == PromptText \o line
<1>1. Len(text) \in Nat /\ Len(text) < Width
  BY PromptAndLine
<1>2. Width \in Nat
  BY TerminalAssumption
<1> HIDE DEF text
<1>3. BlankRow.at = 0 /\ \A i \in 1 .. Width : BlankRow.cells[i] = Space
  BY DEF BlankRow
<1>4. Write(BlankRow, text) =
        [cells |-> [i \in 1 .. Width |-> IF i <= Len(text) THEN text[i] ELSE Space], at |-> Len(text)]
  BY <1>1, <1>2, <1>3 DEF Write
<1> QED  BY <1>4 DEF Drawn, RowOf, Legible, text

\* One character, before the last column.
LEMMA WrittenCharacter ==
  ASSUME NEW onto, NEW c, NEW n \in Nat, onto.at = n, n + 1 < Width
  PROVE  Write(onto, <<c>>) =
           [cells |-> [i \in 1 .. Width |-> IF i = n + 1 THEN c ELSE onto.cells[i]], at |-> n + 1]
<1> DEFINE text == <<c>>
           cell(i) == IF i \in n + 1 .. n + 1 THEN text[i - n] ELSE onto.cells[i]
<1>1. Len(text) = 1 /\ text[1] = c /\ Width \in Nat
  BY TerminalAssumption
<1> HIDE DEF text
<1>2. Write(onto, text) = [cells |-> [i \in 1 .. Width |-> cell(i)], at |-> n + 1]
  BY <1>1 DEF Write
<1>3. ASSUME NEW i \in 1 .. Width
      PROVE  cell(i) = IF i = n + 1 THEN c ELSE onto.cells[i]
  BY <1>1
<1> QED  BY <1>2, <1>3 DEF text

\* An echoed byte stands behind the line, if it leaves a column.
LEMMA EchoedIsRow ==
  ASSUME NEW line \in Lines, Legible(line), NEW b \in Shown, Legible(line \o <<b>>)
  PROVE  Write(RowOf(line), <<b>>) = RowOf(line \o <<b>>)
<1> DEFINE text == PromptText \o line
           longer == PromptText \o (line \o <<b>>)
<1>1. line \o <<b>> \in Lines /\ Len(line \o <<b>>) = Len(line) + 1
      /\ (line \o <<b>>)[Len(line) + 1] = b
      /\ \A i \in 1 .. Len(line) : (line \o <<b>>)[i] = line[i]
  <2>1. line \in Seq(Bytes) /\ <<b>> \in Seq(Bytes) /\ Len(<<b>>) = 1 /\ <<b>>[1] = b
    BY EditorAssumption DEF Bytes, Lines
  <2> QED  BY <2>1, ConcatProperties DEF Lines
<1>2. /\ Len(PromptText) \in Nat /\ Len(line) \in Nat /\ Width \in Nat
      /\ Len(text) = Len(PromptText) + Len(line)
      /\ \A i \in 1 .. Len(PromptText) : text[i] = PromptText[i]
      /\ \A i \in 1 .. Len(line) : text[Len(PromptText) + i] = line[i]
  BY PromptAndLine, TerminalAssumption
<1>3. /\ Len(longer) = Len(PromptText) + Len(line \o <<b>>)
      /\ Len(longer) < Width
      /\ \A i \in 1 .. Len(PromptText) : longer[i] = PromptText[i]
      /\ \A i \in 1 .. Len(line \o <<b>>) : longer[Len(PromptText) + i] = (line \o <<b>>)[i]
  BY <1>1, PromptAndLine
<1> HIDE DEF text, longer
<1>4. Len(longer) = Len(text) + 1 /\ Len(text) \in Nat
  BY <1>1, <1>2, <1>3
<1>5. longer[Len(text) + 1] = b
  <2>1. Len(text) + 1 = Len(PromptText) + (Len(line) + 1)
        /\ Len(line) + 1 \in 1 .. Len(line \o <<b>>)
    BY <1>1, <1>2
  <2> QED  BY <1>1, <1>3, <2>1
<1>6. ASSUME NEW i \in 1 .. Len(text)
      PROVE  longer[i] = text[i]
  <2>1. CASE i <= Len(PromptText)
    BY <1>2, <1>3, <2>1
  <2>2. CASE ~ (i <= Len(PromptText))
    <3>1. i - Len(PromptText) \in 1 .. Len(line)
          /\ i = Len(PromptText) + (i - Len(PromptText))
      BY <1>2, <2>2
    <3>2. i - Len(PromptText) \in 1 .. Len(line \o <<b>>)
      BY <1>1, <1>2, <3>1
    <3> DEFINE k == i - Len(PromptText)
    <3>3. longer[Len(PromptText) + k] = (line \o <<b>>)[k] /\ (line \o <<b>>)[k] = line[k]
      BY <1>1, <1>3, <3>1, <3>2
    <3>4. text[Len(PromptText) + k] = line[k]
      BY <1>2, <3>1
    <3>5. Len(PromptText) + k = i
      BY <3>1
    <3> HIDE DEF k
    <3> QED  BY <3>3, <3>4, <3>5
  <2> QED  BY <2>1, <2>2
<1>7. RowOf(line).at = Len(text)
      /\ \A i \in 1 .. Width : RowOf(line).cells[i] = IF i <= Len(text) THEN text[i] ELSE Space
  BY DEF RowOf, text
<1>8. <<b>>[1] = b /\ Len(<<b>>) = 1
  OBVIOUS
<1>9. Write(RowOf(line), <<b>>) =
        [cells |-> [i \in 1 .. Width |-> IF i = Len(text) + 1 THEN b
                                          ELSE IF i <= Len(text) THEN text[i] ELSE Space],
         at |-> Len(text) + 1]
  <2>1. ASSUME NEW onto, Len(text) + 1 < Width, onto.at = Len(text)
        PROVE  Write(onto, <<b>>) =
                 [cells |-> [i \in 1 .. Width |->
                     IF i = Len(text) + 1 THEN b ELSE onto.cells[i]], at |-> Len(text) + 1]
    BY <2>1, <1>2, <1>4, WrittenCharacter
  <2>2. Write(RowOf(line), <<b>>) =
          [cells |-> [i \in 1 .. Width |->
              IF i = Len(text) + 1 THEN b ELSE RowOf(line).cells[i]], at |-> Len(text) + 1]
    BY <1>3, <1>4, <1>7, <2>1
  <2> QED  BY <1>7, <2>2
<1>10. ASSUME NEW i \in 1 .. Width
       PROVE  (IF i = Len(text) + 1 THEN b ELSE IF i <= Len(text) THEN text[i] ELSE Space)
              = IF i <= Len(longer) THEN longer[i] ELSE Space
  <2>1. i \in Nat /\ 1 <= i /\ Len(text) \in Nat
    BY <1>2, <1>4
  <2>2. CASE i <= Len(text)
    <3>1. longer[i] = text[i]
      BY <1>6, <2>1, <2>2
    <3> QED  BY <1>4, <2>1, <2>2, <3>1
  <2>3. CASE i = Len(text) + 1
    BY <1>4, <1>5, <2>1, <2>3
  <2>4. CASE i > Len(text) + 1
    BY <1>4, <2>1, <2>4
  <2> QED  BY <2>1, <2>2, <2>3, <2>4
<1> QED  BY <1>4, <1>9, <1>10 DEF RowOf, longer

\* "\b \b" takes the last byte of the line off the row.
LEMMA RubbedIsRow ==
  ASSUME NEW line \in Lines, Legible(line), line # << >>
  PROVE  /\ Popped(line) \in Lines /\ Legible(Popped(line))
         /\ Back(Write(Back(RowOf(line)), <<Space>>)) = RowOf(Popped(line))
<1> DEFINE shorter == SubSeq(line, 1, Len(line) - 1)
           text == PromptText \o line
           left == PromptText \o shorter
<1>1. Len(line) \in Nat \ {0}
  BY EmptySeq DEF Lines
<1>2. Popped(line) = shorter
  <2>1. line[Len(line)] \in Shown
    BY <1>1 DEF Legible, AllShown
  <2> QED  BY <2>1, EditorAssumption DEF Popped
<1>3. shorter \in Lines
  BY <1>2, PoppedIsLine
<1>4. Len(shorter) = Len(line) - 1 /\ \A i \in 1 .. Len(shorter) : shorter[i] = line[i]
  <2>1. \A i \in 1 .. Len(line) - 1 : line[i] \in Bytes
    BY <1>1, ElementOfSeq DEF Lines
  <2>2. /\ Len(shorter) = IF 1 <= Len(line) - 1 THEN Len(line) - 1 - 1 + 1 ELSE 0
        /\ \A i \in 1 .. Len(line) - 1 - 1 + 1 : shorter[i] = line[1 + i - 1]
    BY <1>1, <2>1, SubSeqProperties
  <2> HIDE DEF shorter
  <2>3. Len(shorter) = Len(line) - 1
    <3>1. Len(shorter) = IF 1 <= Len(line) - 1 THEN Len(line) - 1 - 1 + 1 ELSE 0
      BY <2>2
    <3>2. CASE 1 <= Len(line) - 1
      BY <1>1, <3>1, <3>2
    <3>3. CASE ~ (1 <= Len(line) - 1)
      BY <1>1, <3>1, <3>3
    <3> QED  BY <3>2, <3>3
  <2>4. ASSUME NEW i \in 1 .. Len(shorter)
        PROVE  shorter[i] = line[i]
    <3>1. 1 + i - 1 = i /\ i \in 1 .. Len(line) - 1 - 1 + 1
      BY <1>1, <2>3
    <3> QED  BY <2>2, <3>1
  <2> QED  BY <2>3, <2>4
<1> HIDE DEF shorter
<1>5. /\ Len(PromptText) \in Nat /\ Width \in Nat /\ Width >= 2
      /\ Len(text) = Len(PromptText) + Len(line) /\ Len(text) < Width
      /\ \A i \in 1 .. Len(PromptText) : text[i] = PromptText[i]
      /\ \A i \in 1 .. Len(line) : text[Len(PromptText) + i] = line[i]
  BY PromptAndLine, TerminalAssumption
<1>6. Legible(shorter)
  BY <1>1, <1>4, <1>5 DEF Legible, AllShown
<1>7. /\ Len(left) = Len(PromptText) + Len(shorter)
      /\ \A i \in 1 .. Len(PromptText) : left[i] = PromptText[i]
      /\ \A i \in 1 .. Len(shorter) : left[Len(PromptText) + i] = shorter[i]
  BY <1>3, <1>6, PromptAndLine
<1> HIDE DEF text, left
<1>8. Len(left) \in Nat /\ Len(text) = Len(left) + 1
  BY <1>1, <1>4, <1>5, <1>7
<1>9. ASSUME NEW i \in 1 .. Len(left)
      PROVE  left[i] = text[i]
  <2>1. CASE i <= Len(PromptText)
    BY <1>5, <1>7, <2>1
  <2>2. CASE ~ (i <= Len(PromptText))
    <3>1. i - Len(PromptText) \in 1 .. Len(shorter)
          /\ i = Len(PromptText) + (i - Len(PromptText))
      BY <1>1, <1>4, <1>5, <1>7, <2>2
    <3>2. i - Len(PromptText) \in 1 .. Len(line)
      BY <1>1, <1>4, <3>1
    <3> DEFINE k == i - Len(PromptText)
    <3>3. left[Len(PromptText) + k] = shorter[k] /\ shorter[k] = line[k]
      BY <1>4, <1>7, <3>1
    <3>4. text[Len(PromptText) + k] = line[k]
      BY <1>5, <3>2
    <3>5. Len(PromptText) + k = i
      BY <3>1
    <3> HIDE DEF k
    <3> QED  BY <3>3, <3>4, <3>5
  <2> QED  BY <2>1, <2>2
<1> DEFINE cells == [i \in 1 .. Width |-> IF i <= Len(text) THEN text[i] ELSE Space]
           blanked == [i \in 1 .. Width |-> IF i = Len(left) + 1 THEN Space ELSE cells[i]]
<1>10. RowOf(line) = [cells |-> cells, at |-> Len(text)]
  BY DEF RowOf, text
<1>11. Back(RowOf(line)) = [cells |-> cells, at |-> Len(left)]
  <2> HIDE DEF cells
  <2> QED  BY <1>5, <1>8, <1>10 DEF Back
<1>12. Write([cells |-> cells, at |-> Len(left)], <<Space>>) = [cells |-> blanked, at |-> Len(left) + 1]
  <2> DEFINE onto == [cells |-> cells, at |-> Len(left)]
  <2>1. onto.at = Len(left) /\ onto.cells = cells
    OBVIOUS
  <2> HIDE DEF onto, cells
  <2>2. Write(onto, <<Space>>) =
          [cells |-> [i \in 1 .. Width |-> IF i = Len(left) + 1 THEN Space ELSE onto.cells[i]],
           at |-> Len(left) + 1]
    BY <1>5, <1>8, <2>1, WrittenCharacter
  <2> QED  BY <2>1, <2>2 DEF onto
<1>13. Back([cells |-> blanked, at |-> Len(left) + 1]) = [cells |-> blanked, at |-> Len(left)]
  <2> HIDE DEF blanked
  <2> QED  BY <1>5, <1>8 DEF Back
<1>14. blanked = [i \in 1 .. Width |-> IF i <= Len(left) THEN left[i] ELSE Space]
  <2>1. ASSUME NEW i \in 1 .. Width
        PROVE  blanked[i] = IF i <= Len(left) THEN left[i] ELSE Space
    BY <1>5, <1>8, <1>9
  <2> QED  BY <2>1
<1>15. RowOf(shorter) = [cells |-> blanked, at |-> Len(left)]
  <2> HIDE DEF blanked
  <2> QED  BY <1>14 DEF RowOf, left
<1> HIDE DEF cells, blanked
<1> QED  BY <1>2, <1>3, <1>6, <1>11, <1>12, <1>13, <1>15

\* The row that shows a legible line is known.
LEMMA LegibleRowKnown ==
  ASSUME NEW line \in Lines, Legible(line)
  PROVE  RowOf(line) # Unknown
<1>1. AllShown(line) /\ RowOf(line) = Write(BlankRow, PromptText \o line)
  BY DrawnIsRow DEF Legible, Drawn
<1>2. PromptText \in Seq(Glyphs)
  BY EditorAssumption
<1>3. line \in Seq(Glyphs)
  BY <1>1, EditorAssumption DEF AllShown, Lines
<1>4. PromptText \o line \in Seq(Glyphs)
  BY <1>2, <1>3, ConcatProperties
<1> QED  BY <1>1, <1>4, BlankIsRow, WriteIsRow, EditorAssumption

\* As long as every byte since the line was drawn has had a column, the row of
\* the cursor shows the prompt and the line that Enter submits.
THEOREM ScreenIsLine == EditorSpec => []ScreenShowsLine
<1>1. EditorInit => RowInv
  BY DEF EditorInit, RowInv
<1>2. EditorVarsOK /\ EditorVarsOK' /\ RowInv /\ [EditorNext]_editorVars => RowInv'
  <2> SUFFICES ASSUME EditorVarsOK, EditorVarsOK', RowInv, [EditorNext]_editorVars,
                      phase' = "reading", inStep'
               PROVE  Legible(buf') /\ row' = RowOf(buf')
    BY DEF RowInv
  <2>1. /\ buf \in Lines /\ buf' \in Lines /\ << >> \in Lines
        /\ row \in Rows \cup {Unknown} /\ Unknown \notin Rows
    BY EmptySeq, EditorAssumption DEF EditorVarsOK, TerminalOK, Lines
  <2>2. ASSUME NEW line \in Lines, Show(Redrawn(line), TRUE, line), buf' = line
        PROVE  Legible(buf') /\ row' = RowOf(buf')
    <3>1. Legible(line)
      BY <2>2 DEF Show
    <3>2. Redrawn(line) = Drawn(BlankRow, line)
      BY <2>1, ClearedIsBlank DEF Redrawn
    <3> QED  BY <2>2, <3>1, <3>2, DrawnIsRow DEF Show
  <2>3. CASE UNCHANGED <<phase, buf, terminal>>
    BY <2>3 DEF RowInv, terminal
  <2>4. ASSUME NEW b \in Chars \cup High, StoreChar(b)
        PROVE  Legible(buf') /\ row' = RowOf(buf')
    <3>1. /\ phase = "reading" /\ buf' = buf \o Encoding(b)
          /\ row' = Echoed(b) /\ inStep /\ Legible(buf')
      BY <2>4 DEF StoreChar, Reading, Edit, Show
    <3>2. Legible(buf) /\ row = RowOf(buf)
      BY <3>1 DEF RowInv
    <3>3. b \in Shown
      <4>1. Encoding(b) \in Seq(Bytes) /\ Len(Encoding(b)) \in Nat \ {0}
            /\ Encoding(b)[Len(Encoding(b))] = b
        <5>1. Len(<<b>>) = 1 /\ <<b>>[1] = b /\ Len(<<Lead, b>>) = 2 /\ <<Lead, b>>[2] = b
          OBVIOUS
        <5>2. <<b>> \in Seq(Bytes) /\ <<Lead, b>> \in Seq(Bytes)
          BY DEF Bytes
        <5> QED  BY <5>1, <5>2 DEF Encoding
      <4>2. buf \in Seq(Bytes)
        BY <2>1 DEF Lines
      <4>3. Len(buf') = Len(buf) + Len(Encoding(b)) /\ buf'[Len(buf')] = b
        BY <3>1, <4>1, <4>2, ConcatProperties
      <4>4. Len(buf') \in 1 .. Len(buf')
        BY <4>1, <4>2, <4>3
      <4> QED  BY <3>1, <4>3, <4>4 DEF Legible, AllShown
    <3>4. Encoding(b) = <<b>>
      BY <3>3, EditorAssumption DEF Encoding
    <3>5. row # Unknown
      BY <2>1, <3>2, LegibleRowKnown
    <3>6. row' = Write(RowOf(buf), <<b>>)
      BY <3>1, <3>2, <3>3, <3>5 DEF Echoed
    <3> QED  BY <2>1, <3>1, <3>2, <3>3, <3>4, <3>6, EchoedIsRow
  <2>5. CASE DropChar
    BY <2>3, <2>5 DEF DropChar, Edit
  <2>6. CASE Backspace
    <3>1. CASE UNCHANGED terminal /\ Edit(buf)
      BY <2>3, <3>1 DEF Edit
    <3>2. CASE buf # << >> /\ Edit(Popped(buf)) /\ Show(Rubbed, FALSE, buf')
      <4>1. /\ phase = "reading" /\ inStep /\ buf' = Popped(buf) /\ row' = Rubbed
        BY <2>6, <3>2 DEF Backspace, Reading, Edit, Show
      <4>2. Legible(buf) /\ row = RowOf(buf)
        BY <4>1 DEF RowInv
      <4>3. row # Unknown
        BY <2>1, <4>2, LegibleRowKnown
      <4>4. Rubbed = Back(Write(Back(RowOf(buf)), <<Space>>))
        BY <4>2, <4>3 DEF Rubbed
      <4> QED  BY <2>1, <3>2, <4>1, <4>2, <4>4, RubbedIsRow
    <3> QED  BY <2>6, <3>1, <3>2 DEF Backspace
  <2>7. CASE KillLine
    <3>1. CASE UNCHANGED terminal /\ buf = << >>
      BY <2>3, <2>7, <3>1 DEF KillLine, Edit
    <3>2. CASE Show(Redrawn(<< >>), TRUE, << >>)
      BY <2>1, <2>2, <2>7, <3>2 DEF KillLine, Edit
    <3> QED  BY <2>7, <3>1, <3>2 DEF KillLine
  <2>8. CASE Escape \/ EscapeBracket \/ EscapeOther
    BY <2>3, <2>8 DEF Escape, EscapeBracket, EscapeOther
  <2>9. CASE ArrowUp \/ ArrowDown
    <3>1. ASSUME NEW line, Replace(line)
          PROVE  Legible(buf') /\ row' = RowOf(buf')
      BY <2>1, <2>2, <3>1 DEF Replace
    <3> QED  BY <2>3, <2>9, <3>1 DEF ArrowUp, ArrowDown
  <2>10. CASE Prompt
    <3>1. PICK n \in OutputEnds :
            /\ row' = Drawn(Write(BlankRow, [i \in 1 .. n |-> Output]), << >>)
            /\ inStep' = (n = 0 /\ Legible(<< >>))
      BY <2>10 DEF Prompt
    <3>2. n = 0 /\ Legible(<< >>) /\ buf' = << >>
      BY <2>10, <3>1 DEF Prompt
    <3>3. Write(BlankRow, [i \in 1 .. n |-> Output]) = BlankRow
      <4>1. Len([i \in 1 .. n |-> Output]) = 0
        BY <3>2
      <4>2. Width \in Nat /\ BlankRow.at = 0
        BY TerminalAssumption DEF BlankRow
      <4>3. Write(BlankRow, [i \in 1 .. n |-> Output]) =
              [cells |-> [i \in 1 .. Width |-> BlankRow.cells[i]], at |-> 0]
        <5> DEFINE text == [i \in 1 .. n |-> Output]
        <5> HIDE DEF text
        <5>1. Len(text) = 0
          BY <4>1 DEF text
        <5>2. Write(BlankRow, text) =
                [cells |-> [i \in 1 .. Width |-> BlankRow.cells[i]], at |-> 0]
          BY <4>2, <5>1 DEF Write
        <5> QED  BY <5>2 DEF text
      <4> QED  BY <4>3 DEF BlankRow
    <3> QED  BY <2>1, <3>1, <3>2, <3>3, DrawnIsRow
  <2>11. CASE Enter \/ CtrlD \/ EndOfInput \/ Record
    BY <2>11 DEF Enter, CtrlD, EndOfInput, Finish, Record, Reading
  <2>12. CASE UNCHANGED editorVars
    BY <2>3, <2>12 DEF editorVars
  <2> QED
    BY <2>4, <2>5, <2>6, <2>7, <2>8, <2>9, <2>10, <2>11, <2>12 DEF EditorNext, Key
<1>3. EditorInv => EditorVarsOK
  BY DEF EditorInv
<1>4. RowInv => ScreenShowsLine
  BY TerminalAssumption DEF RowInv, RowOf, ScreenShowsLine
<1> QED  BY <1>1, <1>2, <1>3, <1>4, EditorInvariance, PTL DEF EditorSpec

\* The history is the queue of BoundedQueue: only recording changes it, one
\* line at most per line entered, and eviction takes the oldest.
THEOREM HistoryIsBoundedQueue == EditorSpec => HistoryIsQueue
<1> USE DEF Queue!queueVars
<1>1. EditorInit => Queue!QueueInit
  BY DEF EditorInit, Queue!QueueInit
<1>2. EditorInv /\ [EditorNext]_editorVars => [Queue!QueueNext]_(Queue!queueVars)
  <2> SUFFICES ASSUME EditorInv, [EditorNext]_editorVars
               PROVE  Queue!QueueNext \/ UNCHANGED Queue!queueVars
    OBVIOUS
  <2>1. entries \in Seq(Lines) /\ buf \in Lines
    BY DEF EditorInv, EditorVarsOK
  <2>2. CASE UNCHANGED entries
    BY <2>2 DEF Queue!QueueNext, Queue!Wait
  <2>3. CASE Record /\ Add(buf)
    <3> DEFINE kept == IF Len(entries) >= Capacity THEN Tail(entries) ELSE entries
    <3>1. phase = "entered" /\ phase' = "idle"
      BY <2>3 DEF Record
    <3>2. CASE UNCHANGED history
      BY <2>2, <3>2 DEF history
    <3>3. CASE entries' = Append(kept, buf)
      <4>1. kept \in Seq(Lines)
        BY <2>1, EmptySeq, EditorAssumption
      <4>2. entries' # << >> /\ entries'[Len(entries')] = buf
        BY <2>1, <3>3, <4>1, AppendProperties
      <4> QED  BY <3>1, <3>3, <4>2 DEF Queue!QueueNext, Queue!Push, Queue!Kept
    <3> QED  BY <2>3, <3>2, <3>3 DEF Add
  <2>4. Record => UNCHANGED entries \/ Add(buf)
    BY DEF Record, history
  <2>5. EditorNext /\ ~ Record => UNCHANGED entries
    BY DEF EditorNext, Key, StoreChar, DropChar, Backspace, KillLine, Edit, ResetBrowse,
           Escape, EscapeBracket, EscapeOther, ArrowUp, ArrowDown, Replace, Enter,
           CtrlD, EndOfInput, Finish, Prompt, history
  <2> QED  BY <2>2, <2>3, <2>4, <2>5 DEF editorVars
<1> QED  BY <1>1, <1>2, EditorInvariance, PTL
  DEF EditorSpec, HistoryIsQueue, Queue!QueueSpec

=============================================================================
