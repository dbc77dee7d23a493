---------------------------- MODULE FlatShellProofs ----------------------------
(***************************************************************************)
(* Proofs about the flat shell: for every size of the line buffer, of the   *)
(* history and of the table of words, the slots of the history stay          *)
(* terminated and are a queue, the newest of them is the line that was read,  *)
(* and no write leaves its array.                                             *)
(***************************************************************************)
EXTENDS FlatShell, FiniteSetTheorems, SequenceTheorems, WellFoundedInduction, TLAPS

-----------------------------------------------------------------------------
(* Places in the history. *)

\* The sizes, from the assumption.
LEMMA Sizes ==
  /\ LINE_CAPACITY \in Nat /\ LINE_CAPACITY >= 2 /\ HISTORY_STRIDE = LINE_CAPACITY
  /\ HISTORY_SLOTS \in Nat /\ HISTORY_SLOTS >= 1
  /\ ARGV_CAPACITY \in Nat /\ ARGV_CAPACITY >= 1
<1>1. /\ LINE_CAPACITY \in Nat /\ LINE_CAPACITY >= 2
      /\ HISTORY_SLOTS \in Nat \ {0} /\ ARGV_CAPACITY \in Nat \ {0}
  BY FlatAssumption, Zenon
<1> QED  BY <1>1 DEF HISTORY_STRIDE

\* Multiplication keeps the order.
LEMMA ProductOrder ==
  ASSUME NEW a \in Nat, NEW b \in Nat, NEW c \in Nat, a <= b
  PROVE  a * c <= b * c /\ a * c \in Nat
BY Z3

\* One slot follows the other.
LEMMA NextSlot ==
  ASSUME NEW i \in Nat, i >= 1
  PROVE  Slot(i) \in Nat /\ Slot(i + 1) = Slot(i) + LINE_CAPACITY
<1> DEFINE c == HISTORY_STRIDE
<1>1. c \in Nat /\ c = LINE_CAPACITY
  BY Sizes
<1> HIDE DEF c
<1>2. (i - 1) * c \in Nat
  BY <1>1, Z3
<1>3. ((i + 1) - 1) * c = (i - 1) * c + c
  BY <1>1, Z3
<1> QED  BY <1>1, <1>2, <1>3 DEF Slot, c

\* A later slot begins behind the end of an earlier one.
LEMMA SlotOrder ==
  ASSUME NEW i \in Nat, i >= 1, NEW j \in Nat, i < j
  PROVE  Slot(i) + LINE_CAPACITY <= Slot(j) /\ Slot(i) \in Nat /\ Slot(j) \in Nat
<1> DEFINE c == HISTORY_STRIDE
<1>1. c \in Nat
  BY Sizes
<1> HIDE DEF c
<1>2. i * c <= (j - 1) * c
  <2>1. i \in Nat /\ j - 1 \in Nat /\ i <= j - 1
    OBVIOUS
  <2> QED  BY <1>1, <2>1, ProductOrder
<1>3. Slot(i + 1) = i * c /\ Slot(j) = (j - 1) * c
  <2>1. (i + 1) - 1 = i
    OBVIOUS
  <2> QED  BY <2>1 DEF Slot, c
<1> QED  BY <1>2, <1>3, NextSlot

\* The history ends with its last slot.
LEMMA HistoryEnd == HISTORY_SLOTS * HISTORY_STRIDE = Slot(HISTORY_SLOTS + 1)
<1>1. (HISTORY_SLOTS + 1) - 1 = HISTORY_SLOTS
  BY Sizes
<1> QED  BY <1>1 DEF Slot

\* The cells of the slots are cells of the history.
LEMMA SlotCells ==
  ASSUME NEW i \in 1 .. HISTORY_SLOTS, NEW n \in LineCells
  PROVE  Slot(i) + n \in HistoryCells /\ Slot(i) \in Nat /\ n \in Nat
<1>1. i \in Nat /\ i >= 1 /\ HISTORY_SLOTS + 1 \in Nat /\ i < HISTORY_SLOTS + 1
  BY Sizes
<1>2. Slot(i) + LINE_CAPACITY <= Slot(HISTORY_SLOTS + 1) /\ Slot(i) \in Nat
      /\ Slot(HISTORY_SLOTS + 1) \in Nat
  BY <1>1, SlotOrder
<1>3. n \in Nat /\ n < LINE_CAPACITY
  BY Sizes DEF LineCells
<1> QED  BY <1>2, <1>3, HistoryEnd, Sizes DEF HistoryCells

-----------------------------------------------------------------------------
(* Text. *)

\* A text of some size that starts at an address.
TextOf(mem, base, size) ==
  /\ size \in 0 .. LINE_CAPACITY
  /\ \A n \in 0 .. size - 1 : mem[base + n] # NUL
  /\ size < LINE_CAPACITY => mem[base + size] = NUL

\* A set of natural numbers has a smallest one.
LEMMA Smallest ==
  ASSUME NEW T, T \subseteq Nat, T # {}
  PROVE  \E x \in T : \A y \in T : x <= y
<1> DEFINE R == {pair \in Nat \X Nat : pair[1] < pair[2]}
<1>1. IsWellFoundedOn(R, Nat)
  BY NatLessThanWellFounded DEF OpToRel
<1>2. \A x, y \in Nat : <<y, x>> \notin R => x <= y
  OBVIOUS
<1> HIDE DEF R
<1>3. PICK x \in T : \A y \in T : ~ (<<y, x>> \in R)
  BY <1>1, WFMin
<1> QED  BY <1>2, <1>3

\* Text reads up to the first terminator.
LEMMA TextProperties ==
  ASSUME NEW mem, NEW base \in Int
  PROVE  \E size \in 0 .. LINE_CAPACITY :
           /\ TextOf(mem, base, size)
           /\ Text(mem, base) = [n \in 1 .. size |-> mem[base + n - 1]]
<1> DEFINE terminators == {n \in LineCells : mem[base + n] = NUL}
           first == CHOOSE n \in terminators : \A m \in terminators : n <= m
           size == IF terminators = {} THEN LINE_CAPACITY ELSE first
<1>1. Text(mem, base) = [n \in 1 .. size |-> mem[base + n - 1]]
  BY DEF Text
<1>2. CASE terminators = {}
  <2>1. size = LINE_CAPACITY
    BY <1>2
  <2>2. \A n \in 0 .. LINE_CAPACITY - 1 : mem[base + n] # NUL
    BY <1>2 DEF LineCells
  <2> HIDE DEF size, terminators
  <2>3. size \in 0 .. LINE_CAPACITY /\ ~ (size < LINE_CAPACITY)
    BY <2>1, Sizes
  <2>4. TextOf(mem, base, size)
    BY <2>1, <2>2, <2>3 DEF TextOf
  <2> QED  BY <1>1, <2>3, <2>4
<1>3. CASE terminators # {}
  <2>1. size = first
    BY <1>3
  <2>2. terminators \subseteq Nat
    BY Sizes DEF LineCells
  <2>3. \E n \in terminators : \A m \in terminators : n <= m
    BY <1>3, <2>2, Smallest
  <2>4. first \in terminators /\ \A m \in terminators : first <= m
    BY <2>3
  <2> HIDE DEF first
  <2>5. first \in 0 .. LINE_CAPACITY /\ first < LINE_CAPACITY /\ first \in LineCells /\ mem[base + first] = NUL
    BY <2>4, Sizes DEF LineCells
  <2>6. \A n \in 0 .. first - 1 : mem[base + n] # NUL
    <3> SUFFICES ASSUME NEW n \in 0 .. first - 1, mem[base + n] = NUL PROVE FALSE
      OBVIOUS
    <3>1. n \in LineCells
      BY <2>5, Sizes DEF LineCells
    <3>2. first <= n
      BY <2>4, <3>1
    <3> QED  BY <2>5, <3>2
  <2> HIDE DEF size
  <2> QED  BY <1>1, <2>1, <2>5, <2>6 DEF TextOf
<1> QED  BY <1>2, <1>3

\* A text has one size.
LEMMA TextIs ==
  ASSUME NEW mem, NEW base \in Int, NEW size, TextOf(mem, base, size)
  PROVE  Text(mem, base) = [n \in 1 .. size |-> mem[base + n - 1]]
<1>1. PICK other \in 0 .. LINE_CAPACITY :
        /\ TextOf(mem, base, other)
        /\ Text(mem, base) = [n \in 1 .. other |-> mem[base + n - 1]]
  BY TextProperties
<1>2. ~ (other < size)
  <2> SUFFICES ASSUME other < size PROVE FALSE
    OBVIOUS
  <2>1. other \in 0 .. size - 1 /\ other < LINE_CAPACITY
    BY Sizes DEF TextOf
  <2> QED  BY <1>1, <2>1 DEF TextOf
<1>3. ~ (size < other)
  <2> SUFFICES ASSUME size < other PROVE FALSE
    OBVIOUS
  <2>1. size \in 0 .. other - 1 /\ size < LINE_CAPACITY
    BY Sizes DEF TextOf
  <2> QED  BY <1>1, <2>1 DEF TextOf
<1>4. size = other
  BY <1>2, <1>3, Sizes DEF TextOf
<1> QED  BY <1>1, <1>4

\* Rows with the same bytes have the same text.
LEMMA TextSame ==
  ASSUME NEW mem, NEW other, NEW base \in Int, NEW place \in Int,
         \A n \in LineCells : mem[base + n] = other[place + n]
  PROVE  Text(mem, base) = Text(other, place)
<1>1. PICK size \in 0 .. LINE_CAPACITY :
        /\ TextOf(mem, base, size)
        /\ Text(mem, base) = [n \in 1 .. size |-> mem[base + n - 1]]
  BY TextProperties
<1>2. TextOf(other, place, size)
  <2>1. \A n \in 0 .. size - 1 : n \in LineCells
    BY Sizes DEF LineCells
  <2>2. size < LINE_CAPACITY => size \in LineCells
    BY Sizes DEF LineCells
  <2> QED  BY <1>1, <2>1, <2>2 DEF TextOf
<1>3. Text(other, place) = [n \in 1 .. size |-> other[place + n - 1]]
  BY <1>2, TextIs
<1>4. \A n \in 1 .. size : mem[base + n - 1] = other[place + n - 1]
  <2> TAKE n \in 1 .. size
  <2>1. n - 1 \in LineCells /\ base + n - 1 = base + (n - 1) /\ place + n - 1 = place + (n - 1)
    BY Sizes DEF LineCells
  <2> QED  BY <2>1
<1> QED  BY <1>1, <1>3, <1>4

-----------------------------------------------------------------------------
(* record_history. *)

\* The slot that takes the line.
RecordSlot == Smaller(historyCount, HISTORY_SLOTS - 1) + 1

\* It is the next free one, or the last, and there is room for a terminator.
LEMMA RecordSlotIs ==
  ASSUME FlatTypeOK
  PROVE  /\ RecordSlot \in 1 .. HISTORY_SLOTS /\ SlotToWrite = Slot(RecordSlot)
         /\ RecordSlot = Smaller(historyCount + 1, HISTORY_SLOTS)
         /\ RecordSlot = IF historyCount < HISTORY_SLOTS THEN historyCount + 1 ELSE historyCount
         /\ Copied \in LineCells /\ Copied \in 0 .. LINE_CAPACITY
         /\ Copied = IF length < LINE_CAPACITY THEN length ELSE LINE_CAPACITY - 1
<1>1. historyCount \in 0 .. HISTORY_SLOTS /\ length \in 0 .. LINE_CAPACITY
  BY DEF FlatTypeOK
<1>2. /\ RecordSlot \in 1 .. HISTORY_SLOTS
      /\ RecordSlot = Smaller(historyCount + 1, HISTORY_SLOTS)
      /\ RecordSlot = IF historyCount < HISTORY_SLOTS THEN historyCount + 1 ELSE historyCount
  BY <1>1, Sizes DEF RecordSlot, Smaller
<1>3. Smaller(historyCount, HISTORY_SLOTS - 1) \in Nat
  BY <1>1, Sizes DEF Smaller
<1>4. (Smaller(historyCount, HISTORY_SLOTS - 1) + 1) - 1 = Smaller(historyCount, HISTORY_SLOTS - 1)
  BY <1>3
<1>5. SlotToWrite = Slot(RecordSlot)
  BY <1>4 DEF SlotToWrite, Slot, RecordSlot
<1>6. /\ Copied \in LineCells /\ Copied \in 0 .. LINE_CAPACITY
      /\ Copied = IF length < LINE_CAPACITY THEN length ELSE LINE_CAPACITY - 1
  BY <1>1, Sizes DEF Copied, Smaller, LineCells
<1> QED  BY <1>2, <1>5, <1>6

\* What is in the slots afterwards.
LEMMA RecordedAt ==
  ASSUME FlatTypeOK, NEW j \in 1 .. HISTORY_SLOTS, NEW n \in LineCells
  PROVE  Recorded[Slot(j) + n] =
           IF j = RecordSlot /\ n < Copied THEN lineBuffer[n]
           ELSE IF j = RecordSlot /\ n = Copied THEN NUL
           ELSE IF historyCount < HISTORY_SLOTS \/ j = HISTORY_SLOTS
                THEN historyBuffer[Slot(j) + n]
                ELSE historyBuffer[Slot(j + 1) + n]
<1> DEFINE place == Slot(j) + n
           k == RecordSlot
<1>1. /\ place \in HistoryCells /\ place \in Nat /\ Slot(j) \in Nat /\ n \in Nat
      /\ n < LINE_CAPACITY
  <2>1. Slot(j) + n \in HistoryCells /\ Slot(j) \in Nat /\ n \in Nat
    BY SlotCells
  <2>2. n < LINE_CAPACITY
    BY Sizes DEF LineCells
  <2> QED  BY <2>1, <2>2
<1>2. /\ k \in Nat /\ k >= 1 /\ Copied \in Nat /\ Copied < LINE_CAPACITY
      /\ SlotToWrite = Slot(k) /\ Slot(k) \in Nat
  <2>1. k \in 1 .. HISTORY_SLOTS /\ SlotToWrite = Slot(k) /\ Copied \in LineCells
    BY RecordSlotIs
  <2>2. k \in Nat /\ k >= 1 /\ Copied \in Nat /\ Copied < LINE_CAPACITY
    BY <2>1, Sizes DEF LineCells
  <2> HIDE DEF k
  <2> QED  BY <2>1, <2>2, NextSlot
<1> HIDE DEF k
<1>3. /\ place \in SlotToWrite .. SlotToWrite + Copied - 1 <=> j = k /\ n < Copied
      /\ place = SlotToWrite + Copied <=> j = k /\ n = Copied
      /\ j = k => place - SlotToWrite = n
  <2>1. CASE j = k
    BY <1>1, <1>2, <2>1
  <2>2. CASE j < k
    <3>1. Slot(j) + LINE_CAPACITY <= Slot(k)
      BY <1>2, <2>2, SlotOrder
    <3>2. place < Slot(k)
      BY <1>1, <1>2, <3>1, Sizes
    <3> HIDE DEF place
    <3> QED  BY <1>1, <1>2, <2>2, <3>2
  <2>3. CASE k < j
    <3>1. Slot(k) + LINE_CAPACITY <= Slot(j)
      BY <1>2, <2>3, SlotOrder
    <3>2. place > Slot(k) + Copied
      BY <1>1, <1>2, <3>1, Sizes
    <3> HIDE DEF place
    <3> QED  BY <1>1, <1>2, <2>3, <3>2
  <2> QED  BY <1>2, <2>1, <2>2, <2>3
<1>4. Shifted[place] = IF historyCount < HISTORY_SLOTS \/ j = HISTORY_SLOTS
                       THEN historyBuffer[place]
                       ELSE historyBuffer[Slot(j + 1) + n]
  <2>1. CASE historyCount < HISTORY_SLOTS
    BY <2>1 DEF Shifted
  <2>2. CASE ~ (historyCount < HISTORY_SLOTS)
    <3>1. Shifted[place] = IF place < Slot(HISTORY_SLOTS)
                           THEN historyBuffer[place + HISTORY_STRIDE] ELSE historyBuffer[place]
      BY <1>1, <2>2 DEF Shifted, Slot
    <3>2. CASE j = HISTORY_SLOTS
      <4>1. ~ (place < Slot(HISTORY_SLOTS))
        BY <1>1, <3>2
      <4> QED  BY <3>1, <3>2, <4>1
    <3>3. CASE j # HISTORY_SLOTS
      <4>1. j \in Nat /\ j >= 1 /\ HISTORY_SLOTS \in Nat /\ j < HISTORY_SLOTS
        BY <3>3, Sizes
      <4>2. Slot(j) + LINE_CAPACITY <= Slot(HISTORY_SLOTS) /\ Slot(HISTORY_SLOTS) \in Nat
        BY <4>1, SlotOrder
      <4>3. Slot(j + 1) = Slot(j) + LINE_CAPACITY
        BY <4>1, NextSlot
      <4>4. place < Slot(HISTORY_SLOTS) /\ place + HISTORY_STRIDE = Slot(j + 1) + n
        BY <1>1, <4>2, <4>3, Sizes
      <4> HIDE DEF place
      <4> QED  BY <2>2, <3>1, <3>3, <4>4
    <3> QED  BY <3>2, <3>3
  <2> QED  BY <2>1, <2>2
<1>5. Recorded[place] = IF place \in SlotToWrite .. SlotToWrite + Copied - 1
                        THEN lineBuffer[place - SlotToWrite]
                        ELSE IF place = SlotToWrite + Copied THEN NUL ELSE Shifted[place]
  BY <1>1 DEF Recorded
<1> HIDE DEF place
<1>6. Recorded[place] = IF j = k /\ n < Copied THEN lineBuffer[n]
                        ELSE IF j = k /\ n = Copied THEN NUL ELSE Shifted[place]
  BY <1>3, <1>5
<1> QED  BY <1>4, <1>6 DEF place, k

\* The history keeps its type: no byte comes from outside the two arrays.
LEMMA RecordedType ==
  ASSUME FlatTypeOK PROVE Recorded \in [HistoryCells -> FlatBytes]
<1>1. /\ SlotToWrite \in Nat /\ Copied \in Nat /\ Copied < LINE_CAPACITY
  <2>1. /\ RecordSlot \in 1 .. HISTORY_SLOTS /\ SlotToWrite = Slot(RecordSlot)
        /\ Copied \in LineCells
    BY RecordSlotIs
  <2>2. RecordSlot \in Nat /\ RecordSlot >= 1
    BY <2>1, Sizes
  <2> QED  BY <2>1, <2>2, NextSlot, Sizes DEF LineCells
<1>2. lineBuffer \in [LineCells -> FlatBytes] /\ historyBuffer \in [HistoryCells -> FlatBytes]
  BY DEF FlatTypeOK
<1>3. Shifted \in [HistoryCells -> FlatBytes]
  <2>1. ASSUME NEW i \in HistoryCells, i < (HISTORY_SLOTS - 1) * HISTORY_STRIDE
        PROVE  i + HISTORY_STRIDE \in HistoryCells
    <3>1. HISTORY_SLOTS \in Nat /\ HISTORY_SLOTS >= 1
      BY Sizes
    <3>2. Slot(HISTORY_SLOTS + 1) = Slot(HISTORY_SLOTS) + LINE_CAPACITY /\ Slot(HISTORY_SLOTS) \in Nat
      BY <3>1, NextSlot
    <3>3. i < Slot(HISTORY_SLOTS)
      BY <2>1 DEF Slot
    <3>4. HistoryCells = 0 .. Slot(HISTORY_SLOTS + 1) - 1
      BY HistoryEnd DEF HistoryCells
    <3> QED  BY <3>2, <3>3, <3>4, Sizes
  <2> QED  BY <1>2, <2>1 DEF Shifted
<1>4. ASSUME NEW i \in HistoryCells, i \in SlotToWrite .. SlotToWrite + Copied - 1
      PROVE  i - SlotToWrite \in LineCells
  BY <1>1, <1>4, Sizes DEF LineCells
<1>5. NUL \in FlatBytes
  BY DEF FlatBytes
<1> QED  BY <1>2, <1>3, <1>4, <1>5 DEF Recorded

-----------------------------------------------------------------------------
(* Types. *)

\* A write to the line keeps its type.
LEMMA WriteLineType ==
  ASSUME FlatTypeOK, NEW i, NEW b \in FlatBytes, WriteLine(i, b)
  PROVE  lineBuffer' \in [LineCells -> FlatBytes]
BY DEF FlatTypeOK, WriteLine

\* What a read leaves of the bytes of an arrow key.
LEMMA ByteOwed ==
  ASSUME FlatTypeOK, NEW b, Byte(b)
  PROVE  /\ owed' \in {<< >>} \cup {<<f>> : f \in Finals}
         /\ owed # << >> => b = "[" \/ b \in Finals
<1>1. owed \in {<< >>} \cup {<<f>> : f \in Finals} \cup {<<"[", f>> : f \in Finals}
  BY DEF FlatTypeOK
<1>2. CASE owed = << >>
  BY <1>2 DEF Byte
<1>3. ASSUME NEW f \in Finals, owed = <<f>>
      PROVE  owed' = << >> /\ b = f
  BY <1>3 DEF Byte
<1>4. ASSUME NEW f \in Finals, owed = <<"[", f>>
      PROVE  owed' = <<f>> /\ b = "["
  BY <1>4 DEF Byte
<1> QED  BY <1>1, <1>2, <1>3, <1>4

\* Every step keeps the types: index and length stay within the line, the
\* counters within the history and the table, also after the arrow keys.
LEMMA FlatTypeNext == FlatTypeOK /\ [FlatNext]_flatVars => FlatTypeOK'
<1> SUFFICES ASSUME FlatTypeOK, [FlatNext]_flatVars PROVE FlatTypeOK'
  OBVIOUS
<1> USE DEF FlatTypeOK
<1>1. CASE Prompt
  BY <1>1, Sizes DEF Prompt, historyVars, commandVars
<1>2. CASE BufferFull
  BY <1>2, Sizes DEF BufferFull, Returned, historyVars, commandVars
<1>3. ASSUME NEW b \in Typed \cup {"["} \cup Finals, StoreByte(b) PROVE FlatTypeOK'
  <2>1. b \in FlatBytes
    BY DEF FlatBytes
  <2>2. lineBuffer' \in [LineCells -> FlatBytes]
    BY <1>3, <2>1, WriteLineType DEF StoreByte
  <2>3. owed' \in {<< >>} \cup {<<f>> : f \in Finals}
    BY <1>3, ByteOwed DEF StoreByte
  <2>4. index' \in 0 .. LINE_CAPACITY
    BY <1>3, Sizes DEF StoreByte, Asks
  <2> QED  BY <1>3, <2>2, <2>3, <2>4 DEF StoreByte, historyVars, commandVars
<1>4. CASE EraseByte
  BY <1>4, Sizes DEF EraseByte, historyVars, commandVars
<1>5. CASE EnterLine
  <2>1. NUL \in FlatBytes
    BY DEF FlatBytes
  <2>2. lineBuffer' \in [LineCells -> FlatBytes]
    BY <1>5, <2>1, WriteLineType DEF EnterLine
  <2> QED  BY <1>5, <2>2, Sizes DEF EnterLine, Returned, historyVars, commandVars
<1>6. CASE ControlD
  BY <1>6, Sizes DEF ControlD, Returned, historyVars, commandVars
<1>7. CASE ControlC
  BY <1>7, Sizes DEF ControlC, historyVars, commandVars
<1>8. CASE ReadFails
  BY <1>8, Sizes DEF ReadFails, Returned, historyVars, commandVars
<1>9. ASSUME NEW final \in Finals, PressArrow(final) PROVE FlatTypeOK'
  BY <1>9 DEF PressArrow, historyVars, commandVars
<1>10. CASE PressEscape
  BY <1>10 DEF PressEscape, historyVars, commandVars
<1>11. CASE SwallowKey
  BY <1>11 DEF SwallowKey, historyVars, commandVars
<1>12. CASE ReadBracket
  <2>1. owed' \in {<< >>} \cup {<<f>> : f \in Finals}
    BY <1>12, ByteOwed DEF ReadBracket
  <2> QED  BY <1>12, <2>1 DEF ReadBracket, historyVars, commandVars
<1>13. CASE SequenceCut
  BY <1>13 DEF SequenceCut, historyVars, commandVars
<1>14. CASE OtherSequence
  <2>1. owed' \in {<< >>} \cup {<<f>> : f \in Finals}
    BY <1>14, ByteOwed DEF OtherSequence
  <2> QED  BY <1>14, <2>1 DEF OtherSequence, historyVars, commandVars
<1>15. CASE ArrowUp
  <2>1. owed' \in {<< >>} \cup {<<f>> : f \in Finals}
    BY <1>15, ByteOwed DEF ArrowUp
  <2>2. /\ esc' = "none"
        /\ UNCHANGED <<length, historyBuffer, historyCount, commandVars, input>>
    BY <1>15 DEF ArrowUp
  <2>3. CASE UNCHANGED <<at, lineBuffer, index, historyBrowse>>
    BY <2>1, <2>2, <2>3 DEF commandVars
  <2>4. CASE historyBrowse < historyCount /\ historyBrowse' = historyBrowse + 1 /\ Fault
    <3>1. historyBrowse' \in 0 .. HISTORY_SLOTS
      BY <2>4, Sizes
    <3> QED  BY <2>1, <2>2, <2>4, <3>1 DEF Fault, commandVars
  <2>5. ASSUME historyBrowse < historyCount, historyBrowse' = historyBrowse + 1,
               LET entry == Entry(historyCount - historyBrowse)
               IN  /\ lineBuffer' = [i \in LineCells |->
                        IF i = 0 THEN NUL
                        ELSE IF i < Len(entry) THEN entry[i + 1]
                        ELSE IF i = Len(entry) THEN NUL
                        ELSE lineBuffer[i]]
                   /\ \E n \in 0 .. LINE_CAPACITY : index' = IF n = 0 THEN index ELSE n
                   /\ UNCHANGED at
        PROVE  FlatTypeOK'
    <3> DEFINE shown == historyCount - historyBrowse
               entry == Entry(shown)
    <3>1. shown \in 1 .. HISTORY_SLOTS /\ historyBrowse' \in 0 .. HISTORY_SLOTS
      BY <2>5, Sizes
    <3> HIDE DEF shown
    <3>2. Slot(shown) \in Nat /\ \A n \in LineCells : Slot(shown) + n \in HistoryCells
      <4>1. 0 \in LineCells
        BY Sizes DEF LineCells
      <4> QED  BY <3>1, <4>1, SlotCells
    <3>3. PICK size \in 0 .. LINE_CAPACITY :
            entry = [n \in 1 .. size |-> historyBuffer[Slot(shown) + n - 1]]
      <4>1. Slot(shown) \in Int /\ entry = Text(historyBuffer, Slot(shown))
        BY <3>2 DEF Entry
      <4> HIDE DEF entry
      <4>2. \E size \in 0 .. LINE_CAPACITY :
              /\ TextOf(historyBuffer, Slot(shown), size)
              /\ Text(historyBuffer, Slot(shown)) =
                   [n \in 1 .. size |-> historyBuffer[Slot(shown) + n - 1]]
        BY <4>1, TextProperties
      <4> QED  BY <4>1, <4>2
    <3>4. Len(entry) = size
      BY <3>3, Sizes
    <3>5. ASSUME NEW i \in LineCells, i < Len(entry) PROVE entry[i + 1] \in FlatBytes
      <4>1. i + 1 \in 1 .. size /\ i \in Nat
        BY <3>4, <3>5, Sizes DEF LineCells
      <4>2. Slot(shown) + (i + 1) - 1 = Slot(shown) + i
        BY <3>2, <4>1
      <4>3. entry[i + 1] = historyBuffer[Slot(shown) + i]
        BY <3>3, <4>1, <4>2
      <4> QED  BY <3>2, <4>3
    <3>6. lineBuffer' = [i \in LineCells |->
             IF i = 0 THEN NUL
             ELSE IF i < Len(entry) THEN entry[i + 1]
             ELSE IF i = Len(entry) THEN NUL
             ELSE lineBuffer[i]]
      BY <2>5 DEF shown
    <3> HIDE DEF entry
    <3>7. lineBuffer' \in [LineCells -> FlatBytes]
      BY <3>5, <3>6 DEF FlatBytes
    <3>8. index' \in 0 .. LINE_CAPACITY
      BY <2>5
    <3>9. at' = at
      BY <2>5
    <3> QED  BY <2>1, <2>2, <3>1, <3>7, <3>8, <3>9 DEF commandVars
  <2> QED  BY <1>15, <2>3, <2>4, <2>5 DEF ArrowUp
<1>16. CASE ArrowDown
  <2>1. owed' \in {<< >>} \cup {<<f>> : f \in Finals}
    BY <1>16, ByteOwed DEF ArrowDown
  <2>2. historyBrowse' \in 0 .. HISTORY_SLOTS
    BY <1>16, Sizes DEF ArrowDown
  <2>3. index' \in 0 .. LINE_CAPACITY
    BY <1>16, Sizes DEF ArrowDown, Fault
  <2> QED  BY <1>16, <2>1, <2>2, <2>3 DEF ArrowDown, Fault, commandVars
<1>17. CASE EmptyLine
  BY <1>17 DEF EmptyLine, readVars, historyVars
<1>18. CASE RecordHistory
  <2>1. historyCount' \in 0 .. HISTORY_SLOTS
    BY <1>18, Sizes DEF RecordHistory, Smaller
  <2>2. historyBuffer' \in [HistoryCells -> FlatBytes]
    BY <1>18, RecordedType DEF RecordHistory
  <2> QED  BY <1>18, <2>1, <2>2 DEF RecordHistory, readVars, commandVars
<1>19. CASE TokenizeLine
  <2> DEFINE text == Text(lineBuffer, 0)
             starts == {n \in DOMAIN text : text[n] # " " /\ (n = 1 \/ text[n - 1] = " ")}
  <2>1. Cardinality(starts) \in Nat
    <3>1. PICK size \in 0 .. LINE_CAPACITY : text = [n \in 1 .. size |-> lineBuffer[0 + n - 1]]
      BY TextProperties
    <3>2. DOMAIN text = 1 .. size
      BY <3>1
    <3> HIDE DEF text
    <3>3. starts \subseteq 1 .. size
      BY <3>2
    <3>4. IsFiniteSet(1 .. size)
      <4>1. size \in Int
        BY Sizes
      <4> QED  BY <4>1, FS_Interval
    <3> HIDE DEF starts
    <3> QED  BY <3>3, <3>4, FS_Subset, FS_CardinalityType
  <2>2. \E more \in {0, 1, 2} : argc' = Smaller(Cardinality(starts) + more, ARGV_CAPACITY)
    <3>1. \E more \in IF Len(text) = LINE_CAPACITY THEN 0 .. 2 ELSE {0} :
            argc' = Smaller(Cardinality(starts) + more, ARGV_CAPACITY)
      BY <1>19 DEF TokenizeLine
    <3> HIDE DEF starts, text
    <3> QED  BY <3>1
  <2> HIDE DEF starts
  <2>3. argc' \in 0 .. ARGV_CAPACITY
    BY <2>1, <2>2, Sizes DEF Smaller
  <2>4. lineBuffer' \in [LineCells -> FlatBytes]
    BY <1>19 DEF TokenizeLine, FlatBytes
  <2>5. /\ at' \in {"prompt", "dispatch"} /\ length' = 0
        /\ UNCHANGED <<index, esc, owed, historyVars, exitFlag, exitCode, status, input>>
    BY <1>19 DEF TokenizeLine
  <2> QED  BY <2>3, <2>4, <2>5, Sizes DEF historyVars
<1>20. CASE BuiltinExit
  <2>1. exitFlag' \in BOOLEAN /\ exitCode' \in {0} \cup ExitCodes
    BY <1>20 DEF BuiltinExit
  <2>2. at' \in {"exited", "prompt"} /\ status' \in {-1, 0}
    BY <1>20 DEF BuiltinExit, Leave
  <2>3. argc' = 0 /\ UNCHANGED <<lineBuffer, readVars, owed, historyVars, input>>
    BY <1>20 DEF BuiltinExit, Dispatched
  <2> QED  BY <2>1, <2>2, <2>3, Sizes DEF readVars, historyVars
<1>21. CASE BuiltinCat
  BY <1>21, Sizes DEF BuiltinCat, Dispatched, readVars, historyVars
<1>22. CASE OtherCommand
  BY <1>22, Sizes DEF OtherCommand, Dispatched, readVars, historyVars
<1>23. CASE CatReads
  BY <1>23 DEF CatReads, readVars, historyVars, commandVars
<1>24. CASE InputFails
  BY <1>24 DEF InputFails, readVars, historyVars, commandVars
<1>25. CASE UNCHANGED flatVars
  BY <1>25 DEF flatVars, readVars, historyVars, commandVars
<1> QED  BY <1>1, <1>2, <1>3, <1>4, <1>5, <1>6, <1>7, <1>8, <1>9, <1>12, <1>13, <1>14,
            <1>15, <1>16, <1>17, <1>18, <1>19, <1>20, <1>21, <1>22, <1>23, <1>24, <1>25,
            <1>10, <1>11
         DEF FlatNext, Keys, Runs

\* The arrays are zero and empty at the start.
LEMMA FlatTypeInit == FlatInit => FlatTypeOK
<1> SUFFICES ASSUME FlatInit PROVE FlatTypeOK
  OBVIOUS
<1>1. NUL \in FlatBytes
  BY DEF FlatBytes
<1>2. /\ lineBuffer \in [LineCells -> FlatBytes]
      /\ historyBuffer \in [HistoryCells -> FlatBytes]
  BY <1>1 DEF FlatInit
<1>3. /\ at = "prompt" /\ index = 0 /\ length = 0 /\ esc = "none" /\ owed = << >>
      /\ historyCount = 0 /\ historyBrowse = 0 /\ argc = 0 /\ exitFlag = FALSE /\ exitCode = 0
      /\ status = -1 /\ input = "open"
  BY DEF FlatInit
<1>4. /\ index \in 0 .. LINE_CAPACITY /\ length \in 0 .. LINE_CAPACITY
      /\ historyCount \in 0 .. HISTORY_SLOTS /\ historyBrowse \in 0 .. HISTORY_SLOTS
      /\ argc \in 0 .. ARGV_CAPACITY
  BY <1>3, Sizes
<1>5. owed \in {<< >>} \cup {<<f>> : f \in Finals} \cup {<<"[", f>> : f \in Finals}
  BY <1>3
<1>6. exitFlag \in BOOLEAN /\ exitCode \in {0} \cup ExitCodes /\ status \in {-1, 0}
  BY <1>3
<1> QED  BY <1>2, <1>3, <1>4, <1>5, <1>6 DEF FlatTypeOK

\* Every variable keeps its type and its bound, whatever keys are pressed.
THEOREM FlatTypeCorrect == FlatSpec => []FlatTypeOK
BY FlatTypeInit, FlatTypeNext, PTL DEF FlatSpec

-----------------------------------------------------------------------------
(* The history. *)

\* Nothing but record_history touches the history.
LEMMA OnlyRecordChangesHistory ==
  ASSUME [FlatNext]_flatVars
  PROVE  RecordHistory \/ UNCHANGED <<historyBuffer, historyCount>>
<1>1. CASE Keys
  BY <1>1 DEF Keys, StoreByte, EraseByte, EnterLine, ControlD, ControlC, PressArrow, PressEscape, SwallowKey,
     ReadBracket, OtherSequence, ArrowUp, ArrowDown, Fault, historyVars
<1>2. CASE Runs
  BY <1>2 DEF Runs, Prompt, BufferFull, ReadFails, SequenceCut, EmptyLine, TokenizeLine,
     BuiltinExit, BuiltinCat, OtherCommand, CatReads, Dispatched, historyVars
<1>3. CASE InputFails
  BY <1>3 DEF InputFails, historyVars
<1>4. CASE UNCHANGED flatVars
  BY <1>4 DEF flatVars, historyVars
<1> QED  BY <1>1, <1>2, <1>3, <1>4 DEF FlatNext

\* The copy of a line that goes in leaves every slot terminated, and those
\* not in use as they were.
LEMMA RecordTerminates ==
  ASSUME FlatTypeOK, SlotsTerminated, RecordHistory
  PROVE  SlotsTerminated'
<1>1. CASE UNCHANGED <<historyBuffer, historyCount>>
  BY <1>1 DEF SlotsTerminated
<1>2. CASE historyBuffer' = Recorded /\ historyCount' = Smaller(historyCount + 1, HISTORY_SLOTS)
  <2> DEFINE k == RecordSlot
  <2>1. /\ k \in 1 .. HISTORY_SLOTS /\ historyCount' = k /\ Copied \in LineCells
        /\ k = IF historyCount < HISTORY_SLOTS THEN historyCount + 1 ELSE historyCount
        /\ historyCount \in 0 .. HISTORY_SLOTS
    BY <1>2, RecordSlotIs DEF FlatTypeOK
  <2> HIDE DEF k
  <2>2. SUFFICES ASSUME NEW i \in 1 .. HISTORY_SLOTS
                 PROVE  IF i <= k
                        THEN \E n \in LineCells : Recorded[Slot(i) + n] = NUL
                        ELSE \A n \in LineCells : Recorded[Slot(i) + n] = NUL
    BY <1>2, <2>1 DEF SlotsTerminated
  <2>3. \A n \in LineCells :
          Recorded[Slot(i) + n] =
            IF i = k /\ n < Copied THEN lineBuffer[n]
            ELSE IF i = k /\ n = Copied THEN NUL
            ELSE IF historyCount < HISTORY_SLOTS \/ i = HISTORY_SLOTS
                 THEN historyBuffer[Slot(i) + n]
                 ELSE historyBuffer[Slot(i + 1) + n]
    BY RecordedAt DEF k
  <2>4. CASE i = k
    <3>1. Copied \in Nat /\ ~ (Copied < Copied)
      BY <2>1, Sizes DEF LineCells
    <3>2. Recorded[Slot(i) + Copied] = NUL
      BY <2>1, <2>3, <2>4, <3>1
    <3> QED  BY <2>1, <2>4, <3>2, Sizes
  <2>5. CASE i < k
    <3>1. CASE historyCount < HISTORY_SLOTS
      <4>1. i <= historyCount
        BY <2>1, <2>5, <3>1, Sizes
      <4>2. PICK n \in LineCells : historyBuffer[Slot(i) + n] = NUL
        BY <4>1 DEF SlotsTerminated
      <4>3. Recorded[Slot(i) + n] = NUL
        BY <2>1, <2>3, <2>5, <3>1, <4>2, Sizes
      <4> QED  BY <2>1, <2>5, <4>3, Sizes
    <3>2. CASE ~ (historyCount < HISTORY_SLOTS)
      <4>1. i + 1 \in 1 .. HISTORY_SLOTS /\ i + 1 <= historyCount /\ i # HISTORY_SLOTS /\ i # k
        BY <2>1, <2>5, <3>2, Sizes
      <4>2. PICK n \in LineCells : historyBuffer[Slot(i + 1) + n] = NUL
        BY <4>1 DEF SlotsTerminated
      <4>3. Recorded[Slot(i) + n] = NUL
        BY <2>3, <3>2, <4>1, <4>2
      <4> QED  BY <2>1, <2>5, <4>3, Sizes
    <3> QED  BY <3>1, <3>2
  <2>6. CASE i > k
    <3>1. historyCount < HISTORY_SLOTS /\ ~ (i <= historyCount) /\ i # k /\ ~ (i <= k)
      BY <2>1, <2>6, Sizes
    <3>2. \A n \in LineCells : historyBuffer[Slot(i) + n] = NUL
      BY <3>1 DEF SlotsTerminated
    <3> QED  BY <2>3, <3>1, <3>2
  <2> QED  BY <2>1, <2>4, <2>5, <2>6, Sizes
<1> QED  BY <1>1, <1>2 DEF RecordHistory

\* Every slot in use holds a terminator, every other one is still zero, also
\* after the arrow keys have left any length and any first byte behind.
THEOREM SlotsStayTerminated == FlatSpec => []SlotsTerminated
<1>1. FlatInit => SlotsTerminated
  <2> SUFFICES ASSUME FlatInit PROVE SlotsTerminated
    OBVIOUS
  <2>1. historyCount = 0 /\ historyBuffer = [i \in HistoryCells |-> NUL]
    BY DEF FlatInit
  <2>2. \A i \in 1 .. HISTORY_SLOTS : ~ (i <= historyCount)
    BY <2>1, Sizes
  <2>3. \A i \in 1 .. HISTORY_SLOTS, n \in LineCells : historyBuffer[Slot(i) + n] = NUL
    BY <2>1, SlotCells
  <2> QED  BY <2>2, <2>3 DEF SlotsTerminated
<1>2. FlatTypeOK /\ SlotsTerminated /\ [FlatNext]_flatVars => SlotsTerminated'
  <2> SUFFICES ASSUME FlatTypeOK, SlotsTerminated, [FlatNext]_flatVars
               PROVE  SlotsTerminated'
    OBVIOUS
  <2>1. CASE UNCHANGED <<historyBuffer, historyCount>>
    BY <2>1 DEF SlotsTerminated
  <2>2. CASE RecordHistory
    BY <2>2, RecordTerminates
  <2> QED  BY <2>1, <2>2, OnlyRecordChangesHistory
<1> QED  BY <1>1, <1>2, FlatTypeCorrect, PTL DEF FlatSpec

\* A sequence that is another one with a place more, or shifted by one when
\* there is no place left.
LEMMA PushFromPlaces ==
  ASSUME NEW V, NEW bound \in Nat, bound >= 1, NEW c \in 0 .. bound,
         NEW k, k = (IF c < bound THEN c + 1 ELSE c),
         NEW f \in [1 .. c -> V], NEW g \in [1 .. k -> V],
         \A i \in 1 .. k - 1 : g[i] = IF c < bound THEN f[i] ELSE f[i + 1]
  PROVE  g # << >> /\ g = Append(IF Len(f) >= bound THEN Tail(f) ELSE f, g[Len(g)])
<1>1. k \in Nat /\ k >= 1 /\ c \in Nat /\ k \in 1 .. k
  OBVIOUS
<1>2. /\ f \in Seq(V) /\ Len(f) = c /\ g \in Seq(V) /\ Len(g) = k /\ g[k] \in V
  BY <1>1
<1>3. g # << >>
  BY <1>1, <1>2
<1>4. CASE c < bound
  <2>1. /\ Append(f, g[k]) \in Seq(V) /\ Len(Append(f, g[k])) = c + 1
        /\ \A i \in 1 .. c : Append(f, g[k])[i] = f[i]
        /\ Append(f, g[k])[c + 1] = g[k]
    BY <1>2, AppendProperties
  <2>2. \A i \in 1 .. k : g[i] = Append(f, g[k])[i]
    <3> TAKE i \in 1 .. k
    <3>1. CASE i = k
      BY <1>1, <1>4, <2>1, <3>1
    <3>2. CASE i # k
      <4>1. i \in 1 .. k - 1 /\ i \in 1 .. c
        BY <1>1, <1>4, <3>2
      <4> QED  BY <1>4, <2>1, <4>1
    <3> QED  BY <3>1, <3>2
  <2>3. g = Append(f, g[k])
    BY <1>1, <1>2, <1>4, <2>1, <2>2, SeqEqual
  <2>4. ~ (Len(f) >= bound)
    BY <1>2, <1>4
  <2> QED  BY <1>2, <1>3, <2>3, <2>4
<1>5. CASE ~ (c < bound)
  <2>1. c = bound /\ k = c /\ f # << >> /\ Len(f) >= bound
    BY <1>1, <1>2, <1>5
  <2> DEFINE rest == Tail(f)
  <2>2. /\ rest \in Seq(V) /\ Len(rest) = c - 1
        /\ \A i \in 1 .. c - 1 : rest[i] = f[i + 1]
    BY <1>2, <2>1, HeadTailProperties
  <2> HIDE DEF rest
  <2>3. /\ Append(rest, g[k]) \in Seq(V) /\ Len(Append(rest, g[k])) = (c - 1) + 1
        /\ \A i \in 1 .. c - 1 : Append(rest, g[k])[i] = rest[i]
        /\ Append(rest, g[k])[(c - 1) + 1] = g[k]
    BY <1>2, <2>2, AppendProperties
  <2>4. \A i \in 1 .. k : g[i] = Append(rest, g[k])[i]
    <3> TAKE i \in 1 .. k
    <3>1. CASE i = k
      BY <1>1, <2>1, <2>3, <3>1
    <3>2. CASE i # k
      <4>1. i \in 1 .. k - 1 /\ i \in 1 .. c - 1
        BY <1>1, <2>1, <3>2
      <4> QED  BY <1>5, <2>2, <2>3, <4>1
    <3> QED  BY <3>1, <3>2
  <2>5. g = Append(rest, g[k])
    BY <1>1, <1>2, <2>1, <2>3, <2>4, SeqEqual
  <2> QED  BY <1>2, <1>3, <2>1, <2>5 DEF rest
<1> QED  BY <1>4, <1>5

\* The other entries afterwards: the same ones, or each the one behind it.
LEMMA RecordedEntries ==
  ASSUME FlatTypeOK, NEW i \in 1 .. RecordSlot - 1
  PROVE  Text(Recorded, Slot(i)) =
           IF historyCount < HISTORY_SLOTS THEN Entry(i) ELSE Entry(i + 1)
<1>1. /\ RecordSlot \in 1 .. HISTORY_SLOTS /\ historyCount \in 0 .. HISTORY_SLOTS
      /\ RecordSlot = IF historyCount < HISTORY_SLOTS THEN historyCount + 1 ELSE historyCount
  BY RecordSlotIs DEF FlatTypeOK
<1>2. /\ i \in 1 .. HISTORY_SLOTS /\ i # HISTORY_SLOTS /\ i # RecordSlot
      /\ i \in Nat /\ i >= 1 /\ i + 1 \in Nat /\ i + 1 >= 1
  BY <1>1, Sizes
<1>3. Slot(i) \in Int /\ Slot(i + 1) \in Int
  <2>1. Slot(i) \in Nat
    BY <1>2, NextSlot
  <2>2. Slot(i + 1) = Slot(i) + LINE_CAPACITY
    BY <1>2, NextSlot
  <2> QED  BY <2>1, <2>2, Sizes
<1>4. \A n \in LineCells :
        Recorded[Slot(i) + n] = IF historyCount < HISTORY_SLOTS
                                THEN historyBuffer[Slot(i) + n]
                                ELSE historyBuffer[Slot(i + 1) + n]
  BY <1>2, RecordedAt
<1>5. CASE historyCount < HISTORY_SLOTS
  <2>1. \A n \in LineCells : Recorded[Slot(i) + n] = historyBuffer[Slot(i) + n]
    BY <1>4, <1>5
  <2>2. Text(Recorded, Slot(i)) = Text(historyBuffer, Slot(i))
    BY <1>3, <2>1, TextSame
  <2> QED  BY <1>5, <2>2 DEF Entry
<1>6. CASE ~ (historyCount < HISTORY_SLOTS)
  <2> DEFINE place == Slot(i + 1)
  <2>1. \A n \in LineCells : Recorded[Slot(i) + n] = historyBuffer[place + n]
    BY <1>4, <1>6
  <2>2. place \in Int
    BY <1>3
  <2> HIDE DEF place
  <2>3. Text(Recorded, Slot(i)) = Text(historyBuffer, place)
    BY <1>3, <2>1, <2>2, TextSame
  <2> QED  BY <1>6, <2>3 DEF Entry, place
<1> QED  BY <1>5, <1>6

\* The history is the queue that BoundedQueue describes, whatever was typed:
\* a line goes in behind the others, once, and pushes out the oldest only.
THEOREM HistoryIsBoundedQueue == FlatSpec => HistoryIsQueue
<1>1. FlatInit => Queue!QueueInit
  <2> SUFFICES ASSUME FlatInit PROVE Queue!QueueInit
    OBVIOUS
  <2>1. historyCount = 0 /\ at = "prompt"
    BY DEF FlatInit
  <2>2. Entries = << >>
    BY <2>1 DEF Entries
  <2> QED  BY <2>1, <2>2 DEF Queue!QueueInit
<1>2. FlatTypeOK /\ [FlatNext]_flatVars => [Queue!QueueNext]_(Queue!queueVars)
  <2> SUFFICES ASSUME FlatTypeOK, [FlatNext]_flatVars PROVE Queue!QueueNext
    OBVIOUS
  <2>1. CASE UNCHANGED <<historyBuffer, historyCount>>
    <3>1. Entries' = Entries
      BY <2>1 DEF Entries, Entry
    <3>2. (at = "entered")' \in BOOLEAN
      OBVIOUS
    <3> QED  BY <3>1, <3>2 DEF Queue!QueueNext, Queue!Wait
  <2>2. CASE RecordHistory /\ ~ UNCHANGED <<historyBuffer, historyCount>>
    <3>1. /\ at = "entered" /\ at' = "recorded"
          /\ historyBuffer' = Recorded
          /\ historyCount' = Smaller(historyCount + 1, HISTORY_SLOTS)
      BY <2>2 DEF RecordHistory
    <3> DEFINE c == historyCount
               k == RecordSlot
               f == Entries
               g == [i \in 1 .. k |-> Text(Recorded, Slot(i))]
               V == {Entry(i) : i \in 1 .. c} \cup {Text(Recorded, Slot(i)) : i \in 1 .. k}
    <3>2. /\ HISTORY_SLOTS \in Nat /\ HISTORY_SLOTS >= 1 /\ c \in 0 .. HISTORY_SLOTS
          /\ k = (IF c < HISTORY_SLOTS THEN c + 1 ELSE c)
          /\ historyCount' = k /\ k \in Nat
      BY <3>1, RecordSlotIs, Sizes DEF FlatTypeOK
    <3>3. f \in [1 .. c -> V] /\ g \in [1 .. k -> V]
      BY DEF Entries
    <3>4. \A i \in 1 .. k - 1 : g[i] = IF c < HISTORY_SLOTS THEN f[i] ELSE f[i + 1]
      <4> TAKE i \in 1 .. k - 1
      <4>1. Text(Recorded, Slot(i)) = IF c < HISTORY_SLOTS THEN Entry(i) ELSE Entry(i + 1)
        BY RecordedEntries
      <4>2. /\ i \in 1 .. k
            /\ c < HISTORY_SLOTS => i \in 1 .. c
            /\ ~ (c < HISTORY_SLOTS) => i + 1 \in 1 .. c
        BY <3>2
      <4> HIDE DEF k
      <4>3. g[i] = Text(Recorded, Slot(i))
        BY <4>2
      <4>4. c < HISTORY_SLOTS => f[i] = Entry(i)
        BY <4>2 DEF Entries
      <4>5. ~ (c < HISTORY_SLOTS) => f[i + 1] = Entry(i + 1)
        BY <4>2 DEF Entries
      <4> QED  BY <4>1, <4>3, <4>4, <4>5
    <3>5. Entries' = g
      BY <3>1, <3>2 DEF Entries, Entry
    <3> HIDE DEF f, g, V, c, k
    <3>6. g # << >> /\ g = Append(IF Len(f) >= HISTORY_SLOTS THEN Tail(f) ELSE f, g[Len(g)])
      BY <3>2, <3>3, <3>4, PushFromPlaces
    <3>7. Entries' # << >> /\ Entries' = Append(Queue!Kept, Entries'[Len(Entries')])
      BY <3>5, <3>6 DEF Queue!Kept, f
    <3> QED  BY <3>1, <3>7 DEF Queue!QueueNext, Queue!Push
  <2> QED  BY <2>1, <2>2, OnlyRecordChangesHistory
<1> QED  BY <1>1, <1>2, FlatTypeCorrect, PTL DEF FlatSpec, HistoryIsQueue, Queue!QueueSpec

-----------------------------------------------------------------------------
(* The line.  What history_navigate_up and history_navigate_down leave in    *)
(* rcx and rdi decides about the line after an arrow up or down, and nothing  *)
(* sets these registers: what follows is about shells in which neither key is *)
(* pressed, or only the one that does no harm.                                *)

\* No byte that is read is a terminator.
LEMMA BytesAreNoTerminator ==
  ASSUME NEW b \in Typed \cup {"["} \cup Finals
  PROVE  b # NUL /\ b \in FlatBytes
<1>1. b \in FlatBytes
  BY DEF FlatBytes
<1>2. Finals \subseteq {"A", "B", "C"} /\ "NUL" \notin Chars
  BY FlatAssumption
<1>3. b # "NUL"
  BY <1>2 DEF Typed
<1> QED  BY <1>1, <1>3 DEF NUL

\* A key whose last byte no key has is not pressed.
LEMMA KeyIsPressed ==
  ASSUME FlatTypeOK, NEW b, b # "[", Byte(b), owed # << >>
  PROVE  b \in Finals
BY ByteOwed

\* While a line is read it has no terminator in it; when it was read it ends
\* with one, unless it fills the buffer.
LineInv ==
  /\ at = "reading" => \A n \in 0 .. index - 1 : lineBuffer[n] # NUL
  /\ at = "entered" => \A n \in 0 .. length - 1 : lineBuffer[n] # NUL
  /\ at = "entered" /\ length # 0 /\ length < LINE_CAPACITY => lineBuffer[length] = NUL

\* Without an arrow up or down every step keeps it.
LEMMA LineInvNext ==
  ASSUME "A" \notin Finals, "B" \notin Finals,
         FlatTypeOK, LineInv, [FlatNext]_flatVars
  PROVE  LineInv'
<1>1. ASSUME Asks PROVE index \in LineCells /\ index \in Nat /\ index < LINE_CAPACITY /\ at = "reading"
  BY <1>1, Sizes DEF Asks, LineCells, FlatTypeOK
<1>2. lineBuffer \in [LineCells -> FlatBytes] /\ index \in Nat /\ length \in Nat
      /\ index <= LINE_CAPACITY
  BY Sizes DEF FlatTypeOK
<1>3. ASSUME NEW b \in Typed \cup {"["} \cup Finals, StoreByte(b) PROVE LineInv'
  <2>1. /\ index \in LineCells /\ at' = "reading" /\ index' = index + 1
        /\ lineBuffer' = [lineBuffer EXCEPT ![index] = b] /\ b # NUL
    BY <1>1, <1>3, BytesAreNoTerminator DEF StoreByte, WriteLine
  <2>2. \A n \in 0 .. index - 1 : lineBuffer[n] # NUL /\ n \in LineCells /\ n # index
    BY <1>1, <1>2, <1>3, Sizes DEF LineInv, StoreByte, LineCells
  <2>3. \A n \in 0 .. index' - 1 : n = index \/ n \in 0 .. index - 1
    BY <1>2, <2>1
  <2>4. \A n \in 0 .. index' - 1 : lineBuffer'[n] # NUL
    BY <1>2, <2>1, <2>2, <2>3
  <2> QED  BY <2>1, <2>4 DEF LineInv
<1>4. CASE EnterLine
  <2>1. /\ index \in LineCells /\ at' = "entered" /\ length' = index
        /\ lineBuffer' = [lineBuffer EXCEPT ![index] = NUL] /\ at = "reading"
    BY <1>1, <1>4 DEF EnterLine, Pressed, WriteLine, Returned
  <2>2. \A n \in 0 .. index - 1 : lineBuffer[n] # NUL /\ n \in LineCells /\ n # index
    BY <1>2, <2>1, Sizes DEF LineInv, LineCells
  <2>3. \A n \in 0 .. length' - 1 : lineBuffer'[n] # NUL
    BY <1>2, <2>1, <2>2
  <2>4. lineBuffer'[length'] = NUL
    BY <1>2, <2>1
  <2> QED  BY <2>1, <2>3, <2>4 DEF LineInv
<1>5. CASE BufferFull
  <2>1. /\ at = "reading" /\ at' = "entered" /\ length' = index /\ lineBuffer' = lineBuffer
        /\ ~ (index < LINE_CAPACITY)
    BY <1>2, <1>5, Sizes DEF BufferFull, Returned
  <2> QED  BY <1>2, <2>1 DEF LineInv
<1>6. CASE EraseByte
  <2>1. /\ at = "reading" /\ at' = "reading" /\ index' = index - 1 /\ lineBuffer' = lineBuffer
    BY <1>1, <1>6 DEF EraseByte, Pressed
  <2>2. \A n \in 0 .. index' - 1 : n \in 0 .. index - 1
    BY <1>2, <2>1
  <2> QED  BY <2>1, <2>2 DEF LineInv
<1>7. CASE ControlC \/ Prompt
  <2>1. at' = "reading" /\ index' = 0
    BY <1>1, <1>7 DEF ControlC, Pressed, Prompt
  <2> QED  BY <2>1 DEF LineInv
<1>8. CASE ControlD \/ ReadFails
  <2>1. at' = "entered" /\ length' = 0
    BY <1>8 DEF ControlD, ReadFails, Returned
  <2> QED  BY <2>1 DEF LineInv
<1>9. CASE \/ (\E final \in Finals : PressArrow(final)) \/ PressEscape \/ SwallowKey
           \/ ReadBracket \/ OtherSequence
           \/ SequenceCut \/ InputFails \/ UNCHANGED flatVars
  <2>1. UNCHANGED <<at, lineBuffer, index, length>>
    BY <1>9 DEF PressArrow, PressEscape, SwallowKey, ReadBracket, OtherSequence, SequenceCut, InputFails, flatVars, readVars
  <2> QED  BY <2>1 DEF LineInv
<1>10. ~ ArrowUp /\ ~ ArrowDown
  BY KeyIsPressed DEF ArrowUp, ArrowDown
<1>11. CASE \/ EmptyLine \/ RecordHistory \/ BuiltinExit \/ BuiltinCat \/ OtherCommand \/ CatReads
  <2>1. at' \notin {"reading", "entered"}
    BY <1>11 DEF EmptyLine, RecordHistory, BuiltinExit, Leave, BuiltinCat, OtherCommand, CatReads
  <2> QED  BY <2>1 DEF LineInv
<1>12. CASE TokenizeLine
  <2>1. at' \in {"prompt", "dispatch"}
    BY <1>12 DEF TokenizeLine
  <2> QED  BY <2>1 DEF LineInv
<1> QED  BY <1>3, <1>4, <1>5, <1>6, <1>7, <1>8, <1>9, <1>10, <1>11, <1>12 DEF FlatNext, Keys, Runs

\* The text of the line that was read.
LEMMA LineText ==
  ASSUME FlatTypeOK, LineInv, at = "entered", length # 0
  PROVE  Text(lineBuffer, 0) = [n \in 1 .. length |-> lineBuffer[n - 1]]
<1>1. length \in 0 .. LINE_CAPACITY /\ length \in Nat
  BY Sizes DEF FlatTypeOK
<1>2. TextOf(lineBuffer, 0, length)
  <2>1. \A n \in 0 .. length - 1 : 0 + n = n
    BY <1>1
  <2>2. 0 + length = length
    BY <1>1
  <2> QED  BY <1>1, <2>1, <2>2 DEF TextOf, LineInv
<1>3. Text(lineBuffer, 0) = [n \in 1 .. length |-> lineBuffer[0 + n - 1]]
  BY <1>2, TextIs
<1>4. \A n \in 1 .. length : 0 + n - 1 = n - 1
  BY <1>1
<1> QED  BY <1>3, <1>4

\* record_history takes the line in, or finds that it is there already.
LEMMA RecordTakesLine ==
  ASSUME FlatTypeOK, SlotsTerminated, LineInv, RecordHistory
  PROVE  NewestIsLine'
<1>1. /\ at = "entered" /\ length # 0 /\ lineBuffer' = lineBuffer /\ length' = length
  BY DEF RecordHistory, readVars
<1>2. /\ historyCount \in 0 .. HISTORY_SLOTS /\ length \in 0 .. LINE_CAPACITY /\ length \in Nat
      /\ Copied' = Copied
  BY <1>1, Sizes DEF FlatTypeOK, Copied, Smaller
<1>3. /\ RecordSlot \in 1 .. HISTORY_SLOTS
      /\ Copied \in LineCells /\ Copied \in 0 .. LINE_CAPACITY
      /\ RecordSlot = Smaller(historyCount + 1, HISTORY_SLOTS)
      /\ Copied = IF length < LINE_CAPACITY THEN length ELSE LINE_CAPACITY - 1
  BY RecordSlotIs
<1>4. Text(lineBuffer, 0) = [n \in 1 .. length |-> lineBuffer[n - 1]]
  BY <1>1, LineText
<1>5. CASE RepeatsNewest /\ UNCHANGED <<historyBuffer, historyCount>>
  <2>1. historyCount # 0 /\ Entry(historyCount) = Text(lineBuffer, 0)
    BY <1>5 DEF RepeatsNewest
  <2>2. historyCount \in 1 .. HISTORY_SLOTS /\ historyCount > 0 /\ historyCount <= historyCount
    BY <1>2, <2>1, Sizes
  <2> DEFINE base == Slot(historyCount)
  <2>3. base \in Int
    <3>1. historyCount \in Nat /\ historyCount >= 1
      BY <2>2, Sizes
    <3> QED  BY <3>1, NextSlot
  <2>4. PICK size \in 0 .. LINE_CAPACITY :
          /\ TextOf(historyBuffer, base, size)
          /\ Text(historyBuffer, base) = [n \in 1 .. size |-> historyBuffer[base + n - 1]]
    BY <2>3, TextProperties
  <2>5. PICK end \in LineCells : historyBuffer[base + end] = NUL
    BY <2>2 DEF SlotsTerminated
  <2>6. size < LINE_CAPACITY
    <3> SUFFICES ASSUME ~ (size < LINE_CAPACITY) PROVE FALSE
      OBVIOUS
    <3>1. end \in 0 .. size - 1
      BY Sizes DEF LineCells
    <3> QED  BY <2>4, <2>5, <3>1 DEF TextOf
  <2>7. size = length
    <3>1. DOMAIN [n \in 1 .. size |-> historyBuffer[base + n - 1]] = 1 .. size
      OBVIOUS
    <3>2. DOMAIN [n \in 1 .. length |-> lineBuffer[n - 1]] = 1 .. length
      OBVIOUS
    <3>3. 1 .. size = 1 .. length
      BY <1>4, <2>1, <2>4, <3>1, <3>2 DEF Entry
    <3> QED  BY <1>2, <3>3, Sizes
  <2>8. Copied = length
    BY <1>3, <2>6, <2>7
  <2>9. Entry(historyCount) = [n \in 1 .. Copied |-> lineBuffer[n - 1]]
    BY <1>4, <2>1, <2>8
  <2> QED  BY <1>1, <1>2, <1>5, <2>2, <2>9 DEF NewestIsLine, Entry
<1>6. CASE historyBuffer' = Recorded /\ historyCount' = Smaller(historyCount + 1, HISTORY_SLOTS)
  <2> DEFINE k == RecordSlot
             base == Slot(k)
  <2>1. k \in 1 .. HISTORY_SLOTS /\ historyCount' = k
    BY <1>3, <1>6
  <2>2. base \in Int /\ k > 0
    <3>1. k \in Nat /\ k >= 1
      BY <2>1, Sizes
    <3> HIDE DEF k
    <3> QED  BY <3>1, NextSlot
  <2>3. \A n \in LineCells :
          /\ n < Copied => Recorded[base + n] = lineBuffer[n]
          /\ n = Copied => Recorded[base + n] = NUL
    <3> TAKE n \in LineCells
    <3>1. Recorded[Slot(k) + n] =
            IF k = k /\ n < Copied THEN lineBuffer[n]
            ELSE IF k = k /\ n = Copied THEN NUL
            ELSE IF historyCount < HISTORY_SLOTS \/ k = HISTORY_SLOTS
                 THEN historyBuffer[Slot(k) + n]
                 ELSE historyBuffer[Slot(k + 1) + n]
      BY <2>1, RecordedAt
    <3>2. n = Copied => ~ (n < Copied)
      BY <1>3, Sizes DEF LineCells
    <3> QED  BY <3>1, <3>2
  <2> HIDE DEF k, base
  <2>4. \A n \in 0 .. Copied - 1 : n \in LineCells /\ n < Copied /\ n \in 0 .. length - 1
    BY <1>2, <1>3, Sizes DEF LineCells
  <2>5. TextOf(Recorded, base, Copied)
    <3>1. \A n \in 0 .. Copied - 1 : Recorded[base + n] # NUL
      BY <1>1, <2>3, <2>4 DEF LineInv
    <3> QED  BY <1>3, <2>3, <3>1 DEF TextOf
  <2>6. Text(Recorded, base) = [n \in 1 .. Copied |-> Recorded[base + n - 1]]
    BY <2>2, <2>5, TextIs
  <2>7. \A n \in 1 .. Copied : Recorded[base + n - 1] = lineBuffer[n - 1]
    <3> TAKE n \in 1 .. Copied
    <3>1. n - 1 \in 0 .. Copied - 1 /\ base + n - 1 = base + (n - 1)
      BY <1>3, <2>2, Sizes
    <3> QED  BY <2>3, <2>4, <3>1
  <2>8. Text(Recorded, base) = [n \in 1 .. Copied |-> lineBuffer[n - 1]]
    BY <2>6, <2>7
  <2> QED  BY <1>1, <1>2, <1>6, <2>1, <2>2, <2>8 DEF NewestIsLine, Entry, base
<1> QED  BY <1>5, <1>6 DEF RecordHistory

\* The line that was read is the newest entry, cut to what a slot holds,
\* whether it was new, was shifted in or was there already.
THEOREM NewestIsTheLine ==
  ASSUME "A" \notin Finals, "B" \notin Finals
  PROVE  FlatSpec => []NewestIsLine
<1>1. FlatInit => LineInv /\ NewestIsLine
  BY DEF FlatInit, LineInv, NewestIsLine
<1>2. FlatTypeOK /\ LineInv /\ [FlatNext]_flatVars => LineInv'
  BY LineInvNext
<1>3. FlatTypeOK /\ SlotsTerminated /\ LineInv /\ NewestIsLine /\ [FlatNext]_flatVars => NewestIsLine'
  <2> SUFFICES ASSUME FlatTypeOK, SlotsTerminated, LineInv, NewestIsLine, [FlatNext]_flatVars
               PROVE  NewestIsLine'
    OBVIOUS
  <2>1. CASE RecordHistory
    BY <2>1, RecordTakesLine
  <2>2. CASE UNCHANGED flatVars \/ InputFails
    <3>1. UNCHANGED <<at, lineBuffer, length, historyBuffer, historyCount>>
      BY <2>2 DEF flatVars, readVars, historyVars, InputFails
    <3> QED  BY <3>1 DEF NewestIsLine, Copied, Entry
  <2>3. CASE Keys
    <3>1. at = "reading"
      BY <2>3 DEF Keys, StoreByte, EraseByte, EnterLine, ControlD, ControlC, PressArrow, PressEscape, SwallowKey,
         ReadBracket, OtherSequence, ArrowUp, ArrowDown, Pressed, Asks
    <3>2. at' \in {"reading", "entered", "faulted"}
      BY <2>3, <3>1 DEF Keys, StoreByte, EraseByte, EnterLine, ControlD, ControlC, PressArrow, PressEscape, SwallowKey,
         ReadBracket, OtherSequence, ArrowUp, ArrowDown, Fault, Returned
    <3> QED  BY <3>2 DEF NewestIsLine
  <2>4. CASE Runs /\ ~ RecordHistory
    <3>1. at' # "recorded"
      BY <2>4 DEF Runs, Prompt, BufferFull, ReadFails, SequenceCut, EmptyLine, TokenizeLine,
         BuiltinExit, Leave, BuiltinCat, OtherCommand, CatReads, Returned
    <3> QED  BY <3>1 DEF NewestIsLine
  <2> QED  BY <2>1, <2>2, <2>3, <2>4 DEF FlatNext
<1> QED  BY <1>1, <1>2, <1>3, FlatTypeCorrect, SlotsStayTerminated, PTL DEF FlatSpec

=============================================================================
