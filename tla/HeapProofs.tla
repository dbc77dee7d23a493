------------------------------- MODULE HeapProofs -------------------------------
(***************************************************************************)
(* Proofs about the allocator of the Rust shell on VIBIX: for every set of  *)
(* layouts, every place of the program break and every amount of memory,     *)
(* blocks stay aligned, ordered and apart, each live allocation has a block  *)
(* of its own, free neighbours are merged, and an empty heap is whole; and    *)
(* the allocator meets the contract of AllocatorContract.                     *)
(***************************************************************************)
EXTENDS Heap, SequenceTheorems, TLAPS

Block == [base : Nat, span : Nat, free : BOOLEAN]

\* A block that lies between two addresses.
Sound(b, lo, hi) ==
  /\ b.base % ALIGN = 0 /\ b.span % ALIGN = 0
  /\ b.span >= Header + ALIGN
  /\ b.base >= lo /\ End(b) <= hi

\* What BlocksApart says, of any list and any two addresses.
WellFormed(list, lo, hi) ==
  /\ list \in Seq(Block)
  /\ \A i \in 1 .. Len(list) : Sound(list[i], lo, hi)
  /\ \A i, j \in 1 .. Len(list) : i < j => End(list[i]) <= list[j].base

\* No two free neighbours, but for those at the places of except.
Apart(list, except) ==
  \A i \in 1 .. Len(list) - 1 : i \notin except => ~ Contiguous(list[i], list[i + 1])

\* The blocks cover the memory between two addresses without a gap.
Covers(list, lo, hi) ==
  IF Len(list) = 0 THEN lo = hi
  ELSE /\ list[1].base = lo /\ End(list[Len(list)]) = hi
       /\ \A i \in 1 .. Len(list) - 1 : End(list[i]) = list[i + 1].base

\* Two lists have the same used blocks.
UsedIn(b, list) == \E i \in 1 .. Len(list) : list[i] = b /\ ~ b.free
SameUsed(list, other) == \A b \in Block : UsedIn(b, list) <=> UsedIn(b, other)

-----------------------------------------------------------------------------
(* Arithmetic of alignment. *)

\* Rounding up to a power of two gives the next multiple.
LEMMA AlignUpProperties ==
  ASSUME NEW v \in Int, NEW m \in {16, 32, 64, 128}
  PROVE  /\ AlignUp(v, m) \in Int
         /\ AlignUp(v, m) % 16 = 0
         /\ v <= AlignUp(v, m)
<1>1. CASE m = 16
  BY <1>1, Z3 DEF AlignUp
<1>2. CASE m = 32
  BY <1>2, Z3 DEF AlignUp
<1>3. CASE m = 64
  BY <1>3, Z3 DEF AlignUp
<1>4. CASE m = 128
  BY <1>4, Z3 DEF AlignUp
<1> QED  BY <1>1, <1>2, <1>3, <1>4

\* And a multiple of what was asked for.
LEMMA AlignUpMultiple ==
  ASSUME NEW v \in Int, NEW m \in {16, 32, 64, 128}
  PROVE  AlignUp(v, m) % m = 0
<1>1. CASE m = 16
  BY <1>1, Z3 DEF AlignUp
<1>2. CASE m = 32
  BY <1>2, Z3 DEF AlignUp
<1>3. CASE m = 64
  BY <1>3, Z3 DEF AlignUp
<1>4. CASE m = 128
  BY <1>4, Z3 DEF AlignUp
<1> QED  BY <1>1, <1>2, <1>3, <1>4

\* Rounding down gives the multiple before.
LEMMA AlignDownProperties ==
  ASSUME NEW v \in Int
  PROVE  /\ AlignDown(v, ALIGN) \in Int
         /\ AlignDown(v, ALIGN) % ALIGN = 0
         /\ AlignDown(v, ALIGN) <= v /\ v < AlignDown(v, ALIGN) + ALIGN
BY DEF AlignDown, ALIGN

\* Multiples of the alignment add up to one.
LEMMA SumAligned ==
  ASSUME NEW m \in Int, NEW n \in Int, m % ALIGN = 0, n % ALIGN = 0
  PROVE  (m + n) % ALIGN = 0 /\ (m - n) % ALIGN = 0
BY DEF ALIGN

-----------------------------------------------------------------------------
(* Lists. *)

\* The i-th to j-th element of a sequence replaced by other elements.
Spliced(list, i, j, mid) == SubSeq(list, 1, i - 1) \o mid \o SubSeq(list, j + 1, Len(list))

\* What the result is, place by place.
SplicedAt(list, i, j, mid, result) ==
  /\ result \in Seq(Block)
  /\ Len(result) = i - 1 + Len(mid) + Len(list) - j
  /\ \A k \in 1 .. i - 1 : result[k] = list[k]
  /\ \A k \in 1 .. Len(mid) : result[i - 1 + k] = mid[k]
  /\ \A k \in j + 1 .. Len(list) : result[i - 1 + Len(mid) + k - j] = list[k]

\* Each place of the result holds an old block or one of the new ones.
LEMMA SpliceProperties ==
  ASSUME NEW list \in Seq(Block), NEW mid \in Seq(Block),
         NEW i \in 1 .. Len(list), NEW j \in i .. Len(list)
  PROVE  SplicedAt(list, i, j, mid, Spliced(list, i, j, mid))
<1> DEFINE result == Spliced(list, i, j, mid)
<1> DEFINE left == SubSeq(list, 1, i - 1)
           right == SubSeq(list, j + 1, Len(list))
<1>1. Len(list) \in Nat /\ Len(mid) \in Nat /\ i \in Nat /\ j \in Nat
  OBVIOUS
<1>2. /\ left \in Seq(Block) /\ Len(left) = i - 1
      /\ \A k \in 1 .. i - 1 : left[k] = list[k]
  <2>1. \A k \in 1 .. i - 1 : list[k] \in Block
    BY <1>1, ElementOfSeq
  <2> QED  BY <1>1, <2>1, SubSeqProperties
<1>3. /\ right \in Seq(Block) /\ Len(right) = Len(list) - j
      /\ \A k \in 1 .. Len(list) - j : right[k] = list[j + k]
  <2>1. \A k \in j + 1 .. Len(list) : list[k] \in Block
    BY <1>1, ElementOfSeq
  <2>2. /\ right \in Seq(Block)
        /\ Len(right) = IF j + 1 <= Len(list) THEN Len(list) - (j + 1) + 1 ELSE 0
        /\ \A k \in 1 .. Len(list) - (j + 1) + 1 : right[k] = list[(j + 1) + k - 1]
    BY <1>1, <2>1, SubSeqProperties
  <2>3. \A k \in 1 .. Len(list) - j : (j + 1) + k - 1 = j + k /\ k \in 1 .. Len(list) - (j + 1) + 1
    BY <1>1
  <2> HIDE DEF right
  <2> QED  BY <1>1, <2>2, <2>3
<1> HIDE DEF left, right
<1> DEFINE front == left \o mid
           n == i - 1 + Len(mid)
<1>4. /\ front \in Seq(Block) /\ Len(front) = n
      /\ \A k \in 1 .. i - 1 : front[k] = list[k]
      /\ \A k \in 1 .. Len(mid) : front[i - 1 + k] = mid[k]
  <2>1. /\ front \in Seq(Block) /\ Len(front) = Len(left) + Len(mid)
        /\ \A k \in 1 .. Len(left) + Len(mid) :
             front[k] = IF k <= Len(left) THEN left[k] ELSE mid[k - Len(left)]
    BY <1>2, ConcatProperties
  <2> HIDE DEF front
  <2>2. \A k \in 1 .. i - 1 : front[k] = list[k]
    <3> TAKE k \in 1 .. i - 1
    <3>1. k \in 1 .. Len(left) + Len(mid) /\ k <= Len(left)
      BY <1>1, <1>2
    <3> QED  BY <1>2, <2>1, <3>1
  <2>3. \A k \in 1 .. Len(mid) : front[i - 1 + k] = mid[k]
    <3> TAKE k \in 1 .. Len(mid)
    <3>1. i - 1 + k \in 1 .. Len(left) + Len(mid) /\ ~ (i - 1 + k <= Len(left)) /\ (i - 1 + k) - Len(left) = k
      BY <1>1, <1>2
    <3> QED  BY <2>1, <3>1
  <2> QED  BY <1>1, <1>2, <2>1, <2>2, <2>3
<1>5. /\ front \o right \in Seq(Block)
      /\ Len(front \o right) = Len(front) + Len(right)
      /\ \A k \in 1 .. Len(front) + Len(right) :
           (front \o right)[k] = IF k <= Len(front) THEN front[k] ELSE right[k - Len(front)]
  <2>1. front \in Seq(Block) /\ right \in Seq(Block)
    BY <1>3, <1>4
  <2> HIDE DEF front
  <2> QED  BY <2>1, ConcatProperties
<1>6. result = front \o right
  BY DEF left, right, Spliced
<1> HIDE DEF result
<1> HIDE DEF front
<1>7. n \in Nat /\ n >= i - 1 /\ Len(front) = n
  BY <1>1, <1>4
<1>8. \A k \in 1 .. n : result[k] = front[k]
  <2> TAKE k \in 1 .. n
  <2>1. k \in 1 .. Len(front) + Len(right) /\ k <= Len(front)
    BY <1>1, <1>3, <1>7
  <2> QED  BY <1>5, <1>6, <2>1
<1>9. \A k \in 1 .. i - 1 : result[k] = list[k]
  <2> TAKE k \in 1 .. i - 1
  <2>1. k \in 1 .. n
    BY <1>1, <1>7
  <2> QED  BY <1>4, <1>8, <2>1
<1>10. \A k \in 1 .. Len(mid) : result[i - 1 + k] = mid[k]
  <2> TAKE k \in 1 .. Len(mid)
  <2>1. i - 1 + k \in 1 .. n
    BY <1>1
  <2> QED  BY <1>4, <1>8, <2>1
<1>11. \A k \in j + 1 .. Len(list) : result[i - 1 + Len(mid) + k - j] = list[k]
  <2> TAKE k \in j + 1 .. Len(list)
  <2>1. /\ n + k - j \in 1 .. n + Len(right)
        /\ ~ (n + k - j <= n) /\ (n + k - j) - n = k - j
        /\ k - j \in 1 .. Len(list) - j /\ j + (k - j) = k
    BY <1>1, <1>3, <1>7
  <2>2. result[n + k - j] = right[k - j]
    <3> HIDE DEF n
    <3> QED  BY <1>5, <1>6, <1>7, <2>1
  <2> QED  BY <1>3, <2>1, <2>2
<1>12. Len(result) = i - 1 + Len(mid) + Len(list) - j
  BY <1>1, <1>3, <1>5, <1>6, <1>7
<1> QED  BY <1>5, <1>6, <1>9, <1>10, <1>11, <1>12 DEF result, SplicedAt

\* A list that differs in whether the i-th block is free.
FreedAt(list, i, value, result) ==
  /\ result \in Seq(Block) /\ Len(result) = Len(list)
  /\ \A k \in 1 .. Len(list) : k # i => result[k] = list[k]
  /\ result[i].base = list[i].base /\ result[i].span = list[i].span
  /\ result[i].free = value

\* Changing whether a block is free changes nothing else.
LEMMA FreedProperties ==
  ASSUME NEW list \in Seq(Block), NEW i \in 1 .. Len(list), NEW value \in BOOLEAN
  PROVE  FreedAt(list, i, value, [list EXCEPT ![i] = [@ EXCEPT !.free = value]])
<1>1. list[i] \in Block
  BY ElementOfSeq
<1> DEFINE e == [list[i] EXCEPT !.free = value]
<1>2. e \in Block /\ e.base = list[i].base /\ e.span = list[i].span /\ e.free = value
  BY <1>1 DEF Block
<1> HIDE DEF e
<1> DEFINE result == [list EXCEPT ![i] = e]
<1>3. result \in Seq(Block) /\ Len(result) = Len(list) /\ result[i] = e
      /\ \A k \in 1 .. Len(list) : k # i => result[k] = list[k]
  BY <1>2, ExceptSeq
<1>4. [list EXCEPT ![i] = [@ EXCEPT !.free = value]] = result
  BY DEF e
<1> HIDE DEF result
<1> QED  BY <1>2, <1>3, <1>4 DEF FreedAt

\* The numbers of a block.
LEMMA BlockNumbers ==
  ASSUME NEW b \in Block
  PROVE  b.base \in Nat /\ b.span \in Nat /\ End(b) \in Nat /\ End(b) = b.base + b.span
BY DEF Block, End

\* A sound block is not empty.
LEMMA SoundIsNotEmpty ==
  ASSUME NEW b \in Block, NEW lo, NEW hi, Sound(b, lo, hi)
  PROVE  End(b) > b.base
<1>1. b.span >= 48
  BY DEF Sound, Header, ALIGN
<1> QED  BY <1>1, BlockNumbers

\* No two blocks of a list begin at the same place.
LEMMA BlocksDiffer ==
  ASSUME NEW lo \in Nat, NEW hi \in Nat, NEW list, WellFormed(list, lo, hi),
         NEW i \in 1 .. Len(list), NEW j \in 1 .. Len(list), i # j
  PROVE  list[i].base # list[j].base
<1>1. list[i] \in Block /\ list[j] \in Block
  BY ElementOfSeq DEF WellFormed
<1>2. Sound(list[i], lo, hi) /\ Sound(list[j], lo, hi)
  BY DEF WellFormed
<1>3. End(list[i]) > list[i].base /\ End(list[j]) > list[j].base
  BY <1>1, <1>2, SoundIsNotEmpty
<1>4. End(list[i]) <= list[j].base \/ End(list[j]) <= list[i].base
  <2>1. Len(list) \in Nat
    BY DEF WellFormed
  <2>2. i < j \/ j < i
    BY <2>1
  <2> QED  BY <2>2 DEF WellFormed
<1> QED  BY <1>1, <1>3, <1>4 DEF Block, End

\* It moves no block.
LEMMA FreedKeeps ==
  ASSUME NEW lo \in Nat, NEW hi \in Nat, NEW list, WellFormed(list, lo, hi),
         NEW i \in 1 .. Len(list), NEW value \in BOOLEAN,
         NEW result, FreedAt(list, i, value, result)
  PROVE  /\ WellFormed(result, lo, hi)
         /\ Covers(list, lo, hi) => Covers(result, lo, hi)
         /\ \A b \in Block : b # result[i] =>
              (UsedIn(b, result) <=> UsedIn(b, list) /\ b # list[i])
<1>1. list \in Seq(Block) /\ Len(list) \in Nat
  BY DEF WellFormed
<1>2. \A k \in 1 .. Len(list) : list[k] \in Block /\ Sound(list[k], lo, hi)
  BY <1>1, ElementOfSeq DEF WellFormed
<1>3. /\ result \in Seq(Block) /\ Len(result) = Len(list)
      /\ \A k \in 1 .. Len(list) : k # i => result[k] = list[k]
      /\ \A k \in 1 .. Len(list) : /\ result[k].base = list[k].base
                                    /\ result[k].span = list[k].span
                                    /\ End(result[k]) = End(list[k])
  BY DEF FreedAt, End
<1>4. WellFormed(result, lo, hi)
  BY <1>2, <1>3 DEF WellFormed, Sound
<1>5. Covers(list, lo, hi) => Covers(result, lo, hi)
  BY <1>1, <1>3 DEF Covers
<1>6. ASSUME NEW b \in Block, b # result[i]
      PROVE  UsedIn(b, result) <=> UsedIn(b, list) /\ b # list[i]
  <2>1. ASSUME UsedIn(b, result) PROVE UsedIn(b, list) /\ b # list[i]
    <3>1. PICK k \in 1 .. Len(list) : result[k] = b /\ ~ b.free
      BY <1>3, <2>1 DEF UsedIn
    <3>2. k # i /\ list[k] = b
      BY <1>3, <1>6, <3>1
    <3>3. list[k].base # list[i].base
      BY <3>2, BlocksDiffer
    <3> QED  BY <3>1, <3>2, <3>3 DEF UsedIn
  <2>2. ASSUME UsedIn(b, list), b # list[i] PROVE UsedIn(b, result)
    BY <1>3, <2>2 DEF UsedIn
  <2> QED  BY <2>1, <2>2
<1> QED  BY <1>4, <1>5, <1>6

-----------------------------------------------------------------------------
(* Heap::coalesce. *)

\* A list in which one block is in the place of the i-th and the next.
MergedAt(list, i, result) ==
  /\ result \in Seq(Block) /\ Len(result) = Len(list) - 1
  /\ \A k \in 1 .. i - 1 : result[k] = list[k]
  /\ result[i].base = list[i].base
  /\ result[i].span = list[i].span + list[i + 1].span
  /\ result[i].free = TRUE
  /\ \A k \in i + 2 .. Len(list) : result[k - 1] = list[k]

\* It leaves the list alone, or puts one block in the place of two.
LEMMA CoalescedProperties ==
  ASSUME NEW list \in Seq(Block), NEW i \in Int
  PROVE  IF i \in 1 .. Len(list) - 1 /\ Contiguous(list[i], list[i + 1])
         THEN MergedAt(list, i, Coalesced(list, i))
         ELSE Coalesced(list, i) = list
<1> DEFINE result == Coalesced(list, i)
<1>1. CASE ~ (i \in 1 .. Len(list) - 1 /\ Contiguous(list[i], list[i + 1]))
  BY <1>1 DEF Coalesced
<1>2. CASE i \in 1 .. Len(list) - 1 /\ Contiguous(list[i], list[i + 1])
  <2> DEFINE e == [list[i] EXCEPT !.span = @ + list[i + 1].span]
  <2>1. /\ Len(list) \in Nat /\ i \in 1 .. Len(list) /\ i + 1 \in i .. Len(list)
        /\ i + 1 \in 1 .. Len(list)
    BY <1>2
  <2>2. list[i] \in Block /\ list[i + 1] \in Block
    BY <2>1, ElementOfSeq
  <2>3. /\ e \in Block /\ e.base = list[i].base
        /\ e.span = list[i].span + list[i + 1].span /\ e.free = list[i].free
    <3>1. list[i].span + list[i + 1].span \in Nat
      <4>1. list[i].span \in Nat /\ list[i + 1].span \in Nat
        BY <2>2, BlockNumbers
      <4>2. \A x, y \in Nat : x + y \in Nat
        OBVIOUS
      <4> HIDE DEF e, result
      <4> QED  BY <4>1, <4>2, Zenon
    <3> DEFINE total == list[i].span + list[i + 1].span
    <3> HIDE DEF total
    <3>2. \A n \in Nat : /\ [list[i] EXCEPT !.span = n] \in Block
                         /\ [list[i] EXCEPT !.span = n].base = list[i].base
                         /\ [list[i] EXCEPT !.span = n].span = n
                         /\ [list[i] EXCEPT !.span = n].free = list[i].free
      BY <2>2 DEF Block
    <3> QED  BY <3>1, <3>2
  <2>4. e.free = TRUE
    BY <1>2, <2>2, <2>3 DEF Contiguous, Block
  <2>5. result = Spliced(list, i, i + 1, <<e>>)
    <3>1. (i + 1) + 1 = i + 2
      BY <2>1
    <3> QED  BY <1>2, <3>1 DEF Coalesced, Spliced
  <2> HIDE DEF e, result
  <2> DEFINE mid == <<e>>
  <2>6. mid \in Seq(Block) /\ Len(mid) = 1 /\ mid[1] = e
    BY <2>3
  <2> HIDE DEF mid
  <2>7. /\ result \in Seq(Block)
        /\ Len(result) = i - 1 + 1 + Len(list) - (i + 1)
        /\ \A k \in 1 .. i - 1 : result[k] = list[k]
        /\ \A k \in 1 .. 1 : result[i - 1 + k] = mid[k]
        /\ \A k \in (i + 1) + 1 .. Len(list) : result[i - 1 + 1 + k - (i + 1)] = list[k]
    <3> DEFINE j == i + 1
    <3>1. result = Spliced(list, i, j, mid) /\ j \in i .. Len(list)
      BY <2>1, <2>5 DEF mid
    <3> HIDE DEF j
    <3>2. /\ result \in Seq(Block)
          /\ Len(result) = i - 1 + Len(mid) + Len(list) - j
          /\ \A k \in 1 .. i - 1 : result[k] = list[k]
          /\ \A k \in 1 .. Len(mid) : result[i - 1 + k] = mid[k]
          /\ \A k \in j + 1 .. Len(list) : result[i - 1 + Len(mid) + k - j] = list[k]
      <4>1. SplicedAt(list, i, j, mid, Spliced(list, i, j, mid))
        BY <2>1, <2>6, <3>1, SpliceProperties
      <4> QED  BY <3>1, <4>1 DEF SplicedAt
    <3> QED  BY <2>6, <3>2 DEF j
  <2>8. Len(result) = Len(list) - 1 /\ result[i] = e
    <3>1. 1 \in 1 .. 1 /\ i - 1 + 1 = i
      BY <2>1
    <3> QED  BY <2>1, <2>6, <2>7, <3>1
  <2>9. \A k \in i + 2 .. Len(list) : result[k - 1] = list[k]
    <3> TAKE k \in i + 2 .. Len(list)
    <3>1. k \in (i + 1) + 1 .. Len(list) /\ i - 1 + 1 + k - (i + 1) = k - 1
      BY <2>1
    <3> QED  BY <2>7, <3>1
  <2>10. MergedAt(list, i, result)
    BY <2>3, <2>4, <2>7, <2>8, <2>9 DEF MergedAt
  <2> QED  BY <1>2, <2>10 DEF result
<1> QED  BY <1>1, <1>2

\* Where the blocks of a list with two merged come from: a place of the new
\* list stands for a place of the old one, the merged block for the first.
LEMMA CoalescedKeeps ==
  ASSUME NEW lo \in Nat, NEW hi \in Nat, NEW list, WellFormed(list, lo, hi),
         NEW i \in Int
  PROVE  /\ WellFormed(Coalesced(list, i), lo, hi)
         /\ SameUsed(list, Coalesced(list, i))
         /\ Covers(list, lo, hi) => Covers(Coalesced(list, i), lo, hi)
<1> DEFINE result == Coalesced(list, i)
<1>1. CASE result = list
  BY <1>1 DEF SameUsed
<1> HIDE DEF result
<1>2. ASSUME i \in 1 .. Len(list) - 1, Contiguous(list[i], list[i + 1]),
             MergedAt(list, i, result)
      PROVE  /\ WellFormed(result, lo, hi)
             /\ SameUsed(list, result)
             /\ Covers(list, lo, hi) => Covers(result, lo, hi)
  <2> USE <1>2 DEF MergedAt
  <2>1. /\ Len(list) \in Nat /\ Len(result) \in Nat
        /\ i \in 1 .. Len(list) /\ i + 1 \in 1 .. Len(list) /\ i \in 1 .. Len(result)
    BY <1>2 DEF WellFormed
  <2>2. \A k \in 1 .. Len(list) : list[k] \in Block /\ Sound(list[k], lo, hi)
    BY ElementOfSeq DEF WellFormed
  <2>3. \A k \in 1 .. Len(list) : /\ list[k].base \in Nat /\ list[k].span \in Nat
                                  /\ End(list[k]) = list[k].base + list[k].span
    BY <2>2 DEF Block, End
  <2>4. End(list[i]) = list[i + 1].base /\ list[i].free /\ list[i + 1].free
    BY <1>2 DEF Contiguous
  <2>5. End(result[i]) = End(list[i + 1])
    <3>1. /\ result[i].base = list[i].base
          /\ result[i].span = list[i].span + list[i + 1].span
      BY <1>2
    <3>2. list[i + 1].base = list[i].base + list[i].span
      BY <2>1, <2>3, <2>4
    <3> HIDE <1>2 DEF MergedAt
    <3>3. End(result[i]) = (list[i].base + list[i].span) + list[i + 1].span
      <4>1. /\ list[i].base \in Nat /\ list[i].span \in Nat
            /\ list[i + 1].span \in Nat
        BY <2>1, <2>3
      <4>2. End(result[i]) = list[i].base + (list[i].span + list[i + 1].span)
        BY <3>1, Zenon DEF End
      <4>3. list[i].base + (list[i].span + list[i + 1].span)
              = (list[i].base + list[i].span) + list[i + 1].span
        <5> HIDE DEF result
        <5> QED  BY <4>1
      <4> QED  BY <4>2, <4>3, Zenon
    <3> QED  BY <3>2, <3>3 DEF End
  <2>6. \A k \in 1 .. Len(result) :
          \/ k < i /\ k \in 1 .. i - 1 /\ result[k] = list[k]
          \/ k = i
          \/ k > i /\ k + 1 \in i + 2 .. Len(list) /\ result[k] = list[k + 1]
    <3> TAKE k \in 1 .. Len(result)
    <3>1. CASE k > i
      <4>1. k + 1 \in i + 2 .. Len(list) /\ (k + 1) - 1 = k
        BY <1>2, <2>1, <3>1
      <4> QED  BY <1>2, <3>1, <4>1
    <3>2. CASE k < i
      <4>1. k \in 1 .. i - 1
        BY <2>1, <3>2
      <4> QED  BY <1>2, <3>2, <4>1
    <3> QED  BY <2>1, <3>1, <3>2
  \* first and last are the places in the old list that a place stands for
  <2> DEFINE first(k) == IF k <= i THEN k ELSE k + 1
             last(k) == IF k < i THEN k ELSE k + 1
  <2>7. \A k \in 1 .. Len(result) :
          /\ first(k) \in 1 .. Len(list) /\ last(k) \in 1 .. Len(list)
          /\ result[k].base = list[first(k)].base
          /\ End(result[k]) = End(list[last(k)])
    <3> TAKE k \in 1 .. Len(result)
    <3>1. CASE k < i
      <4>1. first(k) = k /\ last(k) = k /\ k \in 1 .. Len(list)
        BY <1>2, <2>1, <3>1
      <4>2. result[k] = list[k]
        <5> HIDE DEF first, last, result
        <5> QED  BY <2>6, <3>1
      <4> QED  BY <4>1, <4>2
    <3>2. CASE k = i
      <4>1. first(k) = i /\ last(k) = i + 1
        BY <2>1, <3>2
      <4> HIDE DEF first, last
      <4> QED  BY <1>2, <2>1, <2>5, <3>2, <4>1
    <3>3. CASE k > i
      <4>1. first(k) = k + 1 /\ last(k) = k + 1 /\ k + 1 \in 1 .. Len(list)
        BY <1>2, <2>1, <3>3
      <4>2. result[k] = list[k + 1]
        <5>1. ~ (k < i) /\ k # i
          BY <2>1, <3>3
        <5> HIDE DEF MergedAt
        <5> QED  BY <2>6, <5>1
      <4> QED  BY <4>1, <4>2
    <3> QED  BY <2>1, <3>1, <3>2, <3>3
  <2>8. \A j, k \in 1 .. Len(result) : j < k => last(j) < first(k)
    BY <1>2, <2>1
  <2>9. Sound(result[i], lo, hi)
    <3>1. Sound(list[i], lo, hi) /\ Sound(list[i + 1], lo, hi)
      BY <2>1, <2>2
    <3>2. /\ list[i].span \in Int /\ list[i + 1].span \in Int /\ list[i].base \in Nat
          /\ list[i].span % ALIGN = 0 /\ list[i + 1].span % ALIGN = 0
          /\ list[i].span >= 48 /\ list[i + 1].span >= 48
      <4>1. list[i] \in Block /\ list[i + 1] \in Block
        BY <2>1, <2>2
      <4>2. /\ list[i].span % ALIGN = 0 /\ list[i + 1].span % ALIGN = 0
            /\ list[i].span >= 48 /\ list[i + 1].span >= 48
        BY <3>1 DEF Sound, Header, ALIGN
      <4>3. list[i].span \in Nat /\ list[i + 1].span \in Nat /\ list[i].base \in Nat
        BY <4>1, BlockNumbers
      <4> QED  BY <4>2, <4>3
    <3>3. (list[i].span + list[i + 1].span) % ALIGN = 0
      BY <3>2, SumAligned
    <3>4. result[i].span % ALIGN = 0 /\ result[i].span >= 48
      BY <1>2, <3>2, <3>3
    <3>5. result[i].base % ALIGN = 0 /\ result[i].base >= lo /\ End(result[i]) <= hi
      BY <1>2, <2>5, <3>1 DEF Sound
    <3> QED  BY <3>4, <3>5 DEF Sound, Header, ALIGN
  <2>10. \A k \in 1 .. Len(result) : Sound(result[k], lo, hi)
    <3> TAKE k \in 1 .. Len(result)
    <3>1. CASE k < i
      <4>1. k \in 1 .. Len(list)
        BY <2>1, <3>1
      <4>2. result[k] = list[k]
        <5> HIDE DEF MergedAt
        <5> QED  BY <2>6, <3>1
      <4> QED  BY <2>2, <4>1, <4>2
    <3>2. CASE k > i
      <4>1. k + 1 \in 1 .. Len(list)
        <5>1. k \in 1 .. Len(list) - 1
          BY <1>2, <2>1
        <5> QED  BY <2>1, <5>1
      <4>2. result[k] = list[k + 1]
        <5>1. ~ (k < i) /\ k # i
          BY <2>1, <3>2
        <5> HIDE DEF MergedAt
        <5> QED  BY <2>6, <5>1
      <4> QED  BY <2>2, <4>1, <4>2
    <3> QED  BY <2>1, <2>9, <3>1, <3>2
  <2>11. WellFormed(result, lo, hi)
    <3>1. ASSUME NEW j \in 1 .. Len(result), NEW k \in 1 .. Len(result), j < k
          PROVE  End(result[j]) <= result[k].base
      <4>1. last(j) \in 1 .. Len(list) /\ first(k) \in 1 .. Len(list) /\ last(j) < first(k)
        BY <2>7, <2>8, <3>1
      <4>2. End(list[last(j)]) <= list[first(k)].base
        BY <4>1 DEF WellFormed
      <4> QED  BY <2>7, <4>2
    <3> QED  BY <1>2, <2>10, <3>1 DEF WellFormed
  <2>12. SameUsed(list, result)
    <3>1. ASSUME NEW b \in Block, UsedIn(b, list) PROVE UsedIn(b, result)
      <4>1. PICK k \in 1 .. Len(list) : list[k] = b /\ ~ b.free
        BY <3>1 DEF UsedIn
      <4>2. k # i /\ k # i + 1
        BY <2>4, <4>1
      <4>3. CASE k < i
        <5>1. k \in 1 .. Len(result) /\ k \in 1 .. i - 1
          BY <1>2, <2>1, <4>3
        <5> QED  BY <1>2, <4>1, <5>1 DEF UsedIn
      <4>4. CASE k > i + 1
        <5>1. k - 1 \in 1 .. Len(result) /\ k \in i + 2 .. Len(list)
          BY <1>2, <2>1, <4>4
        <5> QED  BY <1>2, <4>1, <5>1 DEF UsedIn
      <4> QED  BY <2>1, <4>2, <4>3, <4>4
    <3>2. ASSUME NEW b \in Block, UsedIn(b, result) PROVE UsedIn(b, list)
      <4>1. PICK k \in 1 .. Len(result) : result[k] = b /\ ~ b.free
        BY <3>2 DEF UsedIn
      <4>2. k # i
        BY <1>2, <4>1
      <4>3. \E n \in 1 .. Len(list) : list[n] = result[k]
        BY <1>2, <2>1, <2>6, <4>2
      <4> QED  BY <4>1, <4>3 DEF UsedIn
    <3> QED  BY <3>1, <3>2 DEF SameUsed
  <2>13. ASSUME Covers(list, lo, hi) PROVE Covers(result, lo, hi)
    <3>1. /\ list[1].base = lo /\ End(list[Len(list)]) = hi
          /\ \A k \in 1 .. Len(list) - 1 : End(list[k]) = list[k + 1].base
      BY <2>1, <2>13 DEF Covers
    <3>2. /\ 1 \in 1 .. Len(result) /\ Len(result) \in 1 .. Len(result)
          /\ first(1) = 1 /\ last(Len(result)) = Len(list)
      BY <1>2, <2>1
    <3>3. result[1].base = lo /\ End(result[Len(result)]) = hi
      BY <2>7, <3>1, <3>2
    <3>4. ASSUME NEW k \in 1 .. Len(result) - 1
          PROVE  End(result[k]) = result[k + 1].base
      <4>1. /\ k \in 1 .. Len(result) /\ k + 1 \in 1 .. Len(result)
            /\ last(k) \in 1 .. Len(list) - 1 /\ first(k + 1) = last(k) + 1
        BY <1>2, <2>1
      <4>2. End(list[last(k)]) = list[last(k) + 1].base
        BY <3>1, <4>1
      <4> QED  BY <2>7, <4>1, <4>2
    <3>5. Len(result) # 0
      BY <1>2, <2>1
    <3> HIDE DEF MergedAt, first, last
    <3> QED  BY <3>3, <3>4, <3>5 DEF Covers
  <2> QED  BY <2>11, <2>12, <2>13
<1>3. list \in Seq(Block)
  BY DEF WellFormed
<1>4. IF i \in 1 .. Len(list) - 1 /\ Contiguous(list[i], list[i + 1])
      THEN MergedAt(list, i, result) ELSE result = list
  BY <1>3, CoalescedProperties DEF result
<1> QED  BY <1>1, <1>2, <1>4 DEF result

\* Merging at i leaves two free neighbours only where there were some, and
\* none at i: the merged block ends where its second half ended.
LEMMA CoalescedApart ==
  ASSUME NEW lo \in Nat, NEW hi \in Nat, NEW list, WellFormed(list, lo, hi),
         NEW i \in Int, NEW except, except \subseteq {i - 1}, Apart(list, {i} \cup except)
  PROVE  Apart(Coalesced(list, i), except)
<1> DEFINE result == Coalesced(list, i)
<1> HIDE DEF result
<1>0. list \in Seq(Block)
  BY DEF WellFormed
<1>1. IF i \in 1 .. Len(list) - 1 /\ Contiguous(list[i], list[i + 1])
      THEN MergedAt(list, i, result) ELSE result = list
  BY <1>0, CoalescedProperties DEF result
<1>2. CASE ~ (i \in 1 .. Len(list) - 1 /\ Contiguous(list[i], list[i + 1]))
  <2>1. result = list
    BY <1>1, <1>2
  <2>2. SUFFICES ASSUME NEW k \in 1 .. Len(list) - 1, k \notin except
                 PROVE  ~ Contiguous(list[k], list[k + 1])
    BY <2>1 DEF result, Apart
  <2>3. CASE k = i
    BY <1>2, <2>3
  <2>4. CASE k # i
    <3>1. k \notin {i} \cup except
      BY <2>2, <2>4
    <3> QED  BY <3>1 DEF Apart
  <2> QED  BY <2>3, <2>4
<1>3. ASSUME i \in 1 .. Len(list) - 1, Contiguous(list[i], list[i + 1]),
             MergedAt(list, i, result)
      PROVE  Apart(result, except)
  <2>1. /\ Len(list) \in Nat /\ Len(result) = Len(list) - 1 /\ i \in Nat /\ i \in 1 .. Len(list)
        /\ i + 1 \in 1 .. Len(list)
    BY <1>0, <1>3 DEF MergedAt
  <2>2. /\ list[i].free /\ list[i + 1].free /\ result[i].free
        /\ result[i].base = list[i].base /\ End(result[i]) = End(list[i + 1])
    <3>1. /\ list[i] \in Block /\ list[i + 1] \in Block
      BY <1>0, <2>1, ElementOfSeq
    <3>2. End(list[i]) = list[i + 1].base /\ list[i].free /\ list[i + 1].free
      BY <1>3 DEF Contiguous
    <3>3. /\ result[i].base = list[i].base /\ result[i].free
          /\ result[i].span = list[i].span + list[i + 1].span
      BY <1>3 DEF MergedAt
    <3>4. End(result[i]) = End(list[i + 1])
      BY <3>1, <3>2, <3>3 DEF End, Block
    <3> QED  BY <3>2, <3>3, <3>4
  <2>3. \A k \in 1 .. Len(result) : k < i => result[k] = list[k]
    <3> TAKE k \in 1 .. Len(result)
    <3>1. k < i => k \in 1 .. i - 1
      BY <2>1
    <3> QED  BY <1>3, <3>1 DEF MergedAt
  <2>4. \A k \in 1 .. Len(result) : k > i => result[k] = list[k + 1]
    <3> TAKE k \in 1 .. Len(result)
    <3>1. k > i => k + 1 \in i + 2 .. Len(list) /\ (k + 1) - 1 = k
      BY <2>1
    <3> QED  BY <1>3, <3>1 DEF MergedAt
  <2>5. SUFFICES ASSUME NEW k \in 1 .. Len(result) - 1, k \notin except
                 PROVE  ~ Contiguous(result[k], result[k + 1])
    BY DEF Apart
  <2>6. k \in 1 .. Len(result) /\ k + 1 \in 1 .. Len(result)
    BY <2>1
  <2>7. CASE k + 1 < i
    <3>1. k \in 1 .. Len(list) - 1 /\ k \notin {i} \cup except
      BY <2>1, <2>5, <2>7
    <3>2. result[k] = list[k] /\ result[k + 1] = list[k + 1]
      BY <2>1, <2>3, <2>6, <2>7
    <3> QED  BY <3>1, <3>2 DEF Apart
  <2>8. CASE k + 1 = i
    <3>1. k \in 1 .. Len(list) - 1 /\ k \notin {i} \cup except
      BY <2>1, <2>5, <2>8
    <3>2. ~ Contiguous(list[k], list[i])
      BY <2>8, <3>1 DEF Apart
    <3>3. result[k] = list[k]
      BY <2>1, <2>3, <2>6, <2>8
    <3> QED  BY <2>2, <2>8, <3>2, <3>3 DEF Contiguous
  <2>9. CASE k = i
    <3>1. i + 1 \in 1 .. Len(list) - 1 /\ i + 1 \notin {i} \cup except
      BY <2>1, <2>9
    <3>2. ~ Contiguous(list[i + 1], list[(i + 1) + 1])
      BY <3>1 DEF Apart
    <3>3. result[k + 1] = list[(i + 1) + 1]
      BY <2>1, <2>4, <2>6, <2>9
    <3> QED  BY <2>2, <2>9, <3>2, <3>3 DEF Contiguous
  <2>10. CASE k > i
    <3>1. k + 1 \in 1 .. Len(list) - 1 /\ k + 1 \notin {i} \cup except
      BY <2>1, <2>10
    <3>2. ~ Contiguous(list[k + 1], list[(k + 1) + 1])
      BY <3>1 DEF Apart
    <3>3. result[k] = list[k + 1] /\ result[k + 1] = list[(k + 1) + 1]
      BY <2>1, <2>4, <2>6, <2>10
    <3> QED  BY <3>2, <3>3
  <2> QED  BY <2>1, <2>7, <2>8, <2>9, <2>10
<1> QED  BY <1>1, <1>2, <1>3 DEF result

-----------------------------------------------------------------------------
(* Heap::deallocate. *)

\* A freed block is merged with both neighbours: every other used block stays
\* as it was, and no two free neighbours are left.
LEMMA ReleasedKeeps ==
  ASSUME NEW lo \in Nat, NEW hi \in Nat, NEW list, WellFormed(list, lo, hi),
         Apart(list, {}), NEW i \in 1 .. Len(list)
  PROVE  /\ WellFormed(Released(list, i), lo, hi) /\ Apart(Released(list, i), {})
         /\ Covers(list, lo, hi) => Covers(Released(list, i), lo, hi)
         /\ \A b \in Block :
              UsedIn(b, Released(list, i)) <=> UsedIn(b, list) /\ b # list[i]
<1> DEFINE freed == [list EXCEPT ![i] = [@ EXCEPT !.free = TRUE]]
           once == Coalesced(freed, i)
<1>1. list \in Seq(Block) /\ Len(list) \in Nat /\ i \in Int
  BY DEF WellFormed
<1>2. FreedAt(list, i, TRUE, freed)
  BY <1>1, FreedProperties
<1>3. Released(list, i) = Coalesced(once, i - 1)
  BY DEF Released
<1> HIDE DEF freed
<1>5. /\ freed \in Seq(Block) /\ Len(freed) = Len(list) /\ freed[i].free = TRUE
      /\ \A k \in 1 .. Len(list) : k # i => freed[k] = list[k]
  BY <1>2 DEF FreedAt
<1>6. /\ WellFormed(freed, lo, hi)
      /\ Covers(list, lo, hi) => Covers(freed, lo, hi)
      /\ \A b \in Block : b # freed[i] =>
           (UsedIn(b, freed) <=> UsedIn(b, list) /\ b # list[i])
  BY <1>2, FreedKeeps
<1>8. Apart(freed, {i} \cup {i - 1})
  <2> SUFFICES ASSUME NEW k \in 1 .. Len(freed) - 1, k \notin {i} \cup {i - 1}
               PROVE  ~ Contiguous(freed[k], freed[k + 1])
    BY DEF Apart
  <2>1. k \in 1 .. Len(list) - 1 /\ k # i /\ k + 1 # i /\ k \in 1 .. Len(list) /\ k + 1 \in 1 .. Len(list)
    BY <1>1, <1>5
  <2> QED  BY <1>5, <2>1 DEF Apart
<1>9. \A b \in Block : UsedIn(b, freed) <=> UsedIn(b, list) /\ b # list[i]
  <2> TAKE b \in Block
  <2>1. CASE b = freed[i]
    <3>1. ~ UsedIn(b, freed) /\ b.free
      BY <1>5, <2>1 DEF UsedIn
    <3>2. ~ UsedIn(b, list)
      BY <3>1 DEF UsedIn
    <3> QED  BY <3>1, <3>2
  <2>2. CASE b # freed[i]
    BY <1>6, <2>2
  <2> QED  BY <2>1, <2>2
<1>10. /\ WellFormed(once, lo, hi) /\ SameUsed(freed, once)
       /\ Covers(freed, lo, hi) => Covers(once, lo, hi)
  BY <1>1, <1>6, CoalescedKeeps
<1>11. Apart(once, {i - 1})
  BY <1>1, <1>6, <1>8, CoalescedApart
<1> HIDE DEF once
<1>12. i - 1 \in Int
  BY <1>1
<1>13. /\ WellFormed(Coalesced(once, i - 1), lo, hi) /\ SameUsed(once, Coalesced(once, i - 1))
       /\ Covers(once, lo, hi) => Covers(Coalesced(once, i - 1), lo, hi)
  BY <1>10, <1>12, CoalescedKeeps
<1>14. Apart(Coalesced(once, i - 1), {})
  <2> DEFINE j == i - 1
  <2>1. Apart(once, {j} \cup {}) /\ j \in Int
    BY <1>11, <1>12
  <2> HIDE DEF j
  <2>2. Apart(Coalesced(once, j), {})
    BY <1>10, <2>1, CoalescedApart
  <2> QED  BY <2>2 DEF j
<1>15. \A b \in Block : UsedIn(b, Coalesced(once, i - 1)) <=> UsedIn(b, list) /\ b # list[i]
  BY <1>9, <1>10, <1>13 DEF SameUsed
<1> QED  BY <1>3, <1>6, <1>10, <1>13, <1>14, <1>15

-----------------------------------------------------------------------------
(* Heap::allocate. *)

Layout == [size : Nat \ {0}, align : {1, 2, 4, 8, 16, 32, 64, 128}]

\* p is v or the next address above it that a header may stand at.
RoundedUp(v, p) == p \in Int /\ p % 16 = 0 /\ v <= p

\* AlignUp gives it, for every alignment of a header or above.
LEMMA AlignUpRounds ==
  ASSUME NEW v \in Int, NEW m \in {16, 32, 64, 128}
  PROVE  RoundedUp(v, AlignUp(v, m))
BY AlignUpProperties, SMTT(20) DEF RoundedUp

\* The pointer is aligned as asked and leaves room for the header and the
\* word that leads back to it; the bytes to take are enough, and are aligned.
LEMMA PayloadProperties ==
  ASSUME NEW b \in Block, b.base % ALIGN = 0, NEW l \in Layout
  PROVE  /\ Payload(b, l) \in Nat /\ Payload(b, l) % l.align = 0
         /\ b.base + Header + Word <= Payload(b, l)
         /\ Required(b, l) \in Nat /\ Required(b, l) % ALIGN = 0
         /\ Required(b, l) >= Header + ALIGN
         /\ Payload(b, l) + l.size <= b.base + Required(b, l)
<1> DEFINE m == MaxOf(l.align, ALIGN)
           v == b.base + Header + Word
           p == AlignUp(v, m)
           w == p + l.size - b.base
<1>1. b.base \in Nat /\ l.size \in Nat /\ l.size >= 1 /\ l.align \in {1, 2, 4, 8, 16, 32, 64, 128}
  BY DEF Block, Layout
<1>2. /\ m \in {16, 32, 64, 128} /\ v \in Nat /\ v = b.base + 40
      /\ l.align \in {1, 2, 4, 8} \/ l.align = m
  BY <1>1 DEF MaxOf, ALIGN, Header, Word
<1> HIDE DEF m, v
<1>3. /\ p \in Int /\ p % 16 = 0 /\ p % m = 0 /\ v <= p
  <2>1. v \in Int /\ m \in {16, 32, 64, 128}
    BY <1>2
  <2>2. AlignUp(v, m) \in Int /\ AlignUp(v, m) % 16 = 0 /\ v <= AlignUp(v, m)
    <3>1. RoundedUp(v, AlignUp(v, m))
      BY <2>1, AlignUpRounds
    <3> QED  BY <3>1 DEF RoundedUp
  <2>3. AlignUp(v, m) % m = 0
    BY <2>1, AlignUpMultiple
  <2> QED  BY <2>2, <2>3
<1> HIDE DEF p
<1>4. p \in Nat
  BY <1>2, <1>3
<1>5. p % l.align = 0
  <2>1. CASE l.align = m
    BY <1>3, <2>1
  <2>2. CASE l.align = 1
    BY <1>4, <2>2
  <2>3. CASE l.align = 2
    BY <1>3, <1>4, <2>3
  <2>4. CASE l.align = 4
    BY <1>3, <1>4, <2>4
  <2>5. CASE l.align = 8
    BY <1>3, <1>4, <2>5
  <2> QED  BY <1>2, <2>1, <2>2, <2>3, <2>4, <2>5
<1>6. w \in Int /\ w >= 41
  BY <1>1, <1>2, <1>3
<1> HIDE DEF w
<1>7. /\ AlignUp(w, ALIGN) \in Int /\ AlignUp(w, ALIGN) % 16 = 0 /\ w <= AlignUp(w, ALIGN)
  BY <1>6, AlignUpProperties DEF ALIGN
<1>8. AlignUp(w, ALIGN) >= 48
  BY <1>6, <1>7
<1>9. Payload(b, l) = p
  BY DEF Payload, p, v, m
<1>10. Required(b, l) = AlignUp(w, ALIGN)
  BY <1>9 DEF Required, w
<1>11. p + l.size <= b.base + AlignUp(w, ALIGN)
  BY <1>1, <1>4, <1>7 DEF w
<1>12. b.base + Header + Word <= p
  BY <1>3 DEF v
<1> HIDE DEF p
<1> QED  BY <1>4, <1>5, <1>7, <1>8, <1>9, <1>10, <1>11, <1>12 DEF Header, ALIGN

\* A list in which two blocks are in the place of the i-th.
SplitAt(list, i, used, left, result) ==
  /\ result \in Seq(Block) /\ Len(result) = Len(list) + 1
  /\ result[i] = used /\ result[i + 1] = left
  /\ \A k \in 1 .. i - 1 : result[k] = list[k]
  /\ \A k \in i + 1 .. Len(list) : result[k + 1] = list[k]

\* The two blocks share the memory of the one.
SharedBy(b, used, left) ==
  /\ b.free /\ ~ used.free /\ left.free
  /\ used.base = b.base /\ End(used) = left.base /\ End(left) = End(b)

\* Splitting a free block adds a used one, and no two free neighbours: the
\* free half ends where the block did.
LEMMA SplitKeeps ==
  ASSUME NEW lo \in Nat, NEW hi \in Nat, NEW list, WellFormed(list, lo, hi),
         Apart(list, {}), NEW i \in 1 .. Len(list), NEW used \in Block, NEW left \in Block,
         Sound(used, lo, hi), Sound(left, lo, hi), SharedBy(list[i], used, left),
         NEW result, SplitAt(list, i, used, left, result)
  PROVE  /\ WellFormed(result, lo, hi) /\ Apart(result, {})
         /\ Covers(list, lo, hi) => Covers(result, lo, hi)
         /\ \A b \in Block : UsedIn(b, result) <=> UsedIn(b, list) \/ b = used
<1>1. list \in Seq(Block) /\ Len(list) \in Nat /\ i \in Nat
  BY DEF WellFormed
<1>2. \A k \in 1 .. Len(list) : list[k] \in Block /\ Sound(list[k], lo, hi)
  BY <1>1, ElementOfSeq DEF WellFormed
<1>3. \A k \in 1 .. Len(list) : /\ list[k].base \in Nat /\ End(list[k]) \in Nat
                                /\ list[k].base < End(list[k])
  <2> SUFFICES ASSUME NEW k \in 1 .. Len(list)
               PROVE  /\ list[k].base \in Nat /\ End(list[k]) \in Nat
                      /\ list[k].base < End(list[k])
    OBVIOUS
  <2>1. list[k] \in Block /\ Sound(list[k], lo, hi)
    BY <1>2
  <2>2. End(list[k]) > list[k].base
    BY <2>1, SoundIsNotEmpty
  <2> QED  BY <2>1, <2>2, BlockNumbers
<1>4. /\ used.base \in Nat /\ End(used) \in Nat /\ used.base < End(used)
      /\ left.base \in Nat /\ End(left) \in Nat /\ left.base < End(left)
  <2>1. used.base \in Nat /\ End(used) \in Nat /\ left.base \in Nat /\ End(left) \in Nat
    BY BlockNumbers
  <2>2. End(used) > used.base /\ End(left) > left.base
    BY SoundIsNotEmpty
  <2> QED  BY <2>1, <2>2
<1>5. /\ result \in Seq(Block) /\ Len(result) = Len(list) + 1
      /\ result[i] = used /\ result[i + 1] = left
  BY DEF SplitAt
<1>6. \A k \in 1 .. Len(result) : k < i => k \in 1 .. Len(list) /\ result[k] = list[k]
  <2> TAKE k \in 1 .. Len(result)
  <2>1. k < i => k \in 1 .. i - 1 /\ k \in 1 .. Len(list)
    BY <1>1
  <2> QED  BY <2>1 DEF SplitAt
<1>7. \A k \in 1 .. Len(result) : k > i + 1 => k - 1 \in 1 .. Len(list) /\ result[k] = list[k - 1]
  <2> TAKE k \in 1 .. Len(result)
  <2>1. k > i + 1 => k - 1 \in i + 1 .. Len(list) /\ (k - 1) + 1 = k
    BY <1>1, <1>5
  <2> QED  BY <1>1, <2>1 DEF SplitAt
\* the place in the old list that a place of the new one comes from
<1> DEFINE old(k) == IF k <= i THEN k ELSE k - 1
<1>8. \A k \in 1 .. Len(result) :
        /\ old(k) \in 1 .. Len(list)
        /\ Sound(result[k], lo, hi)
        /\ list[old(k)].base <= result[k].base /\ End(result[k]) <= End(list[old(k)])
        /\ k # i + 1 => result[k].base = list[old(k)].base
        /\ k # i => End(result[k]) = End(list[old(k)])
  <2> TAKE k \in 1 .. Len(result)
  <2>1. CASE k < i
    <3>1. old(k) = k /\ k \in 1 .. Len(list) /\ result[k] = list[k]
      BY <1>1, <1>6, <2>1
    <3> HIDE DEF old
    <3> QED  BY <1>2, <1>3, <3>1
  <2>2. CASE k = i
    <3>1. old(k) = i
      BY <1>1, <2>2
    <3>2. used.base = list[i].base /\ End(used) <= End(list[i])
      BY <1>3, <1>4 DEF SharedBy
    <3> HIDE DEF old
    <3> QED  BY <1>1, <1>3, <1>4, <1>5, <2>2, <3>1, <3>2
  <2>3. CASE k = i + 1
    <3>1. old(k) = i /\ k # i
      BY <1>1, <2>3
    <3>2. list[i].base <= left.base /\ End(left) = End(list[i])
      BY <1>3, <1>4 DEF SharedBy
    <3> HIDE DEF old
    <3> QED  BY <1>1, <1>3, <1>4, <1>5, <2>3, <3>1, <3>2
  <2>4. CASE k > i + 1
    <3>1. old(k) = k - 1 /\ k - 1 \in 1 .. Len(list) /\ result[k] = list[k - 1]
      BY <1>1, <1>7, <2>4
    <3> HIDE DEF old
    <3>2. old(k) \in 1 .. Len(list) /\ result[k] = list[old(k)]
      BY <3>1
    <3>3. /\ End(result[k]) = End(list[old(k)]) /\ result[k].base = list[old(k)].base
          /\ End(list[old(k)]) \in Nat /\ list[old(k)].base \in Nat
      BY <1>3, <3>2
    <3>4. Sound(result[k], lo, hi)
      BY <1>2, <3>2
    <3> QED  BY <3>2, <3>3, <3>4
  <2> QED  BY <1>1, <2>1, <2>2, <2>3, <2>4
<1>9. ASSUME NEW j \in 1 .. Len(result), NEW k \in 1 .. Len(result), j < k
      PROVE  End(result[j]) <= result[k].base
  <2>1. CASE old(j) < old(k)
    <3>1. End(list[old(j)]) <= list[old(k)].base
      BY <1>8, <2>1 DEF WellFormed
    <3>2. /\ End(result[j]) \in Nat /\ result[k].base \in Nat
          /\ End(list[old(j)]) \in Nat /\ list[old(k)].base \in Nat
      <4>1. result[j] \in Block /\ result[k] \in Block
        BY <1>5, ElementOfSeq
      <4>2. old(j) \in 1 .. Len(list) /\ old(k) \in 1 .. Len(list)
        BY <1>8
      <4> HIDE DEF old
      <4>3. End(result[j]) \in Nat /\ result[k].base \in Nat
        BY <4>1, BlockNumbers
      <4> QED  BY <1>3, <4>2, <4>3
    <3>3. End(result[j]) <= End(list[old(j)]) /\ list[old(k)].base <= result[k].base
      BY <1>8
    <3>4. \A w, x, y, z \in Nat : w <= x /\ x <= y /\ y <= z => w <= z
      OBVIOUS
    <3> HIDE DEF old
    <3> QED  BY <3>1, <3>2, <3>3, <3>4
  <2>2. CASE ~ (old(j) < old(k))
    <3>1. j = i /\ k = i + 1
      BY <1>1, <1>9, <2>2
    <3> QED  BY <1>4, <1>5, <3>1 DEF SharedBy
  <2> QED  BY <2>1, <2>2
<1>10. WellFormed(result, lo, hi)
  <2> HIDE DEF old
  <2> QED  BY <1>5, <1>8, <1>9 DEF WellFormed
<1>11. Apart(result, {})
  <2> SUFFICES ASSUME NEW k \in 1 .. Len(result) - 1
               PROVE  ~ Contiguous(result[k], result[k + 1])
    BY DEF Apart
  <2>0. k \in 1 .. Len(result) /\ k + 1 \in 1 .. Len(result)
    BY <1>1, <1>5
  <2>1. CASE k + 1 < i
    <3>1. k \in 1 .. Len(list) - 1 /\ k < i
      BY <1>1, <2>1
    <3>2. result[k] = list[k] /\ result[k + 1] = list[k + 1]
      BY <1>6, <2>0, <2>1, <3>1
    <3> QED  BY <3>1, <3>2 DEF Apart
  <2>2. CASE k + 1 = i \/ k = i
    BY <1>5, <2>2 DEF Contiguous, SharedBy
  <2>3. CASE k = i + 1
    <3>1. i \in 1 .. Len(list) - 1 /\ k + 1 > i + 1 /\ (k + 1) - 1 = i + 1
      BY <1>1, <1>5, <2>3
    <3>2. ~ Contiguous(list[i], list[i + 1])
      BY <3>1 DEF Apart
    <3>3. result[k] = left /\ result[k + 1] = list[i + 1]
      BY <1>5, <1>7, <2>0, <2>3, <3>1
    <3> QED  BY <3>2, <3>3 DEF Contiguous, SharedBy
  <2>4. CASE k > i + 1
    <3>1. /\ k - 1 \in 1 .. Len(list) - 1 /\ k + 1 > i + 1
          /\ (k + 1) - 1 = (k - 1) + 1
      BY <1>1, <1>5, <2>4
    <3>2. ~ Contiguous(list[k - 1], list[(k - 1) + 1])
      BY <3>1 DEF Apart
    <3>3. result[k] = list[k - 1]
      BY <1>7, <2>0, <2>4
    <3>4. result[k + 1] = list[(k + 1) - 1]
      BY <1>7, <2>0, <3>1
    <3> QED  BY <3>1, <3>2, <3>3, <3>4
  <2> QED  BY <1>1, <2>0, <2>1, <2>2, <2>3, <2>4
<1>12. ASSUME Covers(list, lo, hi) PROVE Covers(result, lo, hi)
  <2>1. /\ list[1].base = lo /\ End(list[Len(list)]) = hi
        /\ \A k \in 1 .. Len(list) - 1 : End(list[k]) = list[k + 1].base
    BY <1>1, <1>12 DEF Covers
  <2>2. /\ 1 \in 1 .. Len(result) /\ Len(result) \in 1 .. Len(result)
        /\ 1 # i + 1 /\ Len(result) # i /\ Len(result) # 0
        /\ old(1) = 1 /\ old(Len(result)) = Len(list)
    BY <1>1, <1>5
  <2>3. result[1].base = lo /\ End(result[Len(result)]) = hi
    <3> HIDE DEF old
    <3> QED  BY <1>8, <2>1, <2>2
  <2>4. ASSUME NEW k \in 1 .. Len(result) - 1
        PROVE  End(result[k]) = result[k + 1].base
    <3>1. k \in 1 .. Len(result) /\ k + 1 \in 1 .. Len(result)
      BY <1>1, <1>5
    <3>2. CASE k = i
      BY <1>5, <3>2 DEF SharedBy
    <3>3. CASE k # i
      <4>1. k + 1 # i + 1 /\ old(k) \in 1 .. Len(list) - 1 /\ old(k + 1) = old(k) + 1
        BY <1>1, <1>5, <3>3
      <4> HIDE DEF old
      <4>2. End(result[k]) = End(list[old(k)])
        BY <1>8, <3>1, <3>3
      <4>3. result[k + 1].base = list[old(k) + 1].base
        BY <1>8, <3>1, <4>1
      <4> QED  BY <2>1, <4>1, <4>2, <4>3
    <3> QED  BY <3>2, <3>3
  <2> HIDE DEF old
  <2> QED  BY <2>2, <2>3, <2>4 DEF Covers
<1>13. ASSUME NEW b \in Block
       PROVE  UsedIn(b, result) <=> UsedIn(b, list) \/ b = used
  <2>1. ASSUME UsedIn(b, list) PROVE UsedIn(b, result)
    <3>1. PICK k \in 1 .. Len(list) : list[k] = b /\ ~ b.free
      BY <2>1 DEF UsedIn
    <3>2. k # i
      BY <3>1 DEF SharedBy
    <3>3. CASE k < i
      <4>1. k \in 1 .. Len(result)
        BY <1>1, <1>5
      <4> QED  BY <1>6, <3>1, <3>3, <4>1 DEF UsedIn
    <3>4. CASE k > i
      <4>1. k + 1 \in 1 .. Len(result) /\ k + 1 > i + 1 /\ (k + 1) - 1 = k
        BY <1>1, <1>5, <3>4
      <4>2. result[k + 1] = b
        BY <1>7, <3>1, <4>1
      <4> QED  BY <3>1, <4>1, <4>2 DEF UsedIn
    <3> QED  BY <1>1, <3>2, <3>3, <3>4
  <2>2. UsedIn(used, result)
    <3>1. i \in 1 .. Len(result)
      BY <1>1, <1>5
    <3> QED  BY <1>5, <3>1 DEF UsedIn, SharedBy
  <2>3. ASSUME UsedIn(b, result), b # used PROVE UsedIn(b, list)
    <3>1. PICK k \in 1 .. Len(result) : result[k] = b /\ ~ b.free
      BY <2>3 DEF UsedIn
    <3>2. k # i /\ k # i + 1
      BY <1>5, <2>3, <3>1 DEF SharedBy
    <3>3. k < i \/ k > i + 1
      BY <1>1, <3>2
    <3>4. \E n \in 1 .. Len(list) : list[n] = result[k]
      BY <1>6, <1>7, <3>3
    <3> QED  BY <3>1, <3>4 DEF UsedIn
  <2> QED  BY <2>1, <2>2, <2>3
<1> HIDE DEF old
<1> QED  BY <1>10, <1>11, <1>12, <1>13

\* The block an allocation ends up with.
Holds(b, a, base) ==
  b.base = base /\ ~ b.free /\ base + Header + Word <= a.ptr /\ a.ptr + a.size <= End(b)

\* The block that fits is used, and what is left of it may become a free one:
\* every other used block stays as it was, and no two free neighbours appear.
LEMMA TakenKeeps ==
  ASSUME NEW lo \in Nat, NEW hi \in Nat, NEW list, WellFormed(list, lo, hi),
         Apart(list, {}), NEW i \in 1 .. Len(list), NEW l \in Layout, Fits(list[i], l),
         NEW a, a.ptr = Payload(list[i], l), a.size = l.size
  PROVE  /\ WellFormed(Taken(list, i, l), lo, hi) /\ Apart(Taken(list, i, l), {})
         /\ Covers(list, lo, hi) => Covers(Taken(list, i, l), lo, hi)
         /\ \E b \in Block :
              /\ Holds(b, a, list[i].base)
              /\ \A c \in Block : UsedIn(c, Taken(list, i, l)) <=> UsedIn(c, list) \/ c = b
<1> DEFINE result == Taken(list, i, l)
           need == Required(list[i], l)
           rest == list[i].span - need
           used == [base |-> list[i].base, span |-> need, free |-> FALSE]
           left == [base |-> list[i].base + need, span |-> rest, free |-> TRUE]
           whole == [list[i] EXCEPT !.free = FALSE]
<1>1. list \in Seq(Block) /\ Len(list) \in Nat /\ i \in Nat
  BY DEF WellFormed
<1>2. \A k \in 1 .. Len(list) :
        /\ list[k] \in Block /\ Sound(list[k], lo, hi)
        /\ list[k].base \in Nat /\ list[k].span \in Nat
        /\ End(list[k]) = list[k].base + list[k].span
  <2>1. \A k \in 1 .. Len(list) : list[k] \in Block
    BY <1>1, ElementOfSeq
  <2> QED  BY <2>1 DEF WellFormed, Block, End
<1>3. /\ need \in Nat /\ need % ALIGN = 0 /\ need >= Header + ALIGN
      /\ list[i].base + Header + Word <= a.ptr
      /\ a.ptr + a.size <= list[i].base + need
      /\ need <= list[i].span /\ list[i].free
  <2>1. list[i] \in Block /\ list[i].base % ALIGN = 0
    BY <1>2 DEF Sound
  <2> QED  BY <2>1, PayloadProperties DEF Fits
<1>4. rest \in Nat /\ rest % ALIGN = 0 /\ need + rest = list[i].span
  <2>1. list[i].span \in Nat /\ list[i].span % ALIGN = 0
    BY <1>2 DEF Sound
  <2> HIDE DEF need
  <2>2. (list[i].span - need) % ALIGN = 0
    <3>1. list[i].span \in Int /\ need \in Int
      BY <1>3, <2>1
    <3> QED  BY <1>3, <2>1, <3>1, SumAligned
  <2> QED  BY <1>3, <2>1, <2>2
<1> HIDE DEF need, rest
<1>5. CASE rest >= Header + ALIGN
  <2>1. result = Spliced(list, i, i, <<used, left>>)
    BY <1>5 DEF Taken, Spliced, need, rest
  <2>2. /\ used \in Block /\ left \in Block
        /\ used.base = list[i].base /\ End(used) = list[i].base + need /\ ~ used.free
        /\ left.base = list[i].base + need /\ End(left) = End(list[i]) /\ left.free
    BY <1>2, <1>3, <1>4 DEF Block, End
  <2>3. Sound(used, lo, hi) /\ Sound(left, lo, hi)
    <3>1. /\ list[i].base \in Int /\ need \in Int
          /\ list[i].base % ALIGN = 0 /\ list[i].base >= lo /\ End(list[i]) <= hi
      BY <1>2, <1>3 DEF Sound
    <3>2. (list[i].base + need) % ALIGN = 0
      BY <1>3, <3>1, SumAligned
    <3>3. used.base % ALIGN = 0 /\ used.span % ALIGN = 0 /\ used.span >= Header + ALIGN
      BY <1>3, <3>1
    <3>4. left.base % ALIGN = 0 /\ left.span % ALIGN = 0 /\ left.span >= Header + ALIGN
      BY <1>4, <1>5, <3>2
    <3>5. list[i].base + need <= End(list[i]) /\ list[i].base + need >= lo
      BY <1>2, <1>3, <3>1
    <3>6. End(list[i]) \in Nat /\ list[i].base + need \in Nat
      BY <1>2, <1>3
    <3> HIDE DEF used, left
    <3> QED  BY <2>2, <3>1, <3>3, <3>4, <3>5, <3>6 DEF Sound
  <2> DEFINE mid == <<used, left>>
  <2>4. mid \in Seq(Block) /\ Len(mid) = 2 /\ mid[1] = used /\ mid[2] = left
    BY <2>2
  <2>5. SplicedAt(list, i, i, mid, result)
    <3>1. i \in i .. Len(list)
      BY <1>1
    <3> HIDE DEF mid, result
    <3>2. SplicedAt(list, i, i, mid, Spliced(list, i, i, mid))
      BY <1>1, <2>4, <3>1, SpliceProperties
    <3> QED  BY <2>1, <3>2 DEF mid
  <2> HIDE DEF used, left, mid, result
  <2>6. SplitAt(list, i, used, left, result)
    <3>1. /\ result \in Seq(Block)
          /\ Len(result) = i - 1 + 2 + Len(list) - i
          /\ \A k \in 1 .. i - 1 : result[k] = list[k]
          /\ \A k \in 1 .. 2 : result[i - 1 + k] = mid[k]
          /\ \A k \in i + 1 .. Len(list) : result[i - 1 + 2 + k - i] = list[k]
      BY <2>4, <2>5 DEF SplicedAt
    <3>2. Len(result) = Len(list) + 1
      BY <1>1, <3>1
    <3>3. result[i] = used /\ result[i + 1] = left
      <4>1. 1 \in 1 .. 2 /\ 2 \in 1 .. 2 /\ i - 1 + 1 = i /\ i - 1 + 2 = i + 1
        BY <1>1
      <4>2. result[i - 1 + 1] = mid[1] /\ result[i - 1 + 2] = mid[2]
        BY <3>1, <4>1
      <4> QED  BY <2>4, <4>1, <4>2
    <3>4. \A k \in i + 1 .. Len(list) : result[k + 1] = list[k]
      <4> TAKE k \in i + 1 .. Len(list)
      <4>1. i - 1 + 2 + k - i = k + 1
        BY <1>1
      <4> QED  BY <3>1, <4>1
    <3> QED  BY <3>1, <3>2, <3>3, <3>4 DEF SplitAt
  <2>7. SharedBy(list[i], used, left)
    BY <1>3, <2>2 DEF SharedBy
  <2>8. Holds(used, a, list[i].base)
    BY <1>3, <2>2 DEF Holds
  <2>9. /\ WellFormed(result, lo, hi) /\ Apart(result, {})
        /\ Covers(list, lo, hi) => Covers(result, lo, hi)
        /\ \A b \in Block : UsedIn(b, result) <=> UsedIn(b, list) \/ b = used
    BY <2>2, <2>3, <2>6, <2>7, SplitKeeps
  <2> QED  BY <2>2, <2>8, <2>9 DEF result
<1>6. CASE ~ (rest >= Header + ALIGN)
  <2>1. result = Spliced(list, i, i, <<whole>>)
    BY <1>6 DEF Taken, Spliced, need, rest
  <2>2. /\ whole \in Block /\ ~ whole.free /\ whole.free = FALSE
        /\ whole.base = list[i].base /\ whole.span = list[i].span
    BY <1>2 DEF Block
  <2> DEFINE mid == <<whole>>
  <2>3. mid \in Seq(Block) /\ Len(mid) = 1 /\ mid[1] = whole
    BY <2>2
  <2>4. SplicedAt(list, i, i, mid, result)
    <3>1. i \in i .. Len(list)
      BY <1>1
    <3> HIDE DEF mid, result
    <3>2. SplicedAt(list, i, i, mid, Spliced(list, i, i, mid))
      BY <1>1, <2>3, <3>1, SpliceProperties
    <3> QED  BY <2>1, <3>2 DEF mid
  <2> HIDE DEF whole, mid, result
  <2>5. /\ result \in Seq(Block) /\ result[i] = whole /\ Len(result) = Len(list)
        /\ \A k \in 1 .. Len(list) : k # i => result[k] = list[k]
    <3>1. /\ result \in Seq(Block)
          /\ Len(result) = i - 1 + 1 + Len(list) - i
          /\ \A k \in 1 .. i - 1 : result[k] = list[k]
          /\ \A k \in 1 .. 1 : result[i - 1 + k] = mid[k]
          /\ \A k \in i + 1 .. Len(list) : result[i - 1 + 1 + k - i] = list[k]
      BY <2>3, <2>4 DEF SplicedAt
    <3>2. Len(result) = Len(list)
      BY <1>1, <3>1
    <3>3. result[i] = whole
      <4>1. 1 \in 1 .. 1 /\ i - 1 + 1 = i
        BY <1>1
      <4> QED  BY <2>3, <3>1, <4>1
    <3>4. ASSUME NEW k \in 1 .. Len(list), k # i PROVE result[k] = list[k]
      <4>1. k \in 1 .. i - 1 \/ k \in i + 1 .. Len(list)
        BY <1>1, <3>4
      <4>2. i - 1 + 1 + k - i = k
        BY <1>1
      <4> QED  BY <3>1, <4>1, <4>2
    <3> QED  BY <3>1, <3>2, <3>3, <3>4
  <2>6. FreedAt(list, i, FALSE, result)
    BY <2>2, <2>5 DEF FreedAt
  <2>7. /\ WellFormed(result, lo, hi)
        /\ Covers(list, lo, hi) => Covers(result, lo, hi)
        /\ \A b \in Block : b # result[i] =>
             (UsedIn(b, result) <=> UsedIn(b, list) /\ b # list[i])
    BY <2>6, FreedKeeps
  <2>8. Apart(result, {})
    <3> SUFFICES ASSUME NEW k \in 1 .. Len(list) - 1
                 PROVE  ~ Contiguous(result[k], result[k + 1])
      BY <2>5 DEF Apart
    <3>1. k \in 1 .. Len(list) /\ k + 1 \in 1 .. Len(list)
      BY <1>1
    <3>2. CASE k # i /\ k + 1 # i
      BY <2>5, <3>1, <3>2 DEF Apart
    <3>3. CASE k = i \/ k + 1 = i
      BY <2>2, <2>5, <3>3 DEF Contiguous
    <3> QED  BY <3>2, <3>3
  <2>9. \A b \in Block : UsedIn(b, result) <=> UsedIn(b, list) \/ b = whole
    <3> TAKE b \in Block
    <3>1. CASE b = whole
      BY <1>1, <2>2, <2>5, <3>1 DEF UsedIn
    <3>2. CASE b # whole
      <4>1. UsedIn(b, list) => b # list[i]
        BY <1>3 DEF UsedIn
      <4> QED  BY <2>5, <2>7, <3>2, <4>1
    <3> QED  BY <3>1, <3>2
  <2>10. Holds(whole, a, list[i].base)
    <3>1. list[i].base + need <= End(list[i]) /\ End(whole) = End(list[i])
      BY <1>2, <1>3, <2>2 DEF End
    <3>2. a.ptr \in Nat /\ a.size \in Nat
      <4>1. list[i] \in Block /\ list[i].base % ALIGN = 0
        BY <1>2 DEF Sound
      <4> QED  BY <4>1, PayloadProperties DEF Layout
    <3>3. a.ptr + a.size <= End(whole)
      <4>1. list[i].base + need \in Nat /\ End(list[i]) \in Nat /\ a.ptr + a.size \in Nat
        <5>1. list[i] \in Block
          BY <1>2
        <5>2. list[i].base \in Nat /\ End(list[i]) \in Nat
          BY <5>1, BlockNumbers
        <5>3. need \in Nat
          BY <1>3
        <5>4. \A x, y \in Nat : x + y \in Nat
          OBVIOUS
        <5>5. a.ptr \in Nat /\ a.size \in Nat
          BY <3>2
        <5> QED  BY <5>2, <5>3, <5>4, <5>5, Zenon
      <4> QED  BY <1>3, <3>1, <4>1
    <3> QED  BY <1>3, <2>2, <3>3 DEF Holds
  <2> QED  BY <2>2, <2>7, <2>8, <2>9, <2>10 DEF result
<1> QED  BY <1>5, <1>6

-----------------------------------------------------------------------------
(* Heap::add_region and grow. *)

\* An aligned address is not moved, and no address by a whole unit.
LEMMA AlignUpExact ==
  ASSUME NEW v \in Int
  PROVE  /\ AlignUp(v, ALIGN) < v + ALIGN
         /\ v % ALIGN = 0 => AlignUp(v, ALIGN) = v
BY Z3 DEF AlignUp, ALIGN

\* The heap grows by whole pages.
LEMMA GrowBytesProperties ==
  ASSUME NEW l \in Layout
  PROVE  GrowBytes(l) \in Nat /\ GrowBytes(l) >= PAGE /\ GrowBytes(l) % ALIGN = 0
<1> DEFINE v == MaxOf(l.size + l.align + Header + Word, PAGE)
<1>1. l.size + l.align + Header + Word \in Nat
  BY DEF Layout, Header, Word
<1>2. v \in Nat /\ v >= 4096
  BY <1>1 DEF MaxOf, PAGE
<1> HIDE DEF v
<1>3. AlignUp(v, 4096) \in Int /\ AlignUp(v, 4096) >= 4096 /\ AlignUp(v, 4096) % 16 = 0
  BY <1>2, Z3 DEF AlignUp
<1> QED  BY <1>3 DEF GrowBytes, v, PAGE, ALIGN

\* The new region becomes a free block at the end, or the end of the last one.
LEMMA RegionKeeps ==
  ASSUME NEW lo \in Nat, NEW hi \in Nat, lo <= hi, NEW list, WellFormed(list, lo, hi),
         Apart(list, {}), NEW bytes \in Nat, bytes >= PAGE, bytes % ALIGN = 0
  PROVE  /\ WellFormed(WithRegion(list, hi, bytes), lo, hi + bytes)
         /\ Apart(WithRegion(list, hi, bytes), {})
         /\ SameUsed(list, WithRegion(list, hi, bytes))
         /\ hi % ALIGN = 0 /\ Covers(list, lo, hi) =>
              Covers(WithRegion(list, hi, bytes), lo, hi + bytes)
<1> DEFINE base == AlignUp(hi, ALIGN)
           length == bytes - (base - hi)
           span == AlignDown(length, ALIGN)
           region == [base |-> base, span |-> span, free |-> TRUE]
           longer == Append(list, region)
           n == Len(list)
           top == hi + bytes
<1>1. /\ base \in Int /\ base % ALIGN = 0 /\ hi <= base /\ base < hi + ALIGN
      /\ hi % ALIGN = 0 => base = hi
  <2>1. hi \in Int /\ 16 \in {16, 32, 64, 128}
    OBVIOUS
  <2>2. AlignUp(hi, 16) \in Int /\ AlignUp(hi, 16) % 16 = 0 /\ hi <= AlignUp(hi, 16)
    BY <2>1, AlignUpProperties
  <2> QED  BY <2>1, <2>2, AlignUpExact DEF ALIGN
<1> HIDE DEF base
<1>2. length \in Int /\ length <= bytes /\ length > 4080
  BY <1>1 DEF ALIGN, PAGE
<1> HIDE DEF length
<1>3. /\ span \in Int /\ span % ALIGN = 0 /\ span <= length /\ length < span + ALIGN
  BY <1>2, AlignDownProperties
<1>4. bytes % ALIGN = 0 /\ length = bytes => span = bytes
  BY Z3 DEF AlignDown, ALIGN
<1> HIDE DEF span
<1>5. span \in Nat /\ span >= 48 /\ base \in Nat /\ base + span <= hi + bytes
  <2>1. length = bytes - (base - hi)
    BY DEF length
  <2> QED  BY <1>1, <1>2, <1>3, <2>1 DEF ALIGN
<1>6. hi % ALIGN = 0 => base = hi /\ span = bytes
  <2>1. length = bytes - (base - hi)
    BY DEF length
  <2> QED  BY <1>1, <1>4, <2>1
<1>7. WithRegion(list, hi, bytes) = Coalesced(longer, n)
  <2>1. ~ (span < Header + ALIGN)
    BY <1>5 DEF Header, ALIGN
  <2> QED  BY <2>1 DEF WithRegion, span, length, base
<1>8. /\ region \in Block /\ region.base = base /\ End(region) = base + span /\ region.free
      /\ Sound(region, lo, top)
  <2>1. region \in Block /\ region.base = base /\ End(region) = base + span /\ region.free
    BY <1>5 DEF Block, End
  <2>2. /\ base % ALIGN = 0 /\ span % ALIGN = 0 /\ span >= Header + ALIGN
        /\ base >= lo /\ base + span <= top
    BY <1>1, <1>3, <1>5 DEF Header, ALIGN
  <2> QED  BY <2>1, <2>2 DEF Sound
<1> HIDE DEF region
<1>9. list \in Seq(Block) /\ n \in Nat /\ top \in Nat /\ hi <= top
  BY DEF WellFormed
<1>10. /\ longer \in Seq(Block) /\ Len(longer) = n + 1 /\ longer[n + 1] = region
       /\ \A k \in 1 .. n : longer[k] = list[k]
  BY <1>8, <1>9, AppendProperties
<1> HIDE DEF longer, n, top
<1>11. n = Len(list) /\ n + 1 \in 1 .. Len(longer)
  BY <1>9, <1>10 DEF n
<1>12. \A k \in 1 .. Len(longer) : k \in 1 .. n \/ k = n + 1
  BY <1>9, <1>10
<1>13. \A k \in 1 .. n : /\ list[k] \in Block /\ Sound(list[k], lo, top)
                         /\ End(list[k]) \in Nat /\ End(list[k]) <= hi
  <2> TAKE k \in 1 .. n
  <2>1. list[k] \in Block /\ Sound(list[k], lo, hi)
    BY <1>9, <1>11, ElementOfSeq DEF WellFormed
  <2>2. End(list[k]) \in Nat
    BY <2>1 DEF Block, End
  <2> QED  BY <1>9, <2>1, <2>2 DEF Sound
<1>14. WellFormed(longer, lo, top)
  <2>1. \A k \in 1 .. Len(longer) : Sound(longer[k], lo, top)
    BY <1>8, <1>10, <1>12, <1>13
  <2>2. ASSUME NEW j \in 1 .. Len(longer), NEW k \in 1 .. Len(longer), j < k
        PROVE  End(longer[j]) <= longer[k].base
    <3>1. j \in 1 .. n
      BY <1>9, <1>10, <2>2
    <3>2. CASE k \in 1 .. n
      BY <1>10, <1>11, <2>2, <3>1, <3>2 DEF WellFormed
    <3>3. CASE k = n + 1
      BY <1>1, <1>8, <1>10, <1>13, <3>1, <3>3
    <3> QED  BY <1>12, <3>2, <3>3
  <2> QED  BY <1>10, <2>1, <2>2 DEF WellFormed
<1>15. Apart(longer, {n} \cup {})
  <2> SUFFICES ASSUME NEW k \in 1 .. Len(longer) - 1, k \notin {n} \cup {}
               PROVE  ~ Contiguous(longer[k], longer[k + 1])
    BY DEF Apart
  <2>1. k \in 1 .. n - 1 /\ k \in 1 .. n /\ k + 1 \in 1 .. n
    BY <1>9, <1>10
  <2> QED  BY <1>10, <1>11, <2>1 DEF Apart
<1>16. SameUsed(list, longer)
  <2>1. ASSUME NEW b \in Block, UsedIn(b, list) PROVE UsedIn(b, longer)
    <3>1. PICK k \in 1 .. n : list[k] = b /\ ~ b.free
      BY <1>11, <2>1 DEF UsedIn
    <3>2. k \in 1 .. Len(longer)
      BY <1>9, <1>10
    <3> QED  BY <1>10, <3>1, <3>2 DEF UsedIn
  <2>2. ASSUME NEW b \in Block, UsedIn(b, longer) PROVE UsedIn(b, list)
    <3>1. PICK k \in 1 .. Len(longer) : longer[k] = b /\ ~ b.free
      BY <2>2 DEF UsedIn
    <3>2. k \in 1 .. n
      BY <1>8, <1>10, <1>12, <3>1
    <3> QED  BY <1>10, <1>11, <3>1, <3>2 DEF UsedIn
  <2> QED  BY <2>1, <2>2 DEF SameUsed
<1>17. ASSUME hi % ALIGN = 0, Covers(list, lo, hi) PROVE Covers(longer, lo, top)
  <2>1. End(region) = top /\ region.base = hi
    BY <1>6, <1>8, <1>17 DEF top
  <2>2. CASE n = 0
    BY <1>10, <1>11, <1>17, <2>1, <2>2 DEF Covers
  <2>3. CASE n # 0
    <3>1. /\ list[1].base = lo /\ End(list[n]) = hi
          /\ \A k \in 1 .. n - 1 : End(list[k]) = list[k + 1].base
      BY <1>11, <1>17, <2>3 DEF Covers
    <3>2. 1 \in 1 .. n /\ n \in 1 .. n /\ Len(longer) # 0
      BY <1>9, <1>10, <2>3
    <3>3. longer[1].base = lo /\ End(longer[Len(longer)]) = top
      BY <1>10, <2>1, <3>1, <3>2
    <3>4. ASSUME NEW k \in 1 .. Len(longer) - 1 PROVE End(longer[k]) = longer[k + 1].base
      <4>1. CASE k = n
        BY <1>10, <2>1, <3>1, <3>2, <4>1
      <4>2. CASE k # n
        <5>1. k \in 1 .. n - 1 /\ k \in 1 .. n /\ k + 1 \in 1 .. n
          BY <1>9, <1>10, <4>2
        <5> QED  BY <1>10, <3>1, <5>1
      <4> QED  BY <4>1, <4>2
    <3> QED  BY <3>2, <3>3, <3>4 DEF Covers
  <2> QED  BY <2>2, <2>3
<1>18. n \in Int
  BY <1>9
<1>19. /\ WellFormed(Coalesced(longer, n), lo, top)
       /\ SameUsed(longer, Coalesced(longer, n))
       /\ Covers(longer, lo, top) => Covers(Coalesced(longer, n), lo, top)
  BY <1>9, <1>14, <1>18, CoalescedKeeps
<1>20. Apart(Coalesced(longer, n), {})
  BY <1>9, <1>14, <1>15, <1>18, CoalescedApart
<1>21. SameUsed(list, Coalesced(longer, n))
  BY <1>16, <1>19 DEF SameUsed
<1> QED  BY <1>7, <1>17, <1>19, <1>20, <1>21 DEF top

-----------------------------------------------------------------------------
(* The allocations and their blocks. *)

Allocation == [ptr : Nat, size : Nat \ {0}, align : {1, 2, 4, 8, 16, 32, 64, 128}]

\* Each allocation has a used block of its own, the one its word leads back
\* to, and there are no other used blocks.
Accounted(list, allocs, link) ==
  /\ allocs \subseteq Allocation
  /\ DOMAIN link = {a.ptr : a \in allocs}
  /\ \A a \in allocs : \E i \in 1 .. Len(list) : Holds(list[i], a, link[a.ptr])
  /\ \A a, c \in allocs : link[a.ptr] = link[c.ptr] => a = c
  /\ \A i \in 1 .. Len(list) : ~ list[i].free => \E a \in allocs : link[a.ptr] = list[i].base

\* What every reachable state satisfies: LiveInOwnBlock needs the place of the
\* blocks, BlocksApart that what is handed out or freed is a block of the
\* list, and EmptyHeapIsWhole that the blocks leave no gap.
HeapInv ==
  /\ WellFormed(blocks, brkStart, brk)
  /\ Apart(blocks, {})
  /\ brkStart % ALIGN = 0 => brk % ALIGN = 0 /\ Covers(blocks, brkStart, brk)
  /\ Accounted(blocks, live, backLink)
  /\ brkStart \in BrkStarts /\ brk \in brkStart .. brkStart + BrkSpace

\* Memory in a free block, and memory that an allocation does not reach.
InsideFree(b, ptr, size) == b.free /\ b.base <= ptr /\ ptr + size <= End(b)
Clear(ptr, size, c) == ptr + size <= c.ptr \/ c.ptr + c.size <= ptr

\* The memory of an allocation in a free block is nobody else's, and no other
\* allocation leads back to that block.
LEMMA FreshMemory ==
  ASSUME NEW lo \in Nat, NEW hi \in Nat, NEW list, WellFormed(list, lo, hi),
         NEW allocs, NEW link, Accounted(list, allocs, link),
         NEW i \in 1 .. Len(list), NEW ptr \in Nat, NEW size \in Nat,
         InsideFree(list[i], ptr, size), NEW c \in allocs
  PROVE  link[c.ptr] # list[i].base /\ Clear(ptr, size, c)
<1>1. list \in Seq(Block) /\ Len(list) \in Nat
  BY DEF WellFormed
<1>2. PICK j \in 1 .. Len(list) : Holds(list[j], c, link[c.ptr])
  BY DEF Accounted
<1>3. j # i /\ list[j].base = link[c.ptr]
  BY <1>2 DEF Holds, InsideFree
<1>4. list[j].base # list[i].base
  BY <1>3, BlocksDiffer
<1>5. End(list[i]) <= list[j].base \/ End(list[j]) <= list[i].base
  <2>1. i < j \/ j < i
    BY <1>1, <1>3
  <2> QED  BY <2>1 DEF WellFormed
<1>6. /\ list[i].base \in Nat /\ End(list[i]) \in Nat
      /\ list[j].base \in Nat /\ End(list[j]) \in Nat
  <2>1. list[i] \in Block /\ list[j] \in Block
    BY <1>1, ElementOfSeq
  <2> QED  BY <2>1, BlockNumbers
<1>7. c.ptr \in Nat /\ c.size \in Nat
  BY DEF Accounted, Allocation
<1>8. list[j].base + 40 <= c.ptr /\ c.ptr + c.size <= End(list[j])
  <2>1. /\ link[c.ptr] + Header + Word <= c.ptr
        /\ c.ptr + c.size <= End(list[j])
    BY <1>2 DEF Holds
  <2>2. (list[j].base + 32) + 8 <= c.ptr
    BY <1>3, <2>1 DEF Header, Word
  <2>3. \A x, y \in Nat : (x + 32) + 8 <= y => x + 40 <= y
    OBVIOUS
  <2> QED  BY <1>6, <1>7, <2>1, <2>2, <2>3
<1>9. list[i].base <= ptr /\ ptr + size <= End(list[i])
  BY DEF InsideFree
<1>10. Clear(ptr, size, c)
  <2>1. list[j].base <= c.ptr
    <3>1. \A x, y \in Nat : x + 40 <= y => x <= y
      OBVIOUS
    <3> QED  BY <1>6, <1>7, <1>8, <3>1
  <2>2. CASE End(list[i]) <= list[j].base
    <3>1. ptr + size <= c.ptr
      <4>1. \A u, v, w, x, y \in Nat : u + v <= w /\ w <= x /\ x <= y => u + v <= y
        OBVIOUS
      <4> QED  BY <1>6, <1>7, <1>9, <2>1, <2>2, <4>1
    <3> QED  BY <3>1 DEF Clear
  <2>3. CASE End(list[j]) <= list[i].base
    <3>1. c.ptr + c.size <= ptr
      <4>1. \A u, v, w, x, y \in Nat : u + v <= w /\ w <= x /\ x <= y => u + v <= y
        OBVIOUS
      <4> QED  BY <1>6, <1>7, <1>8, <1>9, <2>3, <4>1
    <3> QED  BY <3>1 DEF Clear
  <2> QED  BY <1>5, <2>2, <2>3
<1> QED  BY <1>3, <1>4, <1>10

\* The same in terms of the used blocks, whatever their places.
AccountedUsed(list, allocs, link) ==
  /\ allocs \subseteq Allocation
  /\ DOMAIN link = {a.ptr : a \in allocs}
  /\ \A a \in allocs : \E b \in Block : UsedIn(b, list) /\ Holds(b, a, link[a.ptr])
  /\ \A a, c \in allocs : link[a.ptr] = link[c.ptr] => a = c
  /\ \A b \in Block : UsedIn(b, list) => \E a \in allocs : link[a.ptr] = b.base

\* The two say the same.
LEMMA AccountedByUsed ==
  ASSUME NEW list \in Seq(Block), NEW allocs, NEW link
  PROVE  Accounted(list, allocs, link) <=> AccountedUsed(list, allocs, link)
<1>1. \A i \in 1 .. Len(list) : list[i] \in Block
  BY ElementOfSeq
<1>2. ASSUME NEW a \in allocs
      PROVE  (\E i \in 1 .. Len(list) : Holds(list[i], a, link[a.ptr])) <=>
               \E b \in Block : UsedIn(b, list) /\ Holds(b, a, link[a.ptr])
  BY <1>1 DEF UsedIn, Holds
<1>3. (\A i \in 1 .. Len(list) : ~ list[i].free => \E a \in allocs : link[a.ptr] = list[i].base) <=>
        \A b \in Block : UsedIn(b, list) => \E a \in allocs : link[a.ptr] = b.base
  BY <1>1 DEF UsedIn
<1> QED  BY <1>2, <1>3 DEF Accounted, AccountedUsed

\* Lists with the same used blocks hold the same allocations.
LEMMA AccountedSame ==
  ASSUME NEW list \in Seq(Block), NEW other \in Seq(Block), SameUsed(list, other),
         NEW allocs, NEW link, Accounted(list, allocs, link)
  PROVE  Accounted(other, allocs, link)
<1>1. AccountedUsed(list, allocs, link)
  BY AccountedByUsed
<1>2. AccountedUsed(other, allocs, link)
  BY <1>1 DEF AccountedUsed, SameUsed
<1> QED  BY <1>2, AccountedByUsed

\* An allocation from a list: the memory is aligned and nobody else's, and
\* every allocation has its block afterwards.
LEMMA HandOutKeeps ==
  ASSUME NEW hi \in Nat, NEW list, brkStart \in Nat, WellFormed(list, brkStart, hi),
         Apart(list, {}), Accounted(list, live, backLink),
         NEW l \in Layout, HandOut(list, l)
  PROVE  /\ WellFormed(blocks', brkStart, hi) /\ Apart(blocks', {})
         /\ Covers(list, brkStart, hi) => Covers(blocks', brkStart, hi)
         /\ Accounted(blocks', live', backLink')
         /\ \E a \in live' :
              /\ a \notin live /\ live' = live \cup {a}
              /\ a.size = l.size /\ a.align = l.align /\ a.ptr % l.align = 0
              /\ a.ptr >= brkStart /\ a.ptr + a.size <= hi
              /\ \A other \in live :
                   a.ptr + a.size <= other.ptr \/ other.ptr + other.size <= a.ptr
<1> DEFINE lo == brkStart
<1>1. PICK i \in 1 .. Len(list) :
        /\ Fits(list[i], l)
        /\ blocks' = Taken(list, i, l)
        /\ backLink' = [q \in DOMAIN backLink \cup {Payload(list[i], l)} |->
                          IF q = Payload(list[i], l) THEN list[i].base ELSE backLink[q]]
        /\ live' = live \cup {[ptr |-> Payload(list[i], l), size |-> l.size, align |-> l.align]}
  BY DEF HandOut, FirstFit
<1> DEFINE p == Payload(list[i], l)
           a == [ptr |-> p, size |-> l.size, align |-> l.align]
<1>2. /\ list \in Seq(Block) /\ Len(list) \in Nat /\ list[i] \in Block /\ Sound(list[i], lo, hi)
      /\ list[i].free
  BY <1>1, ElementOfSeq DEF WellFormed, Fits
<1>3. /\ p \in Nat /\ p % l.align = 0 /\ list[i].base + Header + Word <= p
      /\ p + l.size <= End(list[i])
  <2>1. list[i].base % ALIGN = 0 /\ list[i].base \in Nat /\ list[i].span \in Nat
    BY <1>2 DEF Sound, Block
  <2>2. /\ Payload(list[i], l) \in Nat /\ Payload(list[i], l) % l.align = 0
        /\ list[i].base + Header + Word <= Payload(list[i], l)
        /\ Required(list[i], l) \in Nat
        /\ Payload(list[i], l) + l.size <= list[i].base + Required(list[i], l)
    BY <1>2, <2>1, PayloadProperties
  <2>3. Required(list[i], l) <= list[i].span
    BY <1>1 DEF Fits
  <2>4. l.size \in Nat
    BY DEF Layout
  <2> QED  BY <2>1, <2>2, <2>3, <2>4 DEF End
<1> HIDE DEF p
<1>4. /\ a \in Allocation /\ a.ptr = p /\ a.size = l.size /\ a.align = l.align
      /\ live' = live \cup {a} /\ l.size \in Nat
  BY <1>1, <1>3 DEF Allocation, Layout, p
<1> HIDE DEF a
<1>5. /\ WellFormed(blocks', lo, hi) /\ Apart(blocks', {})
      /\ Covers(list, lo, hi) => Covers(blocks', lo, hi)
      /\ \E b \in Block :
           /\ Holds(b, a, list[i].base)
           /\ \A c \in Block : UsedIn(c, blocks') <=> UsedIn(c, list) \/ c = b
  <2>1. a.ptr = Payload(list[i], l) /\ a.size = l.size
    BY <1>4 DEF p
  <2>2. lo \in Nat /\ WellFormed(list, lo, hi)
    OBVIOUS
  <2> HIDE DEF lo
  <2>3. /\ WellFormed(Taken(list, i, l), lo, hi) /\ Apart(Taken(list, i, l), {})
        /\ Covers(list, lo, hi) => Covers(Taken(list, i, l), lo, hi)
        /\ \E b \in Block :
             /\ Holds(b, a, list[i].base)
             /\ \A c \in Block : UsedIn(c, Taken(list, i, l)) <=> UsedIn(c, list) \/ c = b
    BY <1>1, <2>1, <2>2, TakenKeeps
  <2> QED  BY <1>1, <2>3
<1>6. PICK b \in Block :
        /\ Holds(b, a, list[i].base)
        /\ \A c \in Block : UsedIn(c, blocks') <=> UsedIn(c, list) \/ c = b
  BY <1>5
<1>7. \A c \in live : /\ backLink[c.ptr] # list[i].base
                      /\ p + l.size <= c.ptr \/ c.ptr + c.size <= p
  <2> TAKE c \in live
  <2>1. list[i].base <= p
    <3>1. list[i].base \in Nat
      BY <1>2, BlockNumbers
    <3> QED  BY <1>3, <3>1 DEF Header, Word
  <2>2. InsideFree(list[i], p, l.size)
    BY <1>2, <1>3, <2>1 DEF InsideFree
  <2>3. backLink[c.ptr] # list[i].base /\ Clear(p, l.size, c)
    BY <1>3, <1>4, <2>2, FreshMemory
  <2> QED  BY <2>3 DEF Clear
<1>8. \A c \in live : c.ptr # p /\ c \in Allocation
  <2> TAKE c \in live
  <2>1. c \in Allocation /\ c.ptr \in Nat /\ c.size \in Nat /\ c.size > 0
    BY DEF Accounted, Allocation
  <2>2. l.size > 0
    BY DEF Layout
  <2> QED  BY <1>3, <1>4, <1>7, <2>1, <2>2
<1>9. a \notin live
  BY <1>4, <1>8
<1>10. /\ DOMAIN backLink = {c.ptr : c \in live}
       /\ \A c \in live : \E d \in Block : UsedIn(d, list) /\ Holds(d, c, backLink[c.ptr])
       /\ \A c, d \in live : backLink[c.ptr] = backLink[d.ptr] => c = d
       /\ \A d \in Block : UsedIn(d, list) => \E c \in live : backLink[c.ptr] = d.base
  <2>1. AccountedUsed(list, live, backLink)
    BY <1>2, AccountedByUsed
  <2> QED  BY <2>1 DEF AccountedUsed
<1>11. /\ DOMAIN backLink' = DOMAIN backLink \cup {p}
       /\ backLink'[a.ptr] = list[i].base
       /\ \A c \in live : backLink'[c.ptr] = backLink[c.ptr]
  BY <1>1, <1>4, <1>8, <1>10 DEF p
<1>12. Accounted(blocks', live', backLink')
  <2>1. blocks' \in Seq(Block)
    BY <1>5 DEF WellFormed
  <2>2. live' \subseteq Allocation
    BY <1>4, <1>8
  <2>3. DOMAIN backLink' = {c.ptr : c \in live'}
    BY <1>4, <1>10, <1>11
  <2>4. ASSUME NEW c \in live'
        PROVE  \E d \in Block : UsedIn(d, blocks') /\ Holds(d, c, backLink'[c.ptr])
    <3>1. CASE c = a
      BY <1>6, <1>11, <3>1
    <3>2. CASE c \in live
      BY <1>6, <1>10, <1>11, <3>2
    <3> QED  BY <1>4, <3>1, <3>2
  <2>5. ASSUME NEW c \in live', NEW d \in live', backLink'[c.ptr] = backLink'[d.ptr]
        PROVE  c = d
    BY <1>4, <1>7, <1>10, <1>11, <2>5
  <2>6. ASSUME NEW d \in Block, UsedIn(d, blocks')
        PROVE  \E c \in live' : backLink'[c.ptr] = d.base
    <3>1. CASE d = b
      BY <1>4, <1>6, <1>11, <3>1 DEF Holds
    <3>2. CASE UsedIn(d, list)
      BY <1>4, <1>10, <1>11, <3>2
    <3> QED  BY <1>6, <2>6, <3>1, <3>2
  <2>7. AccountedUsed(blocks', live', backLink')
    BY <2>2, <2>3, <2>4, <2>5, <2>6 DEF AccountedUsed
  <2> QED  BY <2>1, <2>7, AccountedByUsed
<1>13. a.ptr >= brkStart /\ a.ptr + a.size <= hi
  <2>1. list[i].base >= brkStart /\ End(list[i]) <= hi
    BY <1>2 DEF Sound
  <2>2. list[i].base \in Nat /\ End(list[i]) \in Nat
    BY <1>2, BlockNumbers
  <2>3. list[i].base <= p
    BY <1>3, <2>2 DEF Header, Word
  <2>4. p >= brkStart
    BY <1>3, <2>1, <2>2, <2>3
  <2>5. p + l.size <= hi
    BY <1>3, <1>4, <2>1, <2>2
  <2> QED  BY <1>4, <2>4, <2>5
<1> QED  BY <1>3, <1>4, <1>5, <1>7, <1>9, <1>12, <1>13

\* A block given back: no other allocation loses its block.
LEMMA DeallocKeeps ==
  ASSUME brkStart \in Nat, brk \in Nat, HeapInv, NEW a \in live, Dealloc(a)
  PROVE  /\ WellFormed(blocks', brkStart, brk) /\ Apart(blocks', {})
         /\ Covers(blocks, brkStart, brk) => Covers(blocks', brkStart, brk)
         /\ Accounted(blocks', live', backLink')
<1>1. PICK i \in 1 .. Len(blocks) :
        /\ blocks[i].base = backLink[a.ptr]
        /\ blocks' = Released(blocks, i)
        /\ live' = live \ {a}
        /\ backLink' = [q \in DOMAIN backLink \ {a.ptr} |-> backLink[q]]
  BY DEF Dealloc
<1>2. WellFormed(blocks, brkStart, brk) /\ Apart(blocks, {}) /\ Accounted(blocks, live, backLink)
  BY DEF HeapInv
<1>3. blocks \in Seq(Block) /\ blocks[i] \in Block
  BY <1>2, ElementOfSeq DEF WellFormed
<1>4. /\ WellFormed(blocks', brkStart, brk) /\ Apart(blocks', {})
      /\ Covers(blocks, brkStart, brk) => Covers(blocks', brkStart, brk)
      /\ \A b \in Block : UsedIn(b, blocks') <=> UsedIn(b, blocks) /\ b # blocks[i]
  <2>1. /\ WellFormed(Released(blocks, i), brkStart, brk) /\ Apart(Released(blocks, i), {})
        /\ Covers(blocks, brkStart, brk) => Covers(Released(blocks, i), brkStart, brk)
        /\ \A b \in Block :
             UsedIn(b, Released(blocks, i)) <=> UsedIn(b, blocks) /\ b # blocks[i]
    BY <1>2, ReleasedKeeps
  <2> QED  BY <1>1, <2>1
<1>5. /\ live \subseteq Allocation
      /\ DOMAIN backLink = {c.ptr : c \in live}
      /\ \A c \in live : \E b \in Block : UsedIn(b, blocks) /\ Holds(b, c, backLink[c.ptr])
      /\ \A c, d \in live : backLink[c.ptr] = backLink[d.ptr] => c = d
      /\ \A b \in Block : UsedIn(b, blocks) => \E c \in live : backLink[c.ptr] = b.base
  <2>1. AccountedUsed(blocks, live, backLink)
    BY <1>2, <1>3, AccountedByUsed
  <2> QED  BY <2>1 DEF AccountedUsed
\* the block whose base the word holds is the only one that begins there
<1>6. \A b \in Block : UsedIn(b, blocks) => (b = blocks[i] <=> b.base = backLink[a.ptr])
  <2> TAKE b \in Block
  <2> HAVE UsedIn(b, blocks)
  <2>1. PICK j \in 1 .. Len(blocks) : blocks[j] = b
    BY DEF UsedIn
  <2>2. j # i => blocks[j].base # blocks[i].base
    BY <1>2, BlocksDiffer
  <2> QED  BY <1>1, <2>1, <2>2
<1>7. \A c \in live' : c \in live /\ c.ptr # a.ptr /\ backLink'[c.ptr] = backLink[c.ptr]
  BY <1>1, <1>5
<1>8. AccountedUsed(blocks', live', backLink')
  <2>1. live' \subseteq Allocation
    BY <1>5, <1>7
  <2>2. DOMAIN backLink' = {c.ptr : c \in live'}
    BY <1>1, <1>5
  <2>3. ASSUME NEW c \in live'
        PROVE  \E b \in Block : UsedIn(b, blocks') /\ Holds(b, c, backLink'[c.ptr])
    <3>1. PICK b \in Block : UsedIn(b, blocks) /\ Holds(b, c, backLink[c.ptr])
      BY <1>5, <1>7
    <3>2. backLink[c.ptr] # backLink[a.ptr]
      BY <1>1, <1>5, <1>7
    <3>3. b # blocks[i]
      BY <1>6, <3>1, <3>2 DEF Holds
    <3> QED  BY <1>4, <1>7, <3>1, <3>3
  <2>4. ASSUME NEW c \in live', NEW d \in live', backLink'[c.ptr] = backLink'[d.ptr]
        PROVE  c = d
    BY <1>5, <1>7, <2>4
  <2>5. ASSUME NEW b \in Block, UsedIn(b, blocks')
        PROVE  \E c \in live' : backLink'[c.ptr] = b.base
    <3>1. UsedIn(b, blocks) /\ b # blocks[i]
      BY <1>4, <2>5
    <3>2. PICK c \in live : backLink[c.ptr] = b.base
      BY <1>5, <3>1
    <3>3. c # a
      BY <1>6, <3>1, <3>2
    <3> QED  BY <1>1, <1>7, <3>2, <3>3
  <2> QED  BY <2>1, <2>2, <2>3, <2>4, <2>5 DEF AccountedUsed
<1>9. Accounted(blocks', live', backLink')
  <2>1. blocks' \in Seq(Block)
    BY <1>4 DEF WellFormed
  <2> QED  BY <1>8, <2>1, AccountedByUsed
<1> QED  BY <1>4, <1>9

\* What the heap promises for an allocation that succeeds.
Granted(l, top) ==
  \E a \in live' :
    /\ a \notin live /\ live' = live \cup {a}
    /\ a.size = l.size /\ a.align = l.align /\ a.ptr % l.align = 0
    /\ a.ptr >= brkStart /\ a.ptr + a.size <= top
    /\ \A other \in live : a.ptr + a.size <= other.ptr \/ other.ptr + other.size <= a.ptr

\* Alloc in its four outcomes: from the list, refused by the kernel, from the
\* list that grew, or with a list that grew for nothing.
LEMMA AllocKeeps ==
  ASSUME HeapInv, NEW l \in Layouts, Alloc(l)
  PROVE  HeapInv' /\ (live' = live \/ Granted(l, brk')) /\ brk' >= brk /\ brkStart' = brkStart
<1>1. /\ brkStart \in Nat /\ brk \in Nat /\ brkStart <= brk /\ brk <= brkStart + BrkSpace
      /\ BrkSpace \in Nat /\ brkStart \in BrkStarts
  BY HeapAssumption DEF HeapInv
<1>2. /\ WellFormed(blocks, brkStart, brk) /\ Apart(blocks, {})
      /\ Accounted(blocks, live, backLink)
      /\ brkStart % ALIGN = 0 => brk % ALIGN = 0 /\ Covers(blocks, brkStart, brk)
  BY DEF HeapInv
<1>3. l \in Layout
  BY HeapAssumption DEF Layout
<1>4. CASE AllocFromList(l)
  <2>1. HandOut(blocks, l) /\ brk' = brk /\ brkStart' = brkStart
    BY <1>4 DEF AllocFromList
  <2>2. /\ WellFormed(blocks', brkStart, brk) /\ Apart(blocks', {})
        /\ Covers(blocks, brkStart, brk) => Covers(blocks', brkStart, brk)
        /\ Accounted(blocks', live', backLink')
        /\ Granted(l, brk)
    BY <1>1, <1>2, <1>3, <2>1, HandOutKeeps DEF Granted
  <2>3. HeapInv'
    BY <1>1, <1>2, <2>1, <2>2 DEF HeapInv
  <2> QED  BY <1>1, <2>1, <2>2, <2>3
<1>5. CASE AllocRefused(l)
  <2>1. UNCHANGED <<blocks, backLink, live, brk, brkStart>>
    BY <1>5 DEF AllocRefused
  <2> QED  BY <1>1, <2>1 DEF HeapInv
<1>6. CASE AllocAfterGrowth(l)
  <2> DEFINE bytes == GrowBytes(l)
             top == brk + bytes
             grown == WithRegion(blocks, brk, bytes)
  <2>1. /\ brk' = top /\ brkStart' = brkStart /\ top <= brkStart + BrkSpace
        /\ \/ HandOut(grown, l)
           \/ blocks' = grown /\ UNCHANGED <<backLink, live>>
    BY <1>6 DEF AllocAfterGrowth
  <2>2. bytes \in Nat /\ bytes >= PAGE /\ bytes % ALIGN = 0
    BY <1>3, GrowBytesProperties
  <2> HIDE DEF bytes
  <2>3. /\ WellFormed(grown, brkStart, top) /\ Apart(grown, {}) /\ SameUsed(blocks, grown)
        /\ brk % ALIGN = 0 /\ Covers(blocks, brkStart, brk) => Covers(grown, brkStart, top)
    BY <1>1, <1>2, <2>2, RegionKeeps
  <2>4. top \in Nat /\ top >= brk /\ top >= brkStart /\ (brk % ALIGN = 0 => top % ALIGN = 0)
    <3>1. brk % ALIGN = 0 => (brk + bytes) % ALIGN = 0
      BY <1>1, <2>2, SumAligned
    <3> QED  BY <1>1, <2>2, <3>1
  <2>5. brkStart % ALIGN = 0 => top % ALIGN = 0 /\ Covers(grown, brkStart, top)
    BY <1>2, <2>3, <2>4
  <2> HIDE DEF top, grown
  <2>6. Accounted(grown, live, backLink)
    <3>1. blocks \in Seq(Block) /\ grown \in Seq(Block)
      BY <1>2, <2>3 DEF WellFormed
    <3> QED  BY <1>2, <2>3, <3>1, AccountedSame
  <2>7. top \in brkStart .. brkStart + BrkSpace
    BY <1>1, <2>1, <2>4
  <2>8. CASE HandOut(grown, l)
    <3>1. /\ WellFormed(blocks', brkStart, top) /\ Apart(blocks', {})
          /\ Covers(grown, brkStart, top) => Covers(blocks', brkStart, top)
          /\ Accounted(blocks', live', backLink')
          /\ Granted(l, top)
      BY <1>1, <1>3, <2>3, <2>4, <2>6, <2>8, HandOutKeeps DEF Granted
    <3>2. HeapInv'
      BY <1>1, <2>1, <2>5, <2>7, <3>1 DEF HeapInv
    <3> QED  BY <2>1, <2>4, <3>1, <3>2
  <2>9. CASE blocks' = grown /\ UNCHANGED <<backLink, live>>
    <3>1. HeapInv'
      BY <1>1, <2>1, <2>3, <2>5, <2>6, <2>7, <2>9 DEF HeapInv
    <3> QED  BY <2>1, <2>4, <2>9, <3>1
  <2> QED  BY <2>1, <2>8, <2>9
<1> QED  BY <1>4, <1>5, <1>6 DEF Alloc

\* The heap starts with no block, no allocation and no memory of its own.
LEMMA HeapInvInit == HeapInit => HeapInv
<1> SUFFICES ASSUME HeapInit PROVE HeapInv
  OBVIOUS
<1>1. blocks = << >> /\ backLink = << >> /\ live = {} /\ brkStart \in BrkStarts /\ brk = brkStart
  BY DEF HeapInit
<1>2. blocks \in Seq(Block) /\ Len(blocks) = 0 /\ DOMAIN backLink = {}
  BY <1>1
<1>3. WellFormed(blocks, brkStart, brk) /\ Apart(blocks, {}) /\ Covers(blocks, brkStart, brk)
  BY <1>1, <1>2 DEF WellFormed, Apart, Covers
<1>4. Accounted(blocks, live, backLink)
  BY <1>1, <1>2 DEF Accounted
<1>5. brk \in brkStart .. brkStart + BrkSpace
  BY <1>1, HeapAssumption
<1> QED  BY <1>1, <1>3, <1>4, <1>5 DEF HeapInv

\* Every step of the heap keeps it.
LEMMA HeapInvNext == HeapInv /\ [HeapNext]_heapVars => HeapInv'
<1> SUFFICES ASSUME HeapInv, [HeapNext]_heapVars PROVE HeapInv'
  OBVIOUS
<1>1. ASSUME NEW l \in Layouts, Alloc(l) PROVE HeapInv'
  BY <1>1, AllocKeeps
<1>2. ASSUME NEW a \in live, Dealloc(a) PROVE HeapInv'
  <2>1. brk' = brk /\ brkStart' = brkStart
    BY <1>2 DEF Dealloc
  <2>2. brkStart \in Nat /\ brk \in Nat
    BY HeapAssumption DEF HeapInv
  <2>3. /\ WellFormed(blocks', brkStart, brk) /\ Apart(blocks', {})
        /\ Covers(blocks, brkStart, brk) => Covers(blocks', brkStart, brk)
        /\ Accounted(blocks', live', backLink')
    BY <1>2, <2>2, DeallocKeeps
  <2> QED  BY <2>1, <2>3 DEF HeapInv
<1>3. CASE UNCHANGED heapVars
  BY <1>3 DEF HeapInv, heapVars
<1> QED  BY <1>1, <1>2, <1>3 DEF HeapNext

-----------------------------------------------------------------------------
(* The theorems. *)

\* The inductive invariant holds of every behaviour.
THEOREM HeapInvariance == HeapSpec => []HeapInv
BY HeapInvInit, HeapInvNext, PTL DEF HeapSpec

\* The variables have their types: the list is one of blocks, and there is a
\* word that leads back for each live pointer and for no other.
THEOREM HeapTypeCorrect == HeapSpec => []HeapTypeOK
<1>1. HeapInv => HeapTypeOK
  <2> SUFFICES ASSUME HeapInv PROVE HeapTypeOK
    OBVIOUS
  <2>1. /\ blocks \in Seq(Block) /\ live \subseteq Allocation
        /\ DOMAIN backLink = {a.ptr : a \in live}
        /\ \A a \in live : \E i \in 1 .. Len(blocks) : Holds(blocks[i], a, backLink[a.ptr])
    BY DEF HeapInv, WellFormed, Accounted
  <2>2. ASSUME NEW a \in live PROVE backLink[a.ptr] \in Nat
    <3>1. PICK i \in 1 .. Len(blocks) : Holds(blocks[i], a, backLink[a.ptr])
      BY <2>1
    <3>2. blocks[i] \in Block
      BY <2>1, ElementOfSeq
    <3> QED  BY <3>1, <3>2 DEF Holds, Block
  <2>3. live \subseteq [ptr : Nat, size : Nat, align : Nat]
    BY <2>1 DEF Allocation
  <2> QED  BY <2>1, <2>2, <2>3 DEF HeapTypeOK, HeapInv, Block
<1> QED  BY <1>1, HeapInvariance, PTL

\* Blocks are aligned, large enough, in order, apart, and inside the memory
\* the kernel granted, whatever was allocated and freed in whatever order.
THEOREM BlocksStayApart == HeapSpec => []BlocksApart
<1>1. HeapInv => BlocksApart
  BY DEF HeapInv, WellFormed, Sound, BlocksApart
<1> QED  BY <1>1, HeapInvariance, PTL

\* Each live allocation lies in a used block of its own, behind the header and
\* the word that leads back to it.
THEOREM LiveHasItsBlock == HeapSpec => []LiveInOwnBlock
<1>1. HeapInv => LiveInOwnBlock
  BY DEF HeapInv, Accounted, Holds, LiveInOwnBlock
<1> QED  BY <1>1, HeapInvariance, PTL

\* No two free neighbours are left apart.
THEOREM NeighboursCoalesce == HeapSpec => []NoFreeNeighbours
<1>1. HeapInv => NoFreeNeighbours
  BY DEF HeapInv, Apart, NoFreeNeighbours
<1> QED  BY <1>1, HeapInvariance, PTL

\* Once everything is freed the heap is one block again.
THEOREM NothingLeaks == HeapSpec => []EmptyHeapIsWhole
<1>1. HeapInv => EmptyHeapIsWhole
  <2> SUFFICES ASSUME HeapInv, live = {}, brkStart % ALIGN = 0
               PROVE  \/ blocks = << >> /\ brk = brkStart
                      \/ blocks = <<[base |-> brkStart, span |-> brk - brkStart, free |-> TRUE]>>
    BY DEF EmptyHeapIsWhole
  <2>1. /\ blocks \in Seq(Block) /\ Len(blocks) \in Nat /\ Covers(blocks, brkStart, brk)
        /\ Apart(blocks, {})
    BY DEF HeapInv, WellFormed
  <2>2. \A i \in 1 .. Len(blocks) : blocks[i] \in Block /\ blocks[i].free
    <3> TAKE i \in 1 .. Len(blocks)
    <3>1. blocks[i] \in Block
      BY <2>1, ElementOfSeq
    <3>2. blocks[i].free
      BY DEF HeapInv, Accounted
    <3> QED  BY <3>1, <3>2
  <2>3. CASE Len(blocks) = 0
    <3>1. blocks = << >>
      BY <2>1, <2>3, EmptySeq
    <3> QED  BY <2>1, <2>3, <3>1 DEF Covers
  <2>4. CASE Len(blocks) = 1
    <3>1. blocks[1].base = brkStart /\ End(blocks[1]) = brk /\ blocks[1] \in Block /\ blocks[1].free
      BY <2>1, <2>2, <2>4 DEF Covers
    <3>2. blocks[1].span = brk - brkStart
      BY <3>1 DEF End, Block
    <3>3. blocks[1] = [base |-> brkStart, span |-> brk - brkStart, free |-> TRUE]
      BY <3>1, <3>2 DEF Block
    <3>4. blocks = <<blocks[1]>>
      BY <2>1, <2>4
    <3> QED  BY <3>3, <3>4
  <2>5. CASE Len(blocks) > 1
    <3>1. 1 \in 1 .. Len(blocks) - 1 /\ 1 \in 1 .. Len(blocks) /\ 1 + 1 \in 1 .. Len(blocks)
      BY <2>1, <2>5
    <3>2. End(blocks[1]) = blocks[1 + 1].base
      BY <2>1, <2>5, <3>1 DEF Covers
    <3>3. Contiguous(blocks[1], blocks[1 + 1])
      BY <2>2, <3>1, <3>2 DEF Contiguous
    <3> QED  BY <2>1, <3>1, <3>3 DEF Apart
  <2>6. Len(blocks) = 0 \/ Len(blocks) = 1 \/ Len(blocks) > 1
    BY <2>1
  <2> QED  BY <2>3, <2>4, <2>5, <2>6, Zenon
<1> QED  BY <1>1, HeapInvariance, PTL

\* The allocator implements the contract: every allocation that succeeds is
\* aligned as asked, inside the memory granted and apart from all live ones.
THEOREM AllocatorMeetsContract == HeapSpec => HeapMeetsContract
<1>1. HeapInit => Contract!ContractInit
  BY DEF HeapInit, Contract!ContractInit
<1>2. HeapInv /\ [HeapNext]_heapVars => [Contract!ContractNext]_<<live, brk, brkStart>>
  <2> SUFFICES ASSUME HeapInv, [HeapNext]_heapVars
               PROVE  [Contract!ContractNext]_<<live, brk, brkStart>>
    OBVIOUS
  <2>1. ASSUME NEW l \in Layouts, Alloc(l) PROVE Contract!ContractNext
    <3>1. HeapInv' /\ (live' = live \/ Granted(l, brk')) /\ brk' >= brk /\ brkStart' = brkStart
      BY <2>1, AllocKeeps
    <3>2. brk' \in Nat
      BY <3>1, HeapAssumption DEF HeapInv
    <3>3. Contract!ContractAlloc(l)
      BY <3>1, <3>2 DEF Contract!ContractAlloc, Granted
    <3> QED  BY <3>3 DEF Contract!ContractNext
  <2>2. ASSUME NEW a \in live, Dealloc(a) PROVE Contract!ContractNext
    <3>1. live' = live \ {a} /\ UNCHANGED <<brk, brkStart>>
      BY <2>2 DEF Dealloc
    <3> QED  BY <3>1 DEF Contract!ContractNext, Contract!ContractDealloc
  <2>3. CASE UNCHANGED heapVars
    BY <2>3 DEF heapVars
  <2> QED  BY <2>1, <2>2, <2>3 DEF HeapNext
<1> QED  BY <1>1, <1>2, HeapInvariance, PTL DEF HeapSpec, HeapMeetsContract, Contract!ContractSpec

=============================================================================
